----------------------------- MODULE HardwareTraps -----------------------------
(***************************************************************************)
(* Hardware (indirect) traps of the UAE board (traps.cpp, autoconf.cpp,    *)
(* filesys.asm).  A 68k task takes one of a few slots in the board's       *)
(* memory, writes the number of the trap there and polls the slot.  A trap *)
(* thread of the host runs the handler.  What the handler wants from the   *)
(* 68k it asks for through the slot, and the polling task does it.  A      *)
(* handler may also hand its context to a worker (the thread of a          *)
(* filesystem unit or of a hardfile), which then ends the trap.  A machine *)
(* reset clears the slots and drains the threads.                          *)
(*                                                                         *)
(* trap_mode is 0 as nothing sets it: tasks poll and are not interrupted.  *)
(* hardware_trap_event only shortens the 100 ms between two looks at the   *)
(* slot, and every look tests anew: it is left out.                        *)
(***************************************************************************)
EXTENDS Integers, FiniteSets, Sequences

CONSTANTS
  Tasks,       \* 68k tasks
  NumSlots,    \* RTAREA_TRAP_DATA_NUM (4), a power of two
  MaxTraps,    \* bound: traps taken
  MaxCalls,    \* bound: what a handler or a worker asks the 68k for in a trap
  MaxResets    \* bound: machine resets

ASSUME TrapsAssumption ==
  /\ NumSlots \in {1, 2, 4} /\ MaxTraps \in Nat /\ MaxCalls \in Nat /\ MaxResets \in Nat

Slots   == 0 .. NumSlots - 1
Threads == Slots               \* one trap thread for every slot, by number only
Hosts   == Threads \cup {NumSlots}
Worker  == NumSlots
NULL    == 0                   \* a context is the number of its trap
Quit    == NULL

VARIABLES
  task,        \* 68k tasks: where each is, its slot and its trap
  lock,        \* bit 7 of a slot's status: allocated
  acked,       \* a slot's status byte 2 is not 0: the trap is done
  second,      \* a slot's second status byte: 0, 0xfe, 4 or 3
  asker,       \* the trap whose handler wrote the command in a slot
  ctx,         \* the contexts, by trap
  pipe,        \* trap_thread_pipe, and the worker's pipe
  trap_thread_index,
  host,        \* trap threads and the worker: place, context, calls made
  kill,        \* hardware_trap_kill
  state,       \* hardware_trap_state
  emu,         \* the emulator thread: "run", or how far its reset is
  resets,
  acks,        \* how often each trap was acked (history)
  raced,       \* traps completed before their trap thread looked (history)
  abandoned    \* slots in which a reset cut off a command (history)

slots   == <<lock, acked, second, asker>>
hosts   == <<pipe, host, ctx, acks, raced>>
control == <<kill, state, emu, resets>>
vars    == <<task, slots, hosts, trap_thread_index, control, abandoned>>

Emu(place, t) == [at |-> place, thread |-> t]
Slot(h) == ctx[host[h].trap].slot
At(h, place) == host[h].at = place
Go(h, place) == host' = [host EXCEPT ![h].at = place]
Idle == [at |-> "read", trap |-> 0, calls |-> 0]
Running == [at |-> "run", slot |-> 0, trap |-> 0]
Taken == Cardinality({n \in 1 .. MaxTraps : ctx[n].used})

-----------------------------------------------------------------------------
(* The 68k: hwtrap_entry.  Reading the lock word takes the slot and clears *)
(* the ack; the task stores its registers and writes the number, which     *)
(* calls call_hardware_trap: the next thread in turn gets the trap.  No    *)
(* trap is taken once a thread has acked one that is the worker's.         *)
Trap_KeepsAck(t) ==
  /\ emu.at = "run" /\ task[t].at = "run" /\ Taken < MaxTraps /\ raced = {}
  /\ \E s \in Slots :
       /\ ~ lock[s] /\ \A r \in 0 .. s - 1 : lock[r]
       /\ lock' = [lock EXCEPT ![s] = TRUE]
       /\ task' = [task EXCEPT ![t] = [at |-> "wait", slot |-> s, trap |-> Taken + 1]]
       /\ ctx' = [ctx EXCEPT ![Taken + 1] = [@ EXCEPT !.used = TRUE, !.slot = s]]
       /\ pipe' = [pipe EXCEPT ![trap_thread_index] = Append(@, Taken + 1)]
       /\ trap_thread_index' = (trap_thread_index + 1) % NumSlots
  /\ UNCHANGED <<acked, second, asker, host, acks, raced, control, abandoned>>
Trap(t) ==
  /\ emu.at = "run" /\ task[t].at = "run" /\ Taken < MaxTraps /\ raced = {}
  /\ \E s \in Slots :
       /\ ~ lock[s] /\ \A r \in 0 .. s - 1 : lock[r]
       /\ lock' = [lock EXCEPT ![s] = TRUE]
       /\ acked' = [acked EXCEPT ![s] = FALSE]
       /\ task' = [task EXCEPT ![t] = [at |-> "wait", slot |-> s, trap |-> Taken + 1]]
       /\ ctx' = [ctx EXCEPT ![Taken + 1] = [@ EXCEPT !.used = TRUE, !.slot = s]]
       /\ pipe' = [pipe EXCEPT ![trap_thread_index] = Append(@, Taken + 1)]
       /\ trap_thread_index' = (trap_thread_index + 1) % NumSlots
  /\ UNCHANGED <<second, asker, host, acks, raced, control, abandoned>>

(* .waittrap: a command is there, 0xfe; the task marks it with 4 ...       *)
TaskCommand(t) ==
  /\ emu.at = "run" /\ task[t].at = "wait"
  /\ ~ acked[task[t].slot] /\ second[task[t].slot] = "asked"
  /\ second' = [second EXCEPT ![task[t].slot] = "taken"]
  /\ task' = [task EXCEPT ![t].at = "command"]
  /\ UNCHANGED <<lock, acked, asker, hosts, trap_thread_index, control, abandoned>>

(* ... and with 3 after hwtrap_command. *)
TaskCommandDone(t) ==
  /\ emu.at = "run" /\ task[t].at = "command"
  /\ second' = [second EXCEPT ![task[t].slot] = "done"]
  /\ task' = [task EXCEPT ![t].at = "wait"]
  /\ UNCHANGED <<lock, acked, asker, hosts, trap_thread_index, control, abandoned>>

(* .triggered: the task takes its registers back and frees the slot. *)
TaskResumes(t) ==
  /\ emu.at = "run" /\ task[t].at = "wait" /\ acked[task[t].slot]
  /\ acked' = [acked EXCEPT ![task[t].slot] = FALSE]
  /\ lock' = [lock EXCEPT ![task[t].slot] = FALSE]
  /\ task' = [task EXCEPT ![t] = Running]
  /\ UNCHANGED <<second, asker, hosts, trap_thread_index, control, abandoned>>

TaskStep(t) == TaskCommand(t) \/ TaskCommandDone(t) \/ TaskResumes(t)

-----------------------------------------------------------------------------
(* The host: hardware_trap_thread(t). *)
ThreadRead(t) ==
  /\ At(t, "read") /\ pipe[t] # <<>> /\ Head(pipe[t]) # NULL
  /\ pipe' = [pipe EXCEPT ![t] = Tail(@)]
  /\ host' = [host EXCEPT ![t] = [at |-> "handler", trap |-> Head(pipe[t]), calls |-> 0]]
  /\ second' = [second EXCEPT ![ctx[Head(pipe[t])].slot] = "none"]
  /\ UNCHANGED <<task, lock, acked, asker, ctx, acks, raced, trap_thread_index, control,
                 abandoned>>

(* A NULL of reset_traps: the rest of the pipe is thrown away.             *)
ThreadDrains(t) ==
  /\ At(t, "read") /\ pipe[t] # <<>> /\ Head(pipe[t]) = NULL
  /\ pipe' = [pipe EXCEPT ![t] = <<>>]
  /\ state' = [state EXCEPT ![t] = 0]
  /\ UNCHANGED <<task, slots, host, ctx, acks, raced, trap_thread_index, kill, emu, resets,
                 abandoned>>

(* call_hardware_trap_back, called by a handler or by the worker: it does  *)
(* nothing if the slot is to be killed ...                                 *)
CallBack(h) ==
  /\ At(h, "handler") /\ host[h].calls < MaxCalls
  /\ IF kill[Slot(h)] # 1
       THEN /\ host' = [host EXCEPT ![h].calls = @ + 1]
            /\ UNCHANGED <<second, asker>>
       ELSE /\ host' = [host EXCEPT ![h].calls = @ + 1, ![h].at = "callback"]
            /\ second' = [second EXCEPT ![Slot(h)] = "asked"]
            /\ asker' = [asker EXCEPT ![Slot(h)] = host[h].trap]
  /\ UNCHANGED <<task, lock, acked, pipe, ctx, acks, raced, trap_thread_index, control,
                 abandoned>>

(* ... and then looks at the slot every 100 ms: done, or killed?           *)
CallBackReturns(h) ==
  /\ At(h, "callback")
  /\ kill[Slot(h)] = 1 /\ second[Slot(h)] = "done"
  /\ second' = [second EXCEPT ![Slot(h)] = "none"]
  /\ Go(h, "handler")
  /\ UNCHANGED <<task, lock, acked, asker, pipe, ctx, acks, raced, trap_thread_index, control,
                 abandoned>>

CallBackKilled(h) ==
  /\ At(h, "callback")
  /\ kill[Slot(h)] # 1
  /\ abandoned' = abandoned \cup {Slot(h)}
  /\ Go(h, "handler")
  /\ UNCHANGED <<task, slots, pipe, ctx, acks, raced, trap_thread_index, control>>

(* trap_set_background, and the context goes to the worker: the last thing *)
(* a handler does.                                                         *)
HandsOver_GoesOn(t) ==
  /\ At(t, "handler")
  /\ ctx' = [ctx EXCEPT ![host[t].trap].background = @ + 1, ![host[t].trap].given = TRUE]
  /\ pipe' = [pipe EXCEPT ![Worker] = Append(@, host[t].trap)]
  /\ UNCHANGED <<task, slots, host, acks, raced, trap_thread_index, control, abandoned>>
HandsOver(t) ==
  /\ At(t, "handler")
  /\ ctx' = [ctx EXCEPT ![host[t].trap].background = @ + 1, ![host[t].trap].given = TRUE]
  /\ pipe' = [pipe EXCEPT ![Worker] = Append(@, host[t].trap)]
  /\ Go(t, "return")
  /\ UNCHANGED <<task, slots, acks, raced, trap_thread_index, control, abandoned>>

HandlerReturns(t) ==
  /\ At(t, "handler")
  /\ Go(t, "return")
  /\ UNCHANGED <<task, slots, pipe, ctx, acks, raced, trap_thread_index, control, abandoned>>

(* hardware_trap_ack, after which the context is freed. *)
Ack(h) ==
  /\ acked' = [acked EXCEPT ![Slot(h)] = TRUE]
  /\ acks' = [acks EXCEPT ![host[h].trap] = @ + 1]
  /\ ctx' = [ctx EXCEPT ![host[h].trap].freed = TRUE]
  /\ host' = [host EXCEPT ![h] = Idle]

(* "if (!ctx->trap_background)": the thread acks, or leaves it to the      *)
(* worker, even if the worker was faster than this look.                   *)
ThreadAcks_Always(t) ==
  /\ At(t, "return")
  /\ Ack(t)
  /\ raced' = IF ctx[host[t].trap].given /\ ctx[host[t].trap].background = 0
                THEN raced \cup {host[t].trap} ELSE raced
  /\ UNCHANGED <<task, lock, second, asker, pipe, trap_thread_index, control, abandoned>>
ThreadAcks(t) ==
  /\ At(t, "return") /\ ctx[host[t].trap].background = 0
  /\ Ack(t)
  /\ raced' = IF ctx[host[t].trap].given THEN raced \cup {host[t].trap} ELSE raced
  /\ UNCHANGED <<task, lock, second, asker, pipe, trap_thread_index, control, abandoned>>

ThreadLeaves_NotDone(t) ==
  /\ At(t, "return") /\ ctx[host[t].trap].background > 0
  /\ host' = [host EXCEPT ![t] = Idle]
  /\ UNCHANGED <<task, slots, pipe, ctx, acks, raced, trap_thread_index, control, abandoned>>
ThreadLeaves(t) ==
  /\ At(t, "return") /\ ctx[host[t].trap].background > 0
  /\ ctx' = [ctx EXCEPT ![host[t].trap].done = TRUE]
  /\ host' = [host EXCEPT ![t] = Idle]
  /\ UNCHANGED <<task, slots, pipe, acks, raced, trap_thread_index, control, abandoned>>

ThreadStep(t) ==
  \/ ThreadRead(t) \/ ThreadDrains(t) \/ CallBack(t) \/ CallBackReturns(t)
  \/ CallBackKilled(t) \/ HandsOver(t) \/ HandlerReturns(t) \/ ThreadAcks(t)
  \/ ThreadLeaves(t)

-----------------------------------------------------------------------------
(* The worker. *)
WorkerRead ==
  /\ At(Worker, "read") /\ pipe[Worker] # <<>>
  /\ pipe' = [pipe EXCEPT ![Worker] = Tail(@)]
  /\ host' = [host EXCEPT ![Worker] =
       [at |-> IF Head(pipe[Worker]) = Quit THEN "off" ELSE "handler",
        trap |-> Head(pipe[Worker]), calls |-> 0]]
  /\ UNCHANGED <<task, slots, ctx, acks, raced, trap_thread_index, control, abandoned>>

(* trap_background_set_complete: "while (!ctx->trap_done);".  What a freed *)
(* context holds there is anything.                                        *)
WorkerCompletes ==
  /\ At(Worker, "handler")
  /\ ctx' = [ctx EXCEPT ![host[Worker].trap].background = @ - 1]
  /\ Go(Worker, IF ctx[host[Worker].trap].background = 1 THEN "spin" ELSE "read")
  /\ UNCHANGED <<task, slots, pipe, acks, raced, trap_thread_index, control, abandoned>>

WorkerAcks ==
  /\ At(Worker, "spin")
  /\ ctx[host[Worker].trap].done \/ ctx[host[Worker].trap].freed
  /\ Ack(Worker)
  /\ UNCHANGED <<task, lock, second, asker, pipe, raced, trap_thread_index, control, abandoned>>

WorkerStep ==
  \/ WorkerRead \/ CallBack(Worker) \/ CallBackReturns(Worker) \/ CallBackKilled(Worker)
  \/ WorkerCompletes \/ WorkerAcks

-----------------------------------------------------------------------------
(* devices_reset on the emulator thread: the 68k is gone and rtarea_reset  *)
(* clears the slots.                                                       *)
ResetBegin ==
  /\ emu.at = "run" /\ resets < MaxResets
  /\ resets' = resets + 1
  /\ task' = [t \in Tasks |-> Running]
  /\ lock' = [s \in Slots |-> FALSE] /\ acked' = [s \in Slots |-> FALSE]
  /\ second' = [s \in Slots |-> "none"]
  /\ emu' = Emu("kill", 0)
  /\ UNCHANGED <<asker, hosts, trap_thread_index, kill, state, abandoned>>

(* reset_traps, for one thread after the other: kill it by its number,     *)
(* wake it up with a NULL ...                                              *)
ResetKills_NoNull(t) ==
  /\ emu = Emu("kill", t)
  /\ kill' = [kill EXCEPT ![t] = -1]
  /\ state' = [state EXCEPT ![t] = 1]
  /\ emu' = Emu("wait", t)
  /\ UNCHANGED <<task, slots, hosts, trap_thread_index, resets, abandoned>>
ResetKills(t) ==
  /\ emu = Emu("kill", t)
  /\ kill' = [kill EXCEPT ![t] = -1]
  /\ state' = [state EXCEPT ![t] = 1]
  /\ pipe' = [pipe EXCEPT ![t] = Append(@, NULL)]
  /\ emu' = Emu("wait", t)
  /\ UNCHANGED <<task, slots, host, ctx, acks, raced, trap_thread_index, resets, abandoned>>

(* ... and wait until it has drained its pipe. *)
ResetNext(t) ==
  /\ emu = Emu("wait", t) /\ state[t] = 0
  /\ kill' = [kill EXCEPT ![t] = 1]
  /\ emu' = IF t + 1 < NumSlots THEN Emu("kill", t + 1) ELSE Emu("quit", 0)
  /\ UNCHANGED <<task, slots, hosts, trap_thread_index, state, resets, abandoned>>

(* hardfile_reset (filesys_prepare_reset2 alike) sends the worker its quit *)
(* message and waits for it; the new machine starts it again.              *)
ResetQuits ==
  /\ emu = Emu("quit", 0)
  /\ pipe' = [pipe EXCEPT ![Worker] = Append(@, Quit)]
  /\ emu' = Emu("worker", 0)
  /\ UNCHANGED <<task, slots, host, ctx, acks, raced, trap_thread_index, kill, state, resets,
                 abandoned>>

ResetOver ==
  /\ emu = Emu("worker", 0) /\ At(Worker, "off")
  /\ host' = [host EXCEPT ![Worker] = Idle]
  /\ emu' = Emu("run", 0)
  /\ UNCHANGED <<task, slots, pipe, ctx, acks, raced, trap_thread_index, kill, state, resets,
                 abandoned>>

ResetStep ==
  \/ \E t \in Threads : ResetKills(t) \/ ResetNext(t)
  \/ ResetQuits \/ ResetOver

-----------------------------------------------------------------------------
Init ==
  /\ task = [t \in Tasks |-> Running]
  /\ lock = [s \in Slots |-> FALSE] /\ acked = [s \in Slots |-> FALSE]
  /\ second = [s \in Slots |-> "none"] /\ asker = [s \in Slots |-> 0]
  /\ ctx = [n \in 1 .. MaxTraps |-> [used |-> FALSE, slot |-> 0, background |-> 0,
                                      given |-> FALSE, done |-> FALSE, freed |-> FALSE]]
  /\ pipe = [h \in Hosts |-> <<>>] /\ trap_thread_index = 0
  /\ host = [h \in Hosts |-> Idle]
  /\ kill = [s \in Slots |-> 1] /\ state = [t \in Threads |-> 0]
  /\ emu = Emu("run", 0) /\ resets = 0
  /\ acks = [n \in 1 .. MaxTraps |-> 0] /\ raced = {} /\ abandoned = {}

Next ==
  \/ \E t \in Tasks : Trap(t) \/ TaskStep(t)
  \/ \E t \in Threads : ThreadStep(t)
  \/ WorkerStep \/ ResetBegin \/ ResetStep

(* Tasks of equal priority run in turn, host threads run on; nobody has to *)
(* trap or to reset.                                                       *)
Spec == Init /\ [][Next]_vars
FairSpec ==
  /\ Spec
  /\ \A t \in Tasks : WF_vars(TaskStep(t))
  /\ \A t \in Threads : WF_vars(ThreadStep(t))
  /\ WF_vars(WorkerStep) /\ WF_vars(ResetStep)

-----------------------------------------------------------------------------
TypeOK ==
  /\ \A t \in Tasks : task[t].at \in {"run", "wait", "command"}
  /\ second \in [Slots -> {"none", "asked", "taken", "done"}]
  /\ \A h \in Hosts : host[h].at \in {"read", "handler", "callback", "return", "spin", "off"}
  /\ \A n \in 1 .. MaxTraps : ctx[n].background \in 0 .. 1
  /\ kill \in [Slots -> {-1, 1}] /\ state \in [Threads -> 0 .. 1]
  /\ trap_thread_index \in Threads /\ abandoned \subseteq Slots

(* A trap is acked once, by its trap thread or by the worker that it was   *)
(* handed to, unless the worker completed it before the trap thread looked *)
(* whether it had been handed over.                                        *)
AckedOnce == \A n \in 1 .. MaxTraps : acks[n] > 1 => n \in raced

(* "do not ack automatically": a trap handed over is the worker's to ack.  *)
WorkerAcksItsTraps == raced = {}

(* A slot serves the trap of the task that took it, although the trap      *)
(* before it, the worker and the machine before a reset use the same bytes:*)
(* a task is released by the ack of its own trap, executes the commands of *)
(* its own handler (but one that a reset cut off in that slot, which the   *)
(* new machine finds there), and no two host threads ask in one slot.      *)
SlotServesItsTask ==
  raced = {} =>
    /\ \A t \in Tasks : LET s == task[t].slot IN
         /\ task[t].at # "run" /\ acked[s] => acks[task[t].trap] > 0
         /\ task[t].at = "command" /\ s \notin abandoned => asker[s] = task[t].trap
    /\ \A g, h \in Hosts : At(g, "callback") /\ At(h, "callback") /\ g # h => Slot(g) # Slot(h)

(* A command of a handler or worker that no task is left to execute, in a  *)
(* slot that is not being killed: the kill flags are set by the number of  *)
(* a thread and tested by the number of a slot.                            *)
Orphaned == emu.at # "run" /\ \E h \in Hosts : At(h, "callback") /\ kill[Slot(h)] = 1

(* A reset ends, unless it waits for a host thread that waits for the 68k. *)
ResetEnds == (emu.at # "run") ~> (emu.at = "run" \/ Orphaned \/ raced # {})

(* A trap ends: its task runs on. *)
TrapsEnd ==
  \A t \in Tasks :
    (task[t].at # "run") ~> (task[t].at = "run" \/ raced # {} \/ emu.at # "run")
=============================================================================
