# A TLA+ model of Amiberry-Lite

Amiberry-Lite is an Amiga emulator built on the WinUAE core. One host thread,
the *emulator thread*, runs the 68k CPU and the custom chips. Around it live
some twenty kinds of host threads: filesystem units, hardfiles, SCSI, serial,
CD, drawing, trap handlers. They hand work to each other through pipes and
semaphores, and to the emulated machine through message pipes, interrupts and
traps, while a machine reset may happen at any moment. That hand-over is what
this project models: it is small, everything depends on it, and no test of the
repository exercises its interleavings. Paths below are relative to the
repository; its program is in `src/`.

Contents

1. The system: components, state, operations, hard behaviour
2. The modules and how they correspond to the code
3. The runs: what they check, bounds, fairness
4. The proofs
5. What the code does that its comments do not say
6. What is not modelled
7. Plan

## 1. The system

### Threads and the pipes between them

| component | code | state it keeps | operations | talks to |
|---|---|---|---|---|
| thread-to-thread pipe | `include/commpipe.h` | ring `data/rdp/wrp`, `size`, `chunks`, `lock`, two wait semaphores, `reader_waiting`, `writer_waiting` | `write_comm_pipe_*`, `read_comm_pipe_*_blocking`, `comm_pipe_has_data`, init, destroy | every row below |
| semaphores and threads | `threaddep/` | SDL semaphores | `uae_sem_init` (posts a semaphore that exists), `wait`, `post`, `trywait`, `unpost` (a post) | every row below |
| native-to-Amiga messages | `native2amiga.cpp` | pipe of 300, `n2asem`, bit 0 of `uae_int_requested` | `uae_Cause`, `uae_ReplyMsg`, `uae_PutMsg`, `uae_Signal*`, `uae_NotificationHack`, reset, install | host threads to `exter_int_helper` |
| exter interrupt helper and exter task | `filesys.cpp` 6854-7045, `filesys.asm` | `singlethread_int_sem`, static `unit_no`, `filesys_in_interrupt` | helper calls 10, 11 and 1 | pipe above, handler tasks |
| filesystem packets | `filesys.cpp`, `filesys.asm` | `cmds_sent`, `cmds_acked`, `cmds_complete` per unit, unit pipe, 68k list of packets | `filesys_handler`, `filesys_iteration`, the 68k's `FSML_*` loop | a 68k task and a host thread per unit |
| extended traps | `traps.cpp` 190-520 | a context with a thread and two semaphores per trap, `trap_mutex`, `current_context` | `trap_HandleExtendedTrap`, `trap_Call68k`, call, return and exit trap | emulator thread, trap threads, 68k tasks |
| hardware (indirect) traps | `traps.cpp` 530-900, `filesys.asm`, `autoconf.cpp` | slots in the board's memory (lock word, ack, command status), a pipe and a thread per slot number, `hardware_trap_kill`, `hardware_trap_state`, `trap_background` and `trap_done` of a context | `call_hardware_trap`, `hardware_trap_thread`, `call_hardware_trap_back`, `trap_set_background`, `reset_traps` | polling 68k tasks, trap threads, the threads of filesystem units and hardfiles |
| threaded 68k CPU | `newcpu.cpp` 3170-3480 | three semaphores, one request in globals, `cpu_thread_ilvl`, `cpu_thread_reset`, `cpu_thread_active`, `spcflags` | `run_cpu_thread`, `cpu_thread_run_2`, `process_cpu_indirect_memory_*`, `do_specialties_thread`, `custom_reset_cpu` | CPU thread and emulator thread |
| event table | `events.cpp` | `eventtab`, `eventtab2` (12 slots with `next` links), `nextevent`, `last_event2` | `event2_newevent_xx` and relatives, `MISC_handler`, `do_cycles_cpu_norm`, `clear_events` | all chips; handlers schedule events themselves |
| uaeserial.device | `uaeserial.cpp` | per-unit request pipe (100 items, 33 messages), list of asynchronous requests under `async_sem`, `change_sem`, `pipe_sem`, `sync_sem` | `BeginIO`, `AbortIO`, open, close, reset, host serial signals | 68k tasks, `dev_thread`, host serial thread |
| uaehf.device, uaescsi.device, sana2 | `hardfile.cpp`, `scsiemul.cpp`, `sana2.cpp` | the same structure (pipes of 300, 300 and 100; at most 50 requests of a hardfile) | as above, disk change | 68k tasks, a thread per unit |
| keyboard buffer | `keybuf.cpp` | ring `keybuf`, `kpb_first`, `kpb_last` | `record_key_direct`, `get_next_key`, inject, init | input thread, console hook thread, CIA |
| machine reset | `devices.cpp` 180-280 | none of its own | resets the components one after another while their threads run | all |
| drawing, Picasso96, CD image, Akiko, IDE, A2091, CDTV, parallel port threads | `drawing.cpp`, `osdep/picasso96.cpp`, `blkdev_cdimage.cpp`, `akiko.cpp`, `ide.cpp`, `a2091.cpp`, `cdtv.cpp`, `osdep/vpar.cpp` | a pipe (1 to 20 slots) or a few flags each | worker loops | emulator thread |
| everything else | see section 6 | | | |

Pipe sizes and wake-up chunks in the program are (10,1), (20,1), (100,1),
(300,1), (300,2), (300,3) and (400,3): always `1 <= chunks < size`, which is the
assumption of the pipe's model.

### Where it is hard, and what makes it correct

* **Pipe.** The writer has an unlocked fast path, a waiting side does not test
  its condition again when it wakes up, and a reader is woken late (chunks).
  Correct means: a bounded FIFO, no surplus wake-up, no wait that nobody ends.
* **Messages.** Several threads write messages of two to four items into a
  one-writer pipe, and the reader is a 68k task woken by an interrupt bit.
  Correct means: whole messages, in order, each once, and no lost wake-up.
* **Packets.** Three counters without a lock decide whether a handler task is
  told to reply. Correct means: one dummy message per unit at a time, a packet
  replied to once, and every finished packet replied to.
* **Traps.** A mutex is taken by one thread and given back by another after a
  detour through 68k code, with several tasks and nested traps. Correct means:
  exactly one thread has control, a 68k function returns to the handler that
  called it, a task resumes with what it trapped with, every trap ends.
* **Events.** Handlers change the table while it is scanned, and a full table
  runs a handler early. Correct means: none missed, none at the wrong time, and
  the order of scheduling kept for one time.
* **Device requests.** Three threads look up, mark, pipe, reply to and free the
  same request, most of it outside `async_sem`, and two of them write to a pipe
  that only the third reads. Correct means: one reply for each sending, no freed
  copy used, no mutual wait, and a reply to every request that can have one.
* **Hardware traps.** A trap may be finished by another thread than the one that
  began it, and a reset kills threads by number while the traps are in slots.
  Correct means: one ack for each trap, a command reaches the task whose trap
  asked for it, every trap and every reset ends.
* **Threaded CPU.** One request in globals and three semaphores connect two
  threads that also start, end and reset each other. Correct means: an access is
  executed once and gets its own answer, interrupts reach a sleeping CPU, nobody
  waits for ever.
* **Reset and restart.** Everything above while a reset clears half of the state
  and posts mutexes again.

`PROJECT.json` lists the hazards line by line with the properties that cover
them.

## 2. The modules

| module | models | steps |
|---|---|---|
| `BoundedFifo` | what a pipe promises: a queue of at most `Capacity` items | `Put`, `Get` |
| `CommPipe` | `include/commpipe.h` | one semaphore operation, or one group of accesses that the other side cannot tell apart |
| `MessageQueue` | what the message pipe promises: whole messages of many senders, each taken once, in the order they were sent | `Send`, `Take` |
| `ExterServer` | native-to-Amiga messages, the exter helper, filesystem packets, the reset of both | one critical section of a host thread, or one trap call of a 68k task |
| `ExtendedTrap` | extended traps | one synchronisation of a trap's thread, or one trap or return of the 68k |
| `HardwareTraps` | hardware traps, the worker threads they hand contexts to, the reset | one access to a slot, a pipe, a flag or a context |
| `DeviceRequests` | a unit of uaeserial.device, its three threads, the reset | one critical section, one write to the pipe, one access to a host copy |
| `ThreadedCpu` | the 68k on a thread of its own | one semaphore operation or one access to what the threads share |
| `EventTable` | the table of delayed calls | from one call or return of a handler to the next |

`CommPipe` implements `BoundedFifo`, and `ExterServer` implements
`MessageQueue`. `ExterServer`, `DeviceRequests` and `HardwareTraps` use bounded
queues for their pipes, of the capacity that `CommPipe` is shown to have (299
items for a pipe of 300). `ExterServer` keeps two details of the pipe that the
abstraction would lose: a sender that sleeps on a full pipe, and the reset that
forgets it.

### CommPipe

Each variable is the field of `smp_comm_pipe` with the same name; the semaphores
are counters. `pcW` and `pcR` are the places in `write_comm_pipe_pt` and
`read_comm_pipe_pt_blocking`. The actions are named for the lines: `WriteBegin`
is the unlocked test of `reader_waiting`, after which `FastData`, `FastIndex`,
`FastWake` and `FastPost` are the unlocked path and `Slow...` the locked one.
`MaybeWakeReader` is `maybe_wake_reader`. `Poll` is `comm_pipe_has_data`, which
the emulator thread calls before it reads, because it must not sleep. The data
written are 1, 2, 3, ..., so an item tells when it was written. Memory is
sequentially consistent: the fields are `volatile`, and the semaphore operations
are full barriers; what weaker hardware may do on the unlocked path between the
data store and `wrp` is not modelled.

### ExterServer

* `NativeSemWait`, `WriteItem`, `RequestInt` are a sender: `n2asem`, one step
  per pipe item, then `do_uae_int_requested` and the post of `n2asem`.
* `InterruptServer`, `ExterWakes`, `HelperEnter`, `HelperBusy`, `HelperCommand`,
  `HelperArgument`, `HelperUnit`, `HelperEnd`, `ExterActs` are the interrupt
  server, exter_task's loop in `filesys.asm`, and the states of
  `exter_int_helper`: the helper keeps `singlethread_int_sem` between its calls.
  A blocking read for an argument keeps the whole 68k (`CpuFree`).
* `HandlerPacket`, `HandlerRefuses` (the error returns of `filesys_handler`),
  `HandlerDummy`, `HandlerScan` are a unit's 68k task;
  `ThreadRead`, `ThreadCount`, `ThreadMark`, `ThreadRequest` its host thread:
  `cmds_sent++` and the mark at offset 4 of the message are separate steps, as
  in `filesys_iteration`.
* `Vsync` is the recheck of `filesys_vsync`. `ResetBegin` and `ResetEnd` are
  `native2amiga_reset` and the rest of `devices_reset`, with the other threads
  in between; the packets and 68k tasks of the old machine are gone after it.
* `Installs` is how often `native2amiga_install` ran in the process: `n2asem`
  starts at that value (section 5).
* History variables: `log`, the messages in the order their last items were
  written, which is when `MessageQueue` sends them; `num` of an item, the
  message's place in `log`; `delivered`, what the helper took for messages;
  `early` and `resets.cut`, two of the ways a reply is lost (section 5).
* `queue`, the handler task's list, is a set: its order decides nothing but how
  far `FSML_check_old` scans, and packets finish in the order they were started.

### ExtendedTrap

`ctx[c].at` is the place of a context's thread in `trap_thread` or
`trap_Call68k`; `emu` the place of the emulator thread. The 68k state is the
current task, its interrupt mask, and, per task, what its program counter points
to (ordinary code or one of the three trap entry points) and the context
pointers pushed on its stack. `Switch` is exec's task switch on an interrupt,
possible only with the mask down. `calls`, a history variable, records which
traps a task is in. `Trap`, `CallTrap`, `ReturnTrap` with `ReturnLocked`, and
`ExitTrap` are `trap_HandleExtendedTrap`, `m68k_call_handler`,
`m68k_return_handler` and `exit_trap_handler`. `Contexts` bounds how many traps
are alive; the code allocates a context for each.

### HardwareTraps

`lock`, `acked` and `second` are a slot's three status bytes; `second` is `none`
(0), `asked` (0xfe), `taken` (4) or `done` (3). `Trap` is the lock word's read,
the store of the trap's number and `call_hardware_trap`, which the store calls;
`TaskCommand`, `TaskCommandDone` and `TaskResumes` are `.waittrap` and
`.triggered` of `hwtrap_entry`. `ThreadRead`, `ThreadDrains`, `ThreadAcks` and
`ThreadLeaves` are `hardware_trap_thread`; `CallBack` and its two ends
`call_hardware_trap_back`; `HandsOver`, `WorkerCompletes`, `WorkerAcks` the
background traps of `filesys.cpp` and `hardfile.cpp`. The reset is
`rtarea_reset`, then for each thread `ResetKills` and `ResetNext`
(`reset_traps`), then the worker's quit message. `hardware_trap_event` only
shortens a wait of 100 ms after which the slot is looked at anyway, so it is left
out. Contexts are named by their trap, so a context used after it was freed can
be told; `raced` and `abandoned` are history.

### DeviceRequests

A host copy of a request is its name and the number of its sending. `phase` is a
thread's way through `pipe_sem` (`PipeSemWait`, `WriteMessage`); the message's
three writes are one step, because `pipe_sem` keeps them together. `AbortFind`
and `AbortMark` are `abort_async`, which looks the request up under `async_sem`
and uses it after the post; the 68k calls it in `AbortIO` and in the reset,
`dev_thread` in `cmd_reset` (`DevFlood`). `Signal` is `uaeser_signal`, which
holds `async_sem` until its message is in the pipe. `DevRead`, `DevLookup`,
`DevReply`, `DevRelease`, `DevIO`, `DevAdd` are `dev_thread_2`. `ResetSync` takes
`sync_sem` once and then clears the unit, as `dev_reset` does. `freed`,
`touched`, `again`, `aborted` and `missed` are history.

The model ends in two places. One is the reset's memset: what comes after it works
on semaphores that are initialised anew. The other is `at.cpu = "shared"`:
`dev_open` asks only whether the unit is open, and no close waits for `dev_thread`,
so `OpenUnit` may find the last opening's thread with its `Quit` unread.
`init_comm_pipe` then wipes the pipe under that thread, and two threads read the
new one. `ReopenLosesOnlyQuit` is what holds at that moment; what the two threads
do afterwards is not modelled (section 6).

### ThreadedCpu

`request` is the globals an access is passed in (mode, address, value); accesses
are numbered, so an answer tells whose it is. `ServeTakes`, `ServeExecutes`,
`ServeAnswers`, `ServeLogs` are the emulator thread's switch over the mode,
`PassInterrupt` the test after `do_cycles`, `MainLeaves`, `EndPosts`, `MainEnds`
the way out of `run_cpu_thread`. `CpuBegins` to `WakeUp` are `cpu_thread_run_2`
and `do_specialties_thread`. What instructions and chips do is free, as far as it
touches the shared state: accesses, `STOP`, a lower mask, `RESET`, interrupts, a
change of the configuration. `clean` of an access says that no semaphore, RESET
or end was left over when it began.

### EventTable

The variable `stack` is the C call stack between the emulated CPU (empty) and
the innermost frame: `misc` for `MISC_handler` with its local `i`, `mintime` and
`recheck`, `handler` for an event's handler, `new` for an `event2_newevent_xx`
that found the table full and runs a handler first. `dorecheck`, `next` and
`last_event2` are the code's statics. Handlers are free to schedule up to
`PerHandler` events. Times are in the code's units, `CYCLE_UNIT` of them to a
colour clock (512 in the code): an event put behind another one is one unit
later. Delays are any number of units. The fields `id`, `asked` and `after` of a
slot, the field `id` of `MISC_handler`'s frame (the event that was due at `i`) and
the variable `ran` are history. `ran.by` says what ran an event: the scan found it
`due`, a full table made room (`overflow`), or `e->next` led to it. `LinkOf` tells
three such links apart: the due event's own (`chained`), one that was made for
another event than the one now at its end (`stray`), and the link of a new event
that the due event's handler has put into slot `e` (`reused`).

## 3. The runs

| run | instance | properties | shows |
|---|---|---|---|
| `pipe` | 4 slots, chunks 2, 7 items | type; `ReadsInOrder`, `WakesWithWork`, `PolledReadNeverSleeps`; `FlushedIsRead`, `WriteReturns`; refinement `ImplementsFifo` | the pipe is a FIFO, nobody sleeps for ever |
| `messages` | 2 senders, 2 messages each of 2 or 3 items, pipe of 3 | type; refinement `ImplementsMessageQueue`; `SentIsDelivered` | items of several senders amount to a queue of whole messages, no wake-up is lost |
| `packets` | 2 units, 3 packets, 2 started at a time, a reset anywhere | `DummyQueuedOnce`, `RepliedOnce`; `SentIsReplied` | one dummy message per unit, one reply per packet, and all the ways a reply is lost |
| `half` | 1 sender, a reset anywhere | `MessagesAreWhole` | violated: section 5 |
| `traps` | 2 tasks, 2 contexts | type; `OneInControl`, `CurrentIsInnermost`, `ReturnsToItsCaller`, `InterruptibleMeansUnlocked`; action property `ResumesAsItTrapped`; `TrapsEnd`; no deadlock | control is handed over correctly, with nesting and task switches |
| `hwtraps` | 2 tasks, 2 slots, 3 traps with a command each, a reset anywhere | type; `AckedOnce`, `SlotServesItsTask`; `ResetEnds`, `TrapsEnd` | each trap ends by its own ack, commands do not mix, the reset comes to an end |
| `hwacks` | the same | `WorkerAcksItsTraps` | violated: section 5 |
| `devices` | 2 requests, 2 sendings, pipe of 2, an AbortIO, a close, a reopen, a reset | type; `RepliedOnce`, `NoUseAfterFree`, `ResetWaitsForThread`, `ReopenLosesOnlyQuit`, `NoEmbrace`; `AnswerableIsReplied` | one reply per sending, no use of freed copies, no mutual wait, with the exact exceptions |
| `cputhread` | 2 starts, 2 accesses, 1 interrupt, 1 RESET, semaphores up to 2 | type; `CleanAccess`; `WaitsEnd`, `InterruptIsTaken` | a clean access gets its own answer, nobody waits for ever, interrupts wake the CPU |
| `cpu_answer` | 1 start, 2 accesses | `OwnAnswer` | violated: section 5 |
| `events` | 5 slots, 5 events, two per handler | `PreviousFirst` | violated: section 5 |
| `events_full` | 3 slots, 5 events, two per handler, removal, moving, clearing | type; `NoneMissed`, `OnTime`, `FirstByOwnLink` | none is left behind, however the table is disturbed; times and order are kept but for links that are another event's |

Only `traps` checks for deadlock: it has no final state. The other systems stop
when their bounds (items, messages, packets, traps, accesses, events) are used
up, or where the code stops for good; the liveness properties say that nothing
else stops.

**Why the bounds are enough.** The pipe goes around its ring nearly twice, is
full and empty at every position of the ring, and its reader sleeps through one
item; its safety and its refinement are proved for every size (section 4). Two
senders with messages of different lengths and a pipe shorter than two messages
produce every mixture of items, also across a full pipe; the refinement is proved
for any number of senders. Two packets of one unit are what the counters' races
need (one acked, one finishing), the third packet belongs to the other unit, so
that the helper's static scan position matters, and a limit of two started
packets is met through a third that comes back after the reset. Two tasks with
two contexts give a trap in each, or a trap inside the function that another trap
called; the proofs are for any number. Three hardware traps on two slots reuse a
slot while the other is in use, and a slot's number and its thread's number
differ from the second trap on, which is what the kill flags' confusion needs; a
worker with two traps in its pipe has to keep them apart. Two requests are one
in the list ahead of another, a second sending of a request meets the first one's
remains, and a pipe of two messages is full. Two starts of the CPU thread meet
what the first left behind, two accesses what the previous access left; a
semaphore above 2 holds no more than "more posts than waits", which 2 says.
Three slots for five events overflow, also from inside a handler that an overflow
runs, hold a chained pair, a third event at the same time and an event that a
handler schedules into its own slot, and are reused soon enough for every kind of
link in `LinkOf`; `events` has five slots, so that its counterexample needs neither
a removal nor a full table.

The largest runs (`events_full`, 4.9 million states; `devices`, 1.2 million;
`cputhread`, 0.6 million; `packets`, 0.5 million) take one to three minutes.

**Fairness.** Weak fairness of a host thread's own steps (`WriterStep`,
`ReaderStep`, `SenderStep`, `ThreadStep`, `ContextStep`, `SerialStep`, `DevStep`,
`CpuStep`): the host schedules threads that can run. Weak fairness of
`InterruptServer`, `ExterStep`, `HandlerStep`, `ResetEnd` and `EmuStep`: the
emulator thread never stops, the interrupt server runs at the end of an
instruction while its bit is set, and exec runs tasks that are ready. No sender
has to begin a message, no packet or request has to be sent, and a read need
never be answered from the other end of the line. A semaphore's waiters are not
assumed to be served in turn.
In `ExtendedTrap`, strong fairness of `Switch(t)`, of the return of a called
function and of its return trap for each task: exec's scheduler is preemptive
and serves tasks of equal priority in turn, so a task that may run again and
again does run, and a 68k function that runs returns. Strong fairness of
`HandlerEnds`: a handler makes finitely many calls and then ends.
In `HardwareTraps`, the steps of each polling task, each trap thread, the worker
and the reset; what a handler decides (a command, handing over) is bounded or
ends the handler. In `ThreadedCpu`, the tests of the emulator's loop one by one,
since each pass comes to each of them, `PassInterrupt` strongly: the chips may
set and clear the flag in between.
Resets are never assumed to happen. Liveness across a reset is claimed where the
code keeps it: `ResetEnds` and `TrapsEnd` (but for the traps the reset cut off),
`SentIsReplied` (but for the packets it took).

Every property of a passing run has a mutant in `PROJECT.json`: a variant of a
mapped definition (defined next to it, named `<definition>_<change>`) that
breaks the property.

## 4. The proofs

`CommPipe_proofs`, `ExterServer_proofs`, `MessageQueue_proofs`,
`ExtendedTrap_proofs`, `HardwareTraps_proofs`, `ThreadedCpu_proofs`,
`DeviceRequests_proofs` and `EventTable_proofs` are checked by TLAPS to the last
leaf, for every value of the constants that the assumptions named below admit.

**CommPipe**, from `PipeAssumption` alone (`1 <= Chunks < Size`). The invariant
`IInv` has, besides the type and the order of reads:

* `LockInv`: the lock is 0 exactly while one side is in a locked section;
* `ReaderTokenInv`, `WriterTokenInv`: a sleeping side has exactly one wake-up
  token: its flag, a post under way, or a post made; an awake side has none.
  This is why nobody needs to test again after waking up;
* `FastInv`: the fast path runs only against a reader that has its flag set, and
  such a reader sleeps through fewer than `Chunks` items, so the fast path has
  room because `Chunks < Size`;
* `RoomInv`, `ItemInv`: a writer with a token has room, a reader with a token
  has an item;
* `PolledInv`: a read after a successful poll does not reach its wait;
* `RingInv`: the ring holds the items between those read and those written.

From it: `TypeCorrect`, `ReadsInOrderAlways`, `WakesWithWorkAlways`,
`NeverOverrunsAlways`, `NeverTakesFromEmptyAlways`, `PolledReadNeverSleepsAlways`,
`NeverBothAsleepAlways`, and `PipeImplementsFifo`, the refinement of
`BoundedFifo` by `Contents`, the items from `rdp` to `wrp`.

`NobodySleepsOnWorkAlways` needs one more fact, `FlushInv`: with the reader's flag
up, the last flushed item is read or the writer that stored it is about to look at
the flag. So a reader that sleeps with no wake-up under way leaves fewer than
`Chunks` items in the ring and none of them flushed, and a writer that sleeps has a
reader that is awake and has yet to see its flag.

**ExterServer**, from `ExterAssumption`, for any senders, units and packets and
with any number of resets. `IInv` has the types, by the part of the state that
changes together, and:

* `HolderInv`: the senders inside `n2asem` and the semaphore's value add up to
  `Installs`, with the senders that a reset forgot counted as inside;
* `DummyInv`: a unit's dummy message is with exter_task or on the handler's port
  only while the acked count is ahead of the complete count. The helper sends it
  only while the two are equal, so this is what makes it single; `ResetEnd`
  keeps it because the reset empties the ports and equals the counts together;
* `PortInv`, `ListInv`, `StartedInv`: a packet is in one place, first on its
  unit's port, then in the handler's list until its reply, and is in the unit's
  pipe or with its thread only once it is started.

From it: `TypeCorrect`, `DummyQueuedOnceAlways`, `RepliedOnceAlways`.

`SentIsReplied` and `SentIsDelivered` are liveness properties. What they rest on
are two invariants that say that a wake-up is never lost, and those are proved.
`ServedInv` has, for packets:

* `UnitInv`, `PlaceInv`: a packet is somewhere in its own unit: on the port when
  sent, in the list when taken, in the pipe or with the thread when started, in
  the list or replied to when finished;
* `CountInv`: an acked count is ahead of the complete count only while the dummy
  message is on its way, and a packet that is counted but not marked is still to
  be acked, unless its unit is in `early`;
* `FinishedInv`: a unit with a finished packet in its list is going to look at it
  (`Looks`): its handler scans, its dummy message comes, or the helper is called
  or has not come to the unit and will find that its counts differ.

`NothingForgottenAlways` puts them together, across resets. `HeardInv` has, for
messages, that `singlethread_int_sem` is taken exactly while exter_task is between
two calls, unless a reset cut it off there (`HelperEnters`: "pretend it isn't for
us" is never needed otherwise), and `Heard`: until the first reset, an item in
the pipe has an interrupt raised for it, exter_task awake, or its sender still in
that message (`HeardAlways`).

**MessageQueue**, for any number of senders and messages and any pipe, after one
installation (`Installs = 1`): until the first reset no message is broken
(`WholeUntilReset`), and a behaviour without a reset implements the queue of
whole messages (`QueueUntilReset`); with `MaxResets = 0` that is every behaviour
(`PipeImplementsMessageQueue`). Both conditions are needed: section 5 has what
happens without them. `QInv`, which holds until the first reset
(`QueueInvariant`), adds to `IInv`:

* `ChainInv`: the item the helper read last and the items in the pipe form a
  chain (`Follows`), each one the next item of the same message or the first of
  the next message, and whoever writes (`Ends`) continues its end. `HolderInv`
  gives that only one sender writes;
* `CompleteInv`: a message's last item in the pipe bears the number at which the
  message is in `log`;
* `ArgsInv`: between two reads, the helper knows the length of the message whose
  next item it waits for.

Writing the last item of a message is `Send`, reading it is `Take`; every other
step leaves the queue as it is.

**ExtendedTrap**, from `TrapAssumption` (there is a task, and `None` is not a
context). `IInv` has the type and:

* `LevelsInv`: every trap a task is in saved the registers of the level below,
  and the task's stack holds the pointers of the traps whose functions run;
* `DistinctInv`, `FreeInv`: a context belongs to one trap of one task, or its
  semaphores are 0 and it is free;
* `RunInv`: while the 68k runs, the mutex and the mask are as its program counter
  says: code and return traps run unlocked and interruptible, the way to a call
  or exit trap locked, masked, and with `current_context` the innermost trap;
* `WaitInv`: while the emulator thread waits, exactly the innermost trap's thread
  can go on, from a place where it has what it needs.

From it the six theorems `TypeCorrect`, `OneInControlAlways`,
`CurrentIsInnermostAlways`, `ReturnsToItsCallerAlways`,
`InterruptibleMeansUnlockedAlways` and `ResumesAsItTrappedAlways`.

`NobodyWaitsInVainAlways` follows from it too, and is the safety part of
`TrapsEnd`: the emulator waits only for a thread that has what it needs for its
next step, or has posted already; the return trap finds `trap_mutex` free and the
exit trap a thread that has ended; and every other trap in use has its called
function under way on some task's stack, or the 68k on its way to its call or exit
trap. So nobody waits for a post that no one is going to make.

**HardwareTraps**, from `TrapsAssumption`, for any tasks, slots, traps, commands
and resets. `AckedOnce` says nothing of who else may have the trap, so `IInv` has,
besides the types and the order in which the traps' contexts are taken:

* `OnceInv`: a trap is with one trap thread, in its pipe or its handler, and,
  when it was handed over, once with the worker. This is what a reset does not
  change: it throws pipes away, but copies nothing;
* `ThreadInv`: until its trap thread is through with a trap, the trap is not
  acked, freed or done, and the worker does not have it before the handler's end;
* `WorkerInv`: a trap with the worker was handed over, is not acked unless it is
  in `raced`, and its `trap_background` is 1 until the worker completes it. So
  the thread finds 0 in a trap that was handed over only if the worker was faster.

From it: `TypeCorrect`, `AckedOnceAlways`. `SlotServesItsTask` relates bytes that
a task, a trap thread, a worker and the reset share without a lock. What holds
them together is who is left of a slot's former use, so `SlotInv` follows every
trap that a host still has (`Live`: in a pipe or with a handler):

* `TaskInv`: a polling task has a locked slot to itself, its context has that
  slot, and the ack it finds there is its own trap's;
* `LiveInv`: a task waits for every live trap while the machine runs, and live
  traps have different slots even in a reset, when no task is left. A live trap is
  not acked, so no task resumes, and frees its slot, before the hosts are through;
* `CommandInv`: a command that waits in a slot is that of the one host that asks
  there, unless a reset cut it off, and the task there polls for that host's trap;
* `DrainInv`: the threads a reset has gone through stay idle, since only traps
  and handlers fill pipes, and the worker's quit message is the last of its pipe.
  Therefore the new machine starts with no live trap, and `LiveInv` holds again
  with no task waiting.

The first three are claimed while `raced` is empty, `DrainInv` always. From it:
`SlotServesItsTaskAlways`.

`TrapsEnd` and `ResetEnds` are liveness and stay with TLC. What a proof can say of
them is that nobody waits for what nobody is left to do, `NobodyWaitsInVain`: a
task that polls has its ack, or a host has its trap; a handler that polls for its
command while the machine runs has it done, or the task of its own trap there
which can execute it, and its slot is not marked for killing; the worker that
spins on `trap_done` has it set, or the thread that sets it next is at its last
step; and the thread, or the worker, that a reset waits for has the `NULL` still
to read or has read it. `WakeInv` adds to the above:

* `NullInv`, `KillInv`, `SentInv`: the reset's `NULL` is in the pipe of the one
  thread it waits for, until that thread reads it, and only that thread's slot is
  killed. So what a `NULL` throws away is nobody's, as no task waits in a reset;
* `GivenInv`: a trap in the background is with the worker, and one whose thread
  has not told the worker yet is at that thread's last step;
* `TakenInv`, `AnswerInv`, `AskedInv`: a command taken is being executed, a task
  is answered or its trap is live, and a command stands in its slot until its
  handler has seen it done: the `second = 0` of a thread that begins a trap never
  hits another's slot.

From it: `NobodyWaitsInVainAlways`. In a reset, a handler whose slot is not marked
may wait in vain; that is `Orphaned`.

**ThreadedCpu**, from `CpuAssumption`. `CleanInv` follows an access that begins
with nothing left over: it is in one of six states (`Asking` ... `Returning`), and
in each there is one of the post of the request, the emulator thread that took it
and the post of the answer; while the emulator thread ends its run, the access may
be anywhere. From it: `TypeCorrect`, which includes that `cpu_thread_active` is set
exactly while the CPU thread runs, and `CleanAccessAlways`.

`WaitInv` says the same of the waits, left-over posts included:

* `BothInv`: there is no CPU thread without the emulator thread in
  `run_cpu_thread`, and a CPU thread that has ended was told to;
* `RequestInv`: from the request to the answer the mode stands, and the post of
  the request, the emulator thread that took it for one, the post of the answer or
  the end is there; a post that was left over may stand for any of them;
* `InterruptInv`: an interrupt still has `DOINT` or was passed on, and the level
  that was passed on to a CPU asleep in `STOP` woke it.

From it: `NobodyWaitsInVainAlways`, the safety part of `WaitsEnd` and
`InterruptIsTaken`: no wait of one thread, for an answer, the end of a `RESET`, an
interrupt or the end of the other, is one that nobody is left to end. The wait of
the start is not in it: it can be missed (`MissedStart`).

**DeviceRequests**, from `DeviceAssumption` (finitely many requests, a pipe with a
place). `UnitInv` has what holds whatever the requests are:

* `PlaceInv`, `SemInv`: who is where, and that `async_sem` is taken exactly while
  the serial thread pipes a completion;
* `SyncInv`, `FirstOpenInv`: the posts of `sync_sem` made and still due are at
  most two for each opening, and before the first close exactly one per wait, so
  the reset's wait takes the post of dev_thread's end;
* `DevInv`: between dev_thread's look at the list and its change of it nobody adds
  or removes; the serial thread and the aborts only mark entries;
* `HandInv`: `Quit` is written only after the serial thread has ended.

From it: `TypeCorrect`, `ResetWaitsForThreadAlways`. `RequestInv` adds to it,
for every request that is not in `again`: a message about it is with
one thread or once in the pipe (`OnceInv`) and is about the sending that waits for
its reply (`MessageInv`); an entry that is not marked ready has no message about
it, which is why marking it under `async_sem` makes the completion single, and an
entry between reply and removal is marked (`EntryInv`); freed copies are of
sendings replied to (`FreedInv`). From it: `RepliedOnceAlways`,
`NoUseAfterFreeAlways`, and by counting the messages in a full pipe
`NoEmbraceAlways`.

`AnswerableIsReplied` is liveness. Its safety part is that no request is forgotten,
for which `KeptInv` adds:

* `RunInv`: the threads of an open unit run, `Quit` is in the pipe only after the
  close, nothing is outstanding in a closed unit, and a taken `pipe_sem` is
  somebody's;
* `HandshakeInv`: the opening's wait and the reset's wait for `dev_thread` have the
  post of `sync_sem`, or the start or the `Quit` that leads to it;
* `HomeInv`, `FoundInv`: the sending that waits for its reply is with a thread, in
  the pipe, or an entry that is neither completed nor found by an abort. The second
  is what makes the first inductive: when `dev_thread` adds an entry, no abort can
  have found the request before, as it was not in the list.

From it: `NobodyForgottenAlways`. It is claimed outside of the exceptions of
section 5 (`again`, `Flooded`).

All of these hold for any number of openings up to one that finds `dev_thread`
still there (`shared`), since the model does not follow two threads on one pipe.
What can be said of that opening is `ReopenLosesOnlyQuitAlways`. Besides `RunInv` it
needs `FloodInv`: a `CMD_RESET` that has requests to abort never gets past its loop,
its own request is outstanding, and so no close comes after it; therefore
`dev_thread` works on nothing once the unit is closed.

**EventTable**, from `EventAssumption` (finitely many delays of at least
one unit). The timer is off while `MISC_handler` runs, so `NoneMissed` needs
to say who else knows of an event meanwhile:

* `StackInv`: at most one `MISC_handler` is on the C stack, and it is the
  innermost call while it scans; the times that interrupted searches go on with
  are ahead;
* `TimesInv`: an event's time is not past, and at most the longest delay and the
  unit of a chained event ahead;
* `TimerInv`: while `MISC_handler` does not run, every event is ahead and the
  timer rings for the first one; while it runs the timer is off;
* `MiscInv`: of the slots behind its position, no event is due, and each one's
  time is counted in `mintime`, unless `recheck`, or `dorecheck` while a handler
  runs, makes it look at all of them again.

An event scheduled by a handler behind the scan sets `dorecheck`; an event put
into the scanned slot itself is seen as active; and `mintime` below `EVT_MAX`
follows from `TimesInv`. From it: `TypeCorrect`, which includes that
`MISC_handler` is never entered twice, and `NoneMissedAlways`.

`OrderInv` says how far times and order are kept. It adds:

* `IdInv`: two slots never have the same event, the last id is in `last_event2`,
  and an event is put behind an older one only;
* `AskedInv`: chaining moves a waiting event by at most one unit from the time it
  was asked for;
* `LinkInv`: while the event that another one was put behind still waits, its
  `next` leads to the other one, whose time is a unit later;
* `FirstInv`: the slot of the due event is free and keeps that event's time, which
  is now, until another event takes the slot;
* `RanInv`: the two properties.

From it, without a condition on handlers, removals or delays: `OnTimeAlways` and
`FirstByOwnLinkAlways`. `OnTime` covers old links too: the test
`e2->evtime == e->evtime + 1` compares with the time of the due event, so whatever
a stray link leads to is due within a unit. It does not cover `reused`, where
`e->evtime` is a later event's time. `FirstByOwnLink` covers every way to run an
event but an old or foreign link, for which it fails (section 5).

**Model-checked only**: the liveness properties `FlushedIsRead`, `WriteReturns`,
`SentIsDelivered`, `SentIsReplied`, `TrapsEnd`, `ResetEnds`, `AnswerableIsReplied`,
`WaitsEnd` and `InterruptIsTaken`, because the prover does not handle fairness
(each has its safety part proved, that nobody waits for what no one is going to
do: `NobodySleepsOnWorkAlways` for the first two, `HeardAlways` and
`NothingForgottenAlways` for the next two, the three `NobodyWaitsInVainAlways` for
both `TrapsEnd`, `ResetEnds`, `WaitsEnd` and `InterruptIsTaken`, and
`NobodyForgottenAlways` for `AnswerableIsReplied`; that those who can step do, and
that finitely many steps are enough, is what the runs show).

## 5. What the code does that its comments do not say

Four are runs that TLC finds violated, with the comment quoted in
`PROJECT.json`.

* `half`: `native2amiga_reset` empties the pipe while a host thread is between
  two items of a message; the helper takes the rest for a command.
* `hwacks`: `hardware_trap_thread` tests `trap_background` after the handler
  returned, while the worker that the handler gave the trap to may already have
  decremented it. The thread then acks a trap that was handed over and frees its
  context, while the worker still waits in it, and acks again. `AckedOnce`,
  `SlotServesItsTask` and `TrapsEnd` hold where this has not happened (`raced`).
* `cpu_answer`: `init_cpu_thread` creates `cpu_in_sema` and `run_cpu_thread`
  initialises it again, which posts it (`uae_sem_init`, `threaddep/threading.cpp`
  54-57). The first access does not wait for its answer. The posts left over
  answer later accesses early, until the emulator thread finds a request it has
  already served ("log" in the model) and the count is right again.

* `events`: `MISC_handler` reads `e->next` after the handler of `e` has returned.
  By then the handler may have put a new event into slot `e` and linked another one
  to it, as one that schedules two events for one time does (`audio.cpp` 1544 and
  1591 schedule two from one handler): the second is executed at once, before the
  first and ahead of its time. And a link may be old: a removal, a moved event or a
  full table leaves links to a slot behind, and the slot's next event is then
  executed before the one it was put behind, if it is due within a unit.
  `OnTime` (but for the first case) and `FirstByOwnLink` (but for both) say what
  is left.

The others are exceptions named inside properties of passing runs, so that each
property says exactly when it holds.

* Packets (`SentIsReplied`). `early`: `cmds_sent++` comes before the mark in the
  message; the helper's scan in between uses up the wake-up, and the packet waits
  until another packet of the unit finishes. `"unstarted"`: a packet beyond the
  limit of started packets is queued as unstarted, and no code starts it later.
  `resets.cut`: a reset between two of exter_task's helper calls leaves
  `singlethread_int_sem` at 0, and the helper is "not for us" from then on.
* Device requests. `again`: an `AbortIO` that looks a request up between its
  completion and its removal from the list pipes it a second time. `missed`: an
  `AbortIO` before the device's thread listed the request finds nothing.
  `Flooded`: `CMD_RESET` pipes one abort per listed request into its own
  thread's pipe, which nobody reads meanwhile. `Embraced`: `uaeser_signal` holds
  `async_sem` while it writes to a full pipe; the device's thread needs
  `async_sem` before it reads on. The program's pipe is full at 33 messages, so
  more requests than that have to be outstanding. `closes`: a close leaves a post
  of `sync_sem` behind, and the reset's wait returns at once. `shared`: a reopen
  that finds `dev_thread` still there wipes the `Quit` it has not read, so that the
  thread does not end, and its opening's `dev_thread` reads the same pipe. No
  request is lost at that moment (`ReopenLosesOnlyQuit`), but two threads on a pipe
  made for one reader may take each other's items.
  `NoUseAfterFree`, `RepliedOnce`, `AnswerableIsReplied`, `NoEmbrace` and
  `ResetWaitsForThread` hold with these exceptions, and up to `shared`.
* Hardware traps. `Orphaned` (`ResetEnds`): the kill flags are set by the number
  of a thread and tested by the number of a slot, so a handler waiting for the
  68k is not always told to stop. `abandoned` (`SlotServesItsTask`): a command
  cut off by a reset leaves 0xfe in its slot for the new machine's first trap
  there. Contexts drained from a pipe at the end of a thread are not freed.
* Threaded CPU. `MissedStart` (`WaitsEnd`): a CPU thread that ends within the
  millisecond before `run_cpu_thread` first looks at `cpu_thread_active` is waited
  for without end.

Two come out of the same modules with other constants, without a run here. With
`Installs = 2` in `messages`, which a restart in the same process gives
(`uae_sem_init` posts `n2asem`), `ImplementsMessageQueue` fails: two senders mix
their items. With `MaxResets = 1` it fails as `half` shows.

## 6. What is not modelled, and why

`PROJECT.json` lists every part with its reason. In short: CPU interpreters, the
JIT and the custom chips are cycle-level hardware whose state is far beyond
explicit-state checking and whose reference is the real machine, and with the
generated `cpuemu_*.cpp` they are most of the repository's lines; disk and
archive formats, configuration, user interface and debugger are sequential and
data-bound; bsdsocket, uaenative and sound depend on the host's libraries.
`external/` is third-party code.

Inside the modelled components:

* filesystem: the AmigaDOS commands, record locks that wait (`handle_packet`
  returns -1, so that `filesys_iteration` counts the packet and does not mark it)
  and `back_pipe`;
* messages: the 68k as a sender, which may sleep on the pipe it alone empties;
* extended traps: resets during a trap; simple traps are function calls;
* hardware traps: `trap_callback`, a host thread that begins a trap of its own;
  `free_traps`; `hardware_trap_event`;
* uaeserial.device: two units of one device, which share the semaphores;
  exclusive opens, parameters and data; what comes after the reset's memset; two
  `dev_thread`s on one pipe;
* threaded CPU: instructions, the debugger and traces;
* events: the other timers of `eventtab` and what handlers do, which are free
  choices here;
* pipes: their destruction; memory weaker than sequentially consistent.

Four smaller hazards of the modelled code have no property and are not in the
list of `PROJECT.json`: `trap_in_use2` only logs a slot that is taken twice
(`traps.cpp` 735); `cpu_thread_ilvl` keeps the level of an interrupt request
that the program has cleared since (`newcpu.cpp` 3357); `dev_reset` reads
`dev->ar` twice, and the device's thread may release that request in between
(`uaeserial.cpp` 750); a third event at one time is compared with the second,
whose time is by then a unit later, and so is put behind nothing (`events.cpp`
437).

## 7. Plan

Done: `CommPipe` with `BoundedFifo` and `ExtendedTrap` (models, proofs, the
refinement proved); `ExterServer` with `MessageQueue` (model with resets, proofs,
the refinement proved until the first reset); `HardwareTraps`, `ThreadedCpu`,
`DeviceRequests` and `EventTable` (models, proofs).

Left, most important first:

1. Resets in `ExtendedTrap` (`init_extended_traps` with a trap on its way to its
   call trap), and the 68k as a sender in `ExterServer`.
2. `KeyBuffer` (`keybuf.cpp`, `consolehook.cpp`): a ring with two writers, and
   `keybuf_init` under the reader. Abstract specification: a lossy FIFO.
3. The record locks of `filesys_iteration`, and `trap_callback`.
4. Composition: `ExterServer` over the reset protocol of the pipe itself, so that
   the reset of a live pipe is shown with `CommPipe`'s own steps.
