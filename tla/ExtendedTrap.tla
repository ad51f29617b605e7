---------------------------- MODULE ExtendedTrap ----------------------------
(***************************************************************************)
(* Extended traps (traps.cpp): a trap handler that may call 68k code runs  *)
(* on a thread of its own.  Control goes to and fro between the emulator   *)
(* thread, which runs the 68k, and the threads of the trap contexts, over  *)
(* two semaphores per context; trap_mutex is taken by one thread and given *)
(* back by another, over a detour through a "call" or an "exit" trap that  *)
(* the 68k has to run into first.                                          *)
(*                                                                         *)
(* Several 68k tasks use traps at once, because a task switch may happen   *)
(* whenever the interrupt mask is down, and a 68k function called by a     *)
(* handler may trap again.  What a 68k task has in hand is its registers   *)
(* (pc, the context pointers under a7), kept by exec across a switch.      *)
(***************************************************************************)
EXTENDS Integers, Sequences

CONSTANTS
  Tasks,      \* 68k tasks
  Contexts    \* bound: trap contexts alive at a time

None == "none"

ASSUME TrapAssumption == Tasks # {} /\ None \notin Contexts

VARIABLES
  trap_mutex,
  current_context,
  ctx,        \* the contexts: where the thread is, its two semaphores, saved_regs
  emu,        \* the emulator thread: running 68k code, or in a handler, waiting
  task,       \* the 68k task that runs
  intmask,    \* regs.intmask
  regs,       \* per task: what pc points to, and how many contexts are on its stack
  stack,      \* per task: the contexts pushed by m68k_call_handler
  calls       \* per task: the traps it is in, outermost first (history)

vars == <<trap_mutex, current_context, ctx, emu, task, intmask, regs, stack, calls>>
m68k == <<task, intmask, regs, stack, calls>>

(* The registers of 68k code that has no handler's function under it. *)
Outermost == [regs |-> [pc |-> "code", sp |-> 0], intmask |-> 0]

Free == [at |-> "free", to_trap |-> 0, to_emu |-> 0, saved |-> Outermost]

(* The trap the running task is in. *)
Innermost == calls[task][Len(calls[task])]

Running == emu.at = "run"
(* Task t runs the 68k function that context c called. *)
FunctionOf(t, c) == task = t /\ calls[t] # <<>> /\ Innermost = c

RunsCode == Running /\ regs[task].pc = "code"

-----------------------------------------------------------------------------
(* The 68k. *)

(* An interrupt and exec's scheduler: needs the interrupt mask down. *)
Switch(t) ==
  /\ Running /\ intmask = 0
  /\ task' = t
  /\ UNCHANGED <<trap_mutex, current_context, ctx, emu, intmask, regs, stack, calls>>

(* trap_HandleExtendedTrap: save the registers, start the thread, wait.    *)
Trap(c) ==
  /\ RunsCode
  /\ ctx[c].at = "free"
  /\ ctx' = [ctx EXCEPT ![c] = [at |-> "start", to_trap |-> 1, to_emu |-> 0,
                                saved |-> [regs |-> regs[task], intmask |-> intmask]]]
  /\ emu' = [at |-> "wait", ctx |-> c]
  /\ calls' = [calls EXCEPT ![task] = Append(@, c)]
  /\ UNCHANGED <<trap_mutex, current_context, task, intmask, regs, stack>>

(* uae_sem_wait(&context->switch_to_emu_sem) returns. *)
EmuResumes ==
  /\ emu.at = "wait"
  /\ ctx[emu.ctx].to_emu > 0
  /\ ctx' = [ctx EXCEPT ![emu.ctx].to_emu = @ - 1]
  /\ emu' = [at |-> "run", ctx |-> None]
  /\ UNCHANGED <<trap_mutex, current_context, m68k>>

(* m68k_call_handler: push the context and run the function. *)
CallTrap ==
  /\ Running /\ regs[task].pc = "call"
  /\ LET sp == regs[task].sp + 1 IN
     /\ stack' = [stack EXCEPT ![task] = Append(SubSeq(@, 1, regs[task].sp), current_context)]
     /\ regs' = [regs EXCEPT ![task] = [pc |-> "code", sp |-> sp]]
  /\ intmask' = ctx[current_context].saved.intmask
  /\ trap_mutex' = trap_mutex + 1
  /\ UNCHANGED <<current_context, ctx, emu, task, calls>>

(* The function ends: RTS to the return trap. *)
FunctionReturns ==
  /\ RunsCode
  /\ regs[task].sp > 0
  /\ regs' = [regs EXCEPT ![task].pc = "return"]
  /\ UNCHANGED <<trap_mutex, current_context, ctx, emu, task, intmask, stack, calls>>

(* m68k_return_handler: it waits for the mutex ... *)
ReturnTrap ==
  /\ Running /\ regs[task].pc = "return"
  /\ emu' = [at |-> "return_lock", ctx |-> None]
  /\ UNCHANGED <<trap_mutex, current_context, ctx, m68k>>

(* ... pops the context and hands control to it. *)
ReturnTo_Current(c) == c = current_context
ReturnTo(c) == c = stack[task][regs[task].sp]

ReturnLocked_NoWait ==
  /\ emu.at = "return_lock"
  /\ trap_mutex > 0
  /\ trap_mutex' = trap_mutex - 1
  /\ \E c \in Contexts :
       /\ ReturnTo(c)
       /\ ctx' = [ctx EXCEPT ![c].to_trap = @ + 1]
       /\ emu' = [at |-> "run", ctx |-> None]
  /\ regs' = [regs EXCEPT ![task].sp = @ - 1]
  /\ UNCHANGED <<current_context, task, intmask, stack, calls>>
ReturnLocked ==
  /\ emu.at = "return_lock"
  /\ trap_mutex > 0
  /\ trap_mutex' = trap_mutex - 1
  /\ \E c \in Contexts :
       /\ ReturnTo(c)
       /\ ctx' = [ctx EXCEPT ![c].to_trap = @ + 1]
       /\ emu' = [at |-> "wait", ctx |-> c]
  /\ regs' = [regs EXCEPT ![task].sp = @ - 1]
  /\ UNCHANGED <<current_context, task, intmask, stack, calls>>

(* exit_trap_handler: wait for the thread's end, restore the registers,    *)
(* free the context, end the critical section.                             *)
ExitTrap_KeepsRegs ==
  /\ Running /\ regs[task].pc = "exit"
  /\ ctx[current_context].at = "gone"
  /\ ctx' = [ctx EXCEPT ![current_context] = Free]
  /\ trap_mutex' = trap_mutex + 1
  /\ calls' = [calls EXCEPT ![task] = SubSeq(@, 1, Len(@) - 1)]
  /\ UNCHANGED <<current_context, emu, task, intmask, regs, stack>>
ExitTrap_Leaks ==
  /\ Running /\ regs[task].pc = "exit"
  /\ ctx[current_context].at = "gone"
  /\ regs' = [regs EXCEPT ![task] = ctx[current_context].saved.regs]
  /\ intmask' = ctx[current_context].saved.intmask
  /\ trap_mutex' = trap_mutex + 1
  /\ calls' = [calls EXCEPT ![task] = SubSeq(@, 1, Len(@) - 1)]
  /\ UNCHANGED <<current_context, ctx, emu, task, stack>>
ExitTrap ==
  /\ Running /\ regs[task].pc = "exit"
  /\ ctx[current_context].at = "gone"
  /\ regs' = [regs EXCEPT ![task] = ctx[current_context].saved.regs]
  /\ intmask' = ctx[current_context].saved.intmask
  /\ ctx' = [ctx EXCEPT ![current_context] = Free]
  /\ trap_mutex' = trap_mutex + 1
  /\ calls' = [calls EXCEPT ![task] = SubSeq(@, 1, Len(@) - 1)]
  /\ UNCHANGED <<current_context, emu, task, stack>>

EmuStep == EmuResumes \/ CallTrap \/ ReturnTrap \/ ReturnLocked \/ ExitTrap

-----------------------------------------------------------------------------
(* The thread of context c: trap_thread and trap_Call68k. *)

Goto(c, from, to) == ctx[c].at = from /\ ctx' = [ctx EXCEPT ![c].at = to]

WaitToTrap(c, from, to) ==
  /\ ctx[c].at = from
  /\ ctx[c].to_trap > 0
  /\ ctx' = [ctx EXCEPT ![c].at = to, ![c].to_trap = @ - 1]
  /\ UNCHANGED <<trap_mutex, current_context, emu, m68k>>

PostToEmu(c, from, to) ==
  /\ ctx[c].at = from
  /\ ctx' = [ctx EXCEPT ![c].at = to, ![c].to_emu = @ + 1]
  /\ UNCHANGED <<trap_mutex, current_context, emu, m68k>>

Lock_NoWait(c, from, to) == Goto(c, from, to) /\ UNCHANGED <<trap_mutex, current_context, emu, m68k>>
Lock(c, from, to) ==
  /\ Goto(c, from, to)
  /\ trap_mutex > 0
  /\ trap_mutex' = trap_mutex - 1
  /\ UNCHANGED <<current_context, emu, m68k>>

(* The handler calls a 68k function, or returns. *)
HandlerCalls(c) == Goto(c, "run", "call_lock") /\ UNCHANGED <<trap_mutex, current_context, emu, m68k>>
HandlerEnds(c)  == Goto(c, "run", "exit_lock") /\ UNCHANGED <<trap_mutex, current_context, emu, m68k>>

(* "Don't allow an interrupt and thus potentially another trap to be       *)
(* invoked while we hold the above mutex.  This is probably just being     *)
(* paranoid."  (CallSet_KeepsMask shows that it is not.)                   *)
CallSet_KeepsMask(c) ==
  /\ Goto(c, "call_set", "call_post")
  /\ current_context' = c
  /\ regs' = [regs EXCEPT ![task].pc = "call"]
  /\ UNCHANGED <<trap_mutex, emu, task, intmask, stack, calls>>
CallSet(c) ==
  /\ Goto(c, "call_set", "call_post")
  /\ current_context' = c
  /\ intmask' = 7
  /\ regs' = [regs EXCEPT ![task].pc = "call"]
  /\ UNCHANGED <<trap_mutex, emu, task, stack, calls>>

CallUnlock(c) ==
  /\ Goto(c, "call_unlock", "run")
  /\ trap_mutex' = trap_mutex + 1
  /\ UNCHANGED <<current_context, emu, m68k>>

ExitSet_KeepsContext(c) ==
  /\ Goto(c, "exit_set", "exit_post")
  /\ intmask' = 7
  /\ regs' = [regs EXCEPT ![task] = [ctx[c].saved.regs EXCEPT !.pc = "exit"]]
  /\ UNCHANGED <<trap_mutex, current_context, emu, task, stack, calls>>
ExitSet(c) ==
  /\ Goto(c, "exit_set", "exit_post")
  /\ current_context' = c
  /\ intmask' = 7
  /\ regs' = [regs EXCEPT ![task] = [ctx[c].saved.regs EXCEPT !.pc = "exit"]]
  /\ UNCHANGED <<trap_mutex, emu, task, stack, calls>>

Start(c)    == WaitToTrap(c, "start", "run")
CallLock(c) == Lock(c, "call_lock", "call_set")
CallPost(c) == PostToEmu(c, "call_post", "call_wait")
CallWait(c) == WaitToTrap(c, "call_wait", "call_unlock")
ExitLock(c) == Lock(c, "exit_lock", "exit_set")
ExitPost(c) == PostToEmu(c, "exit_post", "gone")

ContextStep(c) ==
  \/ Start(c) \/ HandlerCalls(c) \/ HandlerEnds(c)
  \/ CallLock(c) \/ CallSet(c) \/ CallPost(c) \/ CallWait(c) \/ CallUnlock(c)
  \/ ExitLock(c) \/ ExitSet(c) \/ ExitPost(c)

-----------------------------------------------------------------------------
(* init_traps, and 68k tasks that have not trapped yet. *)
Init ==
  /\ trap_mutex = 1 /\ current_context = None
  /\ ctx = [c \in Contexts |-> Free]
  /\ emu = [at |-> "run", ctx |-> None]
  /\ task \in Tasks /\ intmask = 0
  /\ regs = [t \in Tasks |-> [pc |-> "code", sp |-> 0]]
  /\ stack = [t \in Tasks |-> <<>>] /\ calls = [t \in Tasks |-> <<>>]

Next ==
  \/ \E t \in Tasks : Switch(t)
  \/ FunctionReturns
  \/ \E c \in Contexts : Trap(c) \/ ContextStep(c)
  \/ EmuStep

(* Threads run on and the 68k executes the trap its pc is at; a handler     *)
(* makes finitely many calls; exec schedules every task again and again    *)
(* long enough to run on; and a 68k function called by a handler returns,  *)
(* so it traps finitely often itself.  Nobody has to trap.                 *)
Fairness ==
  /\ WF_vars(EmuStep)
  /\ \A c \in Contexts : WF_vars(ContextStep(c)) /\ SF_vars(HandlerEnds(c))
  /\ \A t \in Tasks : SF_vars(Switch(t)) /\ SF_vars(task = t /\ ReturnTrap)
  /\ \A t \in Tasks, c \in Contexts : SF_vars(FunctionOf(t, c) /\ FunctionReturns)

Spec == Init /\ [][Next]_vars
FairSpec == Spec /\ Fairness

-----------------------------------------------------------------------------
ContextPlaces == {"free", "start", "run", "call_lock", "call_set", "call_post",
  "call_wait", "call_unlock", "exit_lock", "exit_set", "exit_post", "gone"}

Registers == [pc : {"code", "call", "return", "exit"}, sp : Nat]
ContextRecords == [at : ContextPlaces, to_trap : 0 .. 1, to_emu : 0 .. 1,
                   saved : [regs : Registers, intmask : {0, 7}]]

TypeOK ==
  /\ trap_mutex \in 0 .. 1
  /\ current_context \in Contexts \cup {None}
  /\ ctx \in [Contexts -> ContextRecords]
  /\ emu \in [at : {"run", "wait", "return_lock"}, ctx : Contexts \cup {None}]
  /\ task \in Tasks /\ intmask \in {0, 7}
  /\ regs \in [Tasks -> Registers]
  /\ stack \in [Tasks -> Seq(Contexts)] /\ calls \in [Tasks -> Seq(Contexts)]

(* The threads of a trap are coroutines: at any moment one thread has      *)
(* control and may touch the 68k registers - the emulator, when it is not  *)
(* waiting, or else the one context it waits for; a thread that takes part *)
(* in nothing holds nothing.                                               *)
InControl(c) == ctx[c].at \notin {"free", "call_wait", "gone"} \/ ctx[c].to_trap > 0
OneInControl ==
  \A c \in Contexts : InControl(c) => emu = [at |-> "wait", ctx |-> c] /\ ctx[c].to_emu = 0

(* The global current_context, set by one thread and read by another after *)
(* a detour through the 68k, still names the trap of the task that runs    *)
(* when the "call" and "exit" traps read it.                               *)
CurrentIsInnermost ==
  Running /\ regs[task].pc \in {"call", "exit"} =>
    calls[task] # <<>> /\ current_context = Innermost

(* A 68k function returns to the handler that called it, however tasks and *)
(* nested traps were interleaved meanwhile: control goes to the innermost  *)
(* trap of the task that runs, with its stack as deep as when it trapped.  *)
ReturnsToItsCaller ==
  emu.at = "wait" =>
    calls[task] # <<>> /\ emu.ctx = Innermost /\ regs[task].sp = Len(calls[task]) - 1

(* When a trap is over the task continues as it was at trap entry.         *)
ResumesAsItTrapped ==
  [][ExitTrap => /\ regs'[task].sp = Len(calls'[task])
                 /\ regs'[task].pc = "code" /\ intmask' = 0]_vars

(* 68k code that can be interrupted never runs inside the critical section *)
(* of trap_mutex: a task that traps will get it.                           *)
InterruptibleMeansUnlocked == Running /\ intmask = 0 => trap_mutex = 1

(* Every trap ends: its thread is joined and its context freed, although   *)
(* other tasks trap, call and return in between.                           *)
TrapsEnd == \A c \in Contexts : (ctx[c].at = "start") ~> (ctx[c].at = "free")
=============================================================================
