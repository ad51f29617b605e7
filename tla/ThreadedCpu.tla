------------------------------ MODULE ThreadedCpu ------------------------------
(***************************************************************************)
(* The 68k on a host thread of its own (newcpu.cpp with cpu_thread).  An   *)
(* access to the custom chips is a request to the emulator thread:         *)
(* cpu_thread_indirect_mode and its fellows say what is wanted,            *)
(* cpu_out_sema that there is a request, cpu_in_sema that it was answered. *)
(* The emulator thread runs the chips, passes the interrupt level on in    *)
(* cpu_thread_ilvl and wakes a stopped CPU with cpu_wakeup_sema.  Both end *)
(* when the flag SPCFLAG_MODE_CHANGE is set, and start again.              *)
(*                                                                         *)
(* There is one interrupt, requested in intreq; an access either reads or  *)
(* is the write that clears it.                                            *)
(***************************************************************************)
EXTENDS Integers, FiniteSetsExt

CONSTANTS
  MaxStarts,   \* bound: how often the CPU is started (the program's RESETs: 1)
  MaxAccesses, \* bound: accesses of the CPU to the chips
  MaxIrqs,     \* bound: interrupts the chips request
  MaxSem       \* bound: what a semaphore counts to (2^32 in the code)

ASSUME CpuAssumption ==
  /\ MaxStarts \in Nat /\ MaxAccesses \in Nat /\ MaxIrqs \in Nat
  /\ MaxSem \in Nat /\ MaxSem > 1

VARIABLES
  cpu_in_sema, cpu_out_sema, cpu_wakeup_sema,
  request,     \* cpu_thread_indirect_mode, _addr (the number of an access), _val
  cpu_thread_ilvl, cpu_thread_reset, cpu_thread_active,
  spcflags,    \* of "MODE_CHANGE", "DOINT" and "STOP" those that are set
  intmask,     \* the CPU's interrupt mask, 0 or 1
  intreq,      \* the chips request an interrupt
  cpu,         \* place of the CPU thread, its access, if that began clean, was done
  main,        \* place of the emulator thread, the request it took
  count        \* bounds: starts, accesses, interrupts and RESETs so far

semas  == <<cpu_in_sema, cpu_out_sema, cpu_wakeup_sema>>
shared == <<request, cpu_thread_ilvl, cpu_thread_reset, cpu_thread_active, spcflags>>
vars   == <<semas, shared, intmask, intreq, cpu, main, count>>

Plus(n) == IF n < MaxSem THEN n + 1 ELSE n
CpuAt(place)  == cpu.at = place
MainAt(place) == main.at = place
CpuGoes(place)  == cpu' = [cpu EXCEPT !.at = place]
MainGoes(place) == main' = [main EXCEPT !.at = place]
NoAccess  == [at |-> "off", access |-> 0, kind |-> "none", clean |-> FALSE, done |-> 0]
NoRequest == [at |-> "idle", mode |-> "none", addr |-> 0]
Loops     == main' = [NoRequest EXCEPT !.at = "loop"]

(* Nothing is left over from an earlier access, start or end. *)
Clean ==
  /\ cpu_in_sema = 0 /\ cpu_out_sema = 0 /\ MainAt("loop")
  /\ ~ cpu_thread_reset /\ "MODE_CHANGE" \notin spcflags

-----------------------------------------------------------------------------
(* The CPU thread: cpu_thread_run_2. *)
CpuBegins ==
  /\ CpuAt("begin")
  /\ cpu_thread_active' = TRUE
  /\ CpuGoes("run")
  /\ UNCHANGED <<semas, request, cpu_thread_ilvl, cpu_thread_reset, spcflags, intmask, intreq,
                 main, count>>

(* process_cpu_indirect_memory_read and _write ...                         *)
AccessMode(kind) ==
  /\ CpuAt("run") /\ count.accesses < MaxAccesses
  /\ count' = [count EXCEPT !.accesses = @ + 1]
  /\ request' = [request EXCEPT !.mode = kind]
  /\ cpu' = [at |-> "mode", access |-> count.accesses + 1, kind |-> kind, clean |-> Clean,
             done |-> 0]
  /\ UNCHANGED <<semas, cpu_thread_ilvl, cpu_thread_reset, cpu_thread_active, spcflags, intmask,
                 intreq, main>>

AccessPost ==
  /\ CpuAt("mode")
  /\ request' = [request EXCEPT !.addr = cpu.access]
  /\ cpu_out_sema' = Plus(cpu_out_sema)
  /\ CpuGoes("wait")
  /\ UNCHANGED <<cpu_in_sema, cpu_wakeup_sema, cpu_thread_ilvl, cpu_thread_reset,
                 cpu_thread_active, spcflags, intmask, intreq, main, count>>

AccessWait ==
  /\ CpuAt("wait") /\ cpu_in_sema > 0
  /\ cpu_in_sema' = cpu_in_sema - 1
  /\ CpuGoes("answered")
  /\ request' = [request EXCEPT !.mode = "over"]
  /\ UNCHANGED <<cpu_out_sema, cpu_wakeup_sema, cpu_thread_ilvl, cpu_thread_reset,
                 cpu_thread_active, spcflags, intmask, intreq, main, count>>

(* ... and the value they return.                                          *)
AccessReturns ==
  /\ CpuAt("answered")
  /\ cpu' = [NoAccess EXCEPT !.at = "check"]
  /\ UNCHANGED <<semas, shared, intmask, intreq, main, count>>

(* Other instructions: of no concern here, STOP, one that lowers the mask, *)
(* RESET (custom_reset_cpu) and a trap that changes the configuration.     *)
Instruction ==
  /\ CpuAt("run")
  /\ CpuGoes("check")
  /\ UNCHANGED <<semas, shared, intmask, intreq, main, count>>

Stop ==
  /\ CpuAt("run")
  /\ spcflags' = spcflags \cup {"STOP"}
  /\ CpuGoes("check")
  /\ UNCHANGED <<semas, request, cpu_thread_ilvl, cpu_thread_reset, cpu_thread_active, intmask,
                 intreq, main, count>>

LowerMask ==
  /\ CpuAt("run")
  /\ intmask' = 0
  /\ spcflags' = spcflags \cup {"DOINT"}
  /\ CpuGoes("check")
  /\ UNCHANGED <<semas, request, cpu_thread_ilvl, cpu_thread_reset, cpu_thread_active, intreq,
                 main, count>>

ConfigTrap ==
  /\ CpuAt("run")
  /\ spcflags' = spcflags \cup {"MODE_CHANGE"}
  /\ CpuGoes("check")
  /\ UNCHANGED <<semas, request, cpu_thread_ilvl, cpu_thread_reset, cpu_thread_active, intmask,
                 intreq, main, count>>

CpuReset ==
  /\ CpuAt("run") /\ count.resets = 0
  /\ count' = [count EXCEPT !.resets = 1]
  /\ cpu_thread_reset' = TRUE
  /\ cpu_wakeup_sema' = Plus(cpu_wakeup_sema)
  /\ CpuGoes("reset")
  /\ UNCHANGED <<cpu_in_sema, cpu_out_sema, request, cpu_thread_ilvl, cpu_thread_active, spcflags,
                 intmask, intreq, main>>

CpuResetWait ==
  /\ CpuAt("reset") /\ cpu_in_sema > 0
  /\ cpu_in_sema' = cpu_in_sema - 1
  /\ CpuGoes("check")
  /\ UNCHANGED <<cpu_out_sema, cpu_wakeup_sema, shared, intmask, intreq, main, count>>

(* do_specialties_thread: the end, an interrupt, on with the program, or   *)
(* asleep in STOP.                                                         *)
CpuEnds_StaysActive ==
  /\ CpuAt("check") /\ "MODE_CHANGE" \in spcflags
  /\ CpuGoes("off")
  /\ UNCHANGED <<semas, shared, intmask, intreq, main, count>>
CpuEnds ==
  /\ CpuAt("check") /\ "MODE_CHANGE" \in spcflags
  /\ cpu_thread_active' = FALSE
  /\ CpuGoes("off")
  /\ UNCHANGED <<semas, request, cpu_thread_ilvl, cpu_thread_reset, spcflags, intmask, intreq,
                 main, count>>

Interrupt ==
  /\ CpuAt("check") /\ "MODE_CHANGE" \notin spcflags
  /\ cpu_thread_ilvl > intmask
  /\ intmask' = cpu_thread_ilvl
  /\ spcflags' = (spcflags \ {"STOP"}) \cup {"DOINT"}
  /\ CpuGoes("run")
  /\ UNCHANGED <<semas, request, cpu_thread_ilvl, cpu_thread_reset, cpu_thread_active, intreq,
                 main, count>>

CheckOver ==
  /\ CpuAt("check") /\ "MODE_CHANGE" \notin spcflags /\ cpu_thread_ilvl <= intmask
  /\ CpuGoes(IF "STOP" \in spcflags THEN "stopped" ELSE "run")
  /\ UNCHANGED <<semas, shared, intmask, intreq, main, count>>

WakeUp ==
  /\ CpuAt("stopped") /\ cpu_wakeup_sema > 0
  /\ cpu_wakeup_sema' = cpu_wakeup_sema - 1
  /\ CpuGoes("check")
  /\ UNCHANGED <<cpu_in_sema, cpu_out_sema, shared, intmask, intreq, main, count>>

CpuStep ==
  \/ CpuBegins \/ AccessMode("read") \/ AccessMode("ack") \/ AccessPost \/ AccessWait
  \/ AccessReturns \/ Instruction \/ Stop \/ LowerMask \/ CpuReset \/ CpuResetWait
  \/ CpuEnds \/ Interrupt \/ CheckOver \/ WakeUp

-----------------------------------------------------------------------------
(* The emulator thread: run_cpu_thread.  init_cpu_thread has created the   *)
(* semaphores, so that uae_sem_init posts them.                            *)
MainStarts ==
  /\ MainAt("idle") /\ count.starts < MaxStarts
  /\ count' = [count EXCEPT !.starts = @ + 1]
  /\ spcflags' = spcflags \ {"MODE_CHANGE"}
  /\ cpu_in_sema' = Plus(cpu_in_sema)
  /\ cpu_out_sema' = Plus(cpu_out_sema)
  /\ cpu_wakeup_sema' = Plus(cpu_wakeup_sema)
  /\ cpu_thread_active' = FALSE
  /\ CpuGoes("begin") /\ MainGoes("starting")
  /\ UNCHANGED <<request, cpu_thread_ilvl, cpu_thread_reset, intmask, intreq>>

MainSeesActive ==
  /\ MainAt("starting") /\ cpu_thread_active
  /\ MainGoes("loop")
  /\ UNCHANGED <<semas, shared, intmask, intreq, cpu, count>>

(* "while (!uae_sem_trywait(&cpu_out_sema))" *)
ServeTakes ==
  /\ MainAt("loop") /\ cpu_out_sema > 0
  /\ cpu_out_sema' = cpu_out_sema - 1
  /\ main' = [at |-> "serve", mode |-> request.mode, addr |-> request.addr]
  /\ UNCHANGED <<cpu_in_sema, cpu_wakeup_sema, shared, intmask, intreq, cpu, count>>

(* The access is executed and then answered; a request that is none is     *)
(* only logged.                                                            *)
ServeExecutes ==
  /\ MainAt("serve") /\ main.mode \in {"read", "ack"}
  /\ cpu' = IF main.addr = cpu.access /\ cpu.done < 2 THEN [cpu EXCEPT !.done = @ + 1] ELSE cpu
  /\ intreq' = (intreq /\ main.mode = "read")
  /\ request' = IF main.mode = "read" THEN [request EXCEPT !.val = main.addr] ELSE request
  /\ MainGoes("answers")
  /\ UNCHANGED <<semas, cpu_thread_ilvl, cpu_thread_reset, cpu_thread_active, spcflags, intmask,
                 count>>
ServeAnswers_FallsThrough ==
  /\ MainAt("answers")
  /\ cpu_in_sema' = Plus(cpu_in_sema)
  /\ main' = IF main.mode = "ack" THEN [main EXCEPT !.at = "serve", !.mode = "read"]
                                  ELSE [NoRequest EXCEPT !.at = "loop"]
  /\ UNCHANGED <<cpu_out_sema, cpu_wakeup_sema, shared, intmask, intreq, cpu, count>>
ServeAnswers ==
  /\ MainAt("answers")
  /\ cpu_in_sema' = Plus(cpu_in_sema)
  /\ Loops
  /\ UNCHANGED <<cpu_out_sema, cpu_wakeup_sema, shared, intmask, intreq, cpu, count>>
ServeLogs ==
  /\ MainAt("serve") /\ main.mode \notin {"read", "ack"}
  /\ Loops
  /\ UNCHANGED <<semas, shared, intmask, intreq, cpu, count>>

(* custom_reset clears the chips' requests and the flags but MODE_CHANGE.  *)
ServeReset ==
  /\ MainAt("loop") /\ cpu_thread_reset
  /\ intreq' = FALSE
  /\ spcflags' = spcflags \cap {"MODE_CHANGE"}
  /\ cpu_thread_reset' = FALSE
  /\ cpu_in_sema' = Plus(cpu_in_sema)
  /\ UNCHANGED <<cpu_out_sema, cpu_wakeup_sema, request, cpu_thread_ilvl, cpu_thread_active,
                 intmask, cpu, main, count>>

(* do_cycles runs the chips, which may request an interrupt (INTREQ and    *)
(* doint) or end the run (uae_reset, uae_quit, a changed configuration).   *)
ChipsInterrupt ==
  /\ MainAt("loop") /\ count.irqs < MaxIrqs /\ ~ intreq
  /\ count' = [count EXCEPT !.irqs = @ + 1]
  /\ intreq' = TRUE
  /\ spcflags' = spcflags \cup {"DOINT"}
  /\ UNCHANGED <<semas, request, cpu_thread_ilvl, cpu_thread_reset, cpu_thread_active, intmask,
                 cpu, main>>
ChipsEnd ==
  /\ MainAt("loop")
  /\ spcflags' = spcflags \cup {"MODE_CHANGE"}
  /\ UNCHANGED <<semas, request, cpu_thread_ilvl, cpu_thread_reset, cpu_thread_active, intmask,
                 intreq, cpu, main, count>>

(* The level is passed on after do_cycles, when it may have changed.       *)
PassInterrupt_Asleep ==
  /\ MainAt("loop") /\ "DOINT" \in spcflags
  /\ spcflags' = spcflags \ {"DOINT"}
  /\ cpu_thread_ilvl' = IF intreq THEN 1 ELSE 0
  /\ UNCHANGED <<semas, request, cpu_thread_reset, cpu_thread_active, intmask,
                 intreq, cpu, main, count>>
PassInterrupt ==
  /\ MainAt("loop") /\ "DOINT" \in spcflags
  /\ spcflags' = spcflags \ {"DOINT"}
  /\ cpu_thread_ilvl' = IF intreq THEN 1 ELSE 0
  /\ cpu_wakeup_sema' = IF intreq THEN Plus(cpu_wakeup_sema) ELSE cpu_wakeup_sema
  /\ UNCHANGED <<cpu_in_sema, cpu_out_sema, request, cpu_thread_reset, cpu_thread_active, intmask,
                 intreq, cpu, main, count>>

(* The end of the loop, and then posts until the CPU thread is gone.       *)
MainLeaves ==
  /\ MainAt("loop") /\ "MODE_CHANGE" \in spcflags
  /\ MainGoes("ending")
  /\ UNCHANGED <<semas, shared, intmask, intreq, cpu, count>>
EndPosts_WakeupOnly ==
  /\ MainAt("ending") /\ cpu_thread_active
  /\ cpu_wakeup_sema' = Plus(cpu_wakeup_sema)
  /\ UNCHANGED <<cpu_in_sema, cpu_out_sema, shared, intmask, intreq, cpu, main, count>>
EndPosts ==
  /\ MainAt("ending") /\ cpu_thread_active
  /\ cpu_in_sema' = Plus(cpu_in_sema)
  /\ cpu_wakeup_sema' = Plus(cpu_wakeup_sema)
  /\ UNCHANGED <<cpu_out_sema, shared, intmask, intreq, cpu, main, count>>
MainEnds ==
  /\ MainAt("ending") /\ ~ cpu_thread_active
  /\ MainGoes("idle")
  /\ UNCHANGED <<semas, shared, intmask, intreq, cpu, count>>

MainServes == ServeTakes \/ ServeExecutes \/ ServeAnswers \/ ServeLogs
MainStep ==
  \/ MainStarts \/ MainSeesActive \/ MainServes \/ ServeReset \/ ChipsInterrupt \/ ChipsEnd
  \/ PassInterrupt \/ MainLeaves \/ EndPosts \/ MainEnds

-----------------------------------------------------------------------------
Init ==
  /\ cpu_in_sema = 0 /\ cpu_out_sema = 0 /\ cpu_wakeup_sema = 0
  /\ request = [mode |-> "none", addr |-> 0, val |-> 0]
  /\ cpu_thread_ilvl = 0 /\ cpu_thread_reset = FALSE /\ cpu_thread_active = FALSE
  /\ spcflags = {} /\ intmask = 1 /\ intreq = FALSE
  /\ cpu = NoAccess /\ main = NoRequest
  /\ count = [starts |-> 0, accesses |-> 0, irqs |-> 0, resets |-> 0]

Next == CpuStep \/ ConfigTrap \/ MainStep

Spec == Init /\ [][Next]_vars

(* The host's scheduler runs both threads; every pass of the emulator's    *)
(* loop comes to each of its tests.  What the program on the CPU, the      *)
(* chips and the user do is left to them.                                  *)
Fairness ==
  /\ WF_vars(CpuStep)
  /\ WF_vars(MainSeesActive) /\ WF_vars(MainServes) /\ WF_vars(ServeReset)
  /\ SF_vars(PassInterrupt) /\ WF_vars(MainLeaves) /\ WF_vars(EndPosts \/ MainEnds)
FairSpec == Spec /\ Fairness

-----------------------------------------------------------------------------
(* Types.  cpu_thread_active, which the emulator thread polls, is set      *)
(* exactly while the CPU thread runs the program.                          *)
Semaphore == 0 .. MaxSem
Place == {"off", "begin", "run", "mode", "wait", "answered", "reset", "check", "stopped"}
Mode  == {"none", "read", "ack", "over"}
TypeOK ==
  /\ cpu_in_sema \in Semaphore /\ cpu_out_sema \in Semaphore /\ cpu_wakeup_sema \in Semaphore
  /\ request \in [mode : Mode, addr : 0 .. MaxAccesses, val : 0 .. MaxAccesses]
  /\ cpu_thread_ilvl \in {0, 1} /\ cpu_thread_reset \in BOOLEAN
  /\ cpu_thread_active = (cpu.at \notin {"off", "begin"})
  /\ spcflags \subseteq {"MODE_CHANGE", "DOINT", "STOP"}
  /\ intmask \in {0, 1} /\ intreq \in BOOLEAN
  /\ cpu \in [at : Place, access : 0 .. MaxAccesses, kind : Mode, clean : BOOLEAN,
              done : 0 .. 2]
  /\ main \in [at : {"idle", "starting", "loop", "serve", "answers", "ending"}, mode : Mode,
               addr : 0 .. MaxAccesses]

(* An access that began with both semaphores at 0 is executed once before  *)
(* it returns, and a read returns its own answer: no interleaving of the   *)
(* handshake, a RESET or an interrupt breaks it (unless the run ends       *)
(* meanwhile: the emulator thread then answers without executing).         *)
CleanAccess ==
  CpuAt("answered") /\ cpu.clean /\ ~ MainAt("ending")
    => cpu.done = 1 /\ (cpu.kind = "read" => request.val = cpu.access)

(* Every read returns the answer to itself.  It does not hold: the         *)
(* semaphores are created by init_cpu_thread and initialised again by      *)
(* run_cpu_thread, which posts them.                                       *)
OwnAnswer == CpuAt("answered") /\ cpu.kind = "read" => request.val = cpu.access

(* An interrupt the chips request reaches a CPU that does not mask it,     *)
(* running or asleep in STOP, unless the program clears it or the run ends.*)
InterruptIsTaken ==
  (intreq /\ intmask = 0 /\ MainAt("loop"))
    ~> (intmask = 1 \/ ~ intreq \/ "MODE_CHANGE" \in spcflags)

(* Told to end, the emulator thread leaves its loop and the CPU thread     *)
(* ends, whatever each waited for; until then the CPU thread never stays   *)
(* in an access or a RESET.  The exception is a CPU thread that began and  *)
(* ended before run_cpu_thread looked (1 ms) at cpu_thread_active:         *)
(* run_cpu_thread then waits for it for ever.                              *)
MissedStart == MainAt("starting") /\ CpuAt("off")
WaitsEnd ==
  /\ cpu.at \in {"wait", "reset"} ~> cpu.at \notin {"wait", "reset"}
  /\ "MODE_CHANGE" \in spcflags ~> (MainAt("idle") \/ MissedStart)
=============================================================================
