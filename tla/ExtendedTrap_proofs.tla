------------------------ MODULE ExtendedTrap_proofs ------------------------
(***************************************************************************)
(* Proofs about extended traps, for any set of 68k tasks and any number of *)
(* trap contexts.                                                          *)
(***************************************************************************)
EXTENDS ExtendedTrap, TLAPS

(* The levels of the traps a task is in: every one saved the registers it  *)
(* trapped with, and those whose 68k function runs wait below the others,  *)
(* each with its pointer on the task's stack.                              *)
LevelsInv ==
  \A t \in Tasks :
    /\ regs[t].sp <= Len(stack[t]) /\ regs[t].sp <= Len(calls[t])
    /\ \A i \in 1 .. Len(calls[t]) :
         /\ ctx[calls[t][i]].at # "free"
         /\ ctx[calls[t][i]].saved = [regs |-> [pc |-> "code", sp |-> i - 1], intmask |-> 0]
    /\ \A i \in 1 .. regs[t].sp :
         /\ stack[t][i] = calls[t][i]
         /\ ctx[calls[t][i]].at = "call_wait"
         /\ ctx[calls[t][i]].to_trap = 0 /\ ctx[calls[t][i]].to_emu = 0
    /\ regs[t].pc = "return" => regs[t].sp > 0 \/ (t = task /\ emu.at = "wait")
    /\ t # task => regs[t].pc \in {"code", "return"} /\ Len(calls[t]) = regs[t].sp

(* A context belongs to one trap of one task, or is free. *)
DistinctInv ==
  \A t, u \in Tasks : \A i \in 1 .. Len(calls[t]), j \in 1 .. Len(calls[u]) :
    calls[t][i] = calls[u][j] => t = u /\ i = j

FreeInv ==
  \A c \in Contexts :
    \/ ctx[c].at = "free" /\ ctx[c].to_trap = 0 /\ ctx[c].to_emu = 0
    \/ \E t \in Tasks : \E i \in 1 .. Len(calls[t]) : calls[t][i] = c

(* Control, the mutex and the mask while the emulator runs 68k code ... *)
At(c, place, trap, em) ==
  ctx[c].at = place /\ ctx[c].to_trap = trap /\ ctx[c].to_emu = em

Detour(pc) ==
  /\ regs[task].pc = pc /\ intmask = 7 /\ trap_mutex = 0
  /\ current_context = Innermost

RunInv ==
  /\ emu.at \in {"run", "return_lock"} /\ regs[task].pc \in {"code", "return"} =>
       Len(calls[task]) = regs[task].sp /\ trap_mutex = 1 /\ intmask = 0
  /\ emu.at = "return_lock" => regs[task].pc = "return"
  /\ Running /\ regs[task].pc \in {"call", "exit"} =>
       /\ Len(calls[task]) = regs[task].sp + 1
       /\ Detour(regs[task].pc)
       /\ At(Innermost, IF regs[task].pc = "call" THEN "call_wait" ELSE "gone", 0, 0)

(* ... and while it waits for the thread of the innermost trap. *)
WaitInv ==
  emu.at = "wait" =>
    /\ Len(calls[task]) = regs[task].sp + 1
    /\ emu.ctx = Innermost
    /\ \/ /\ trap_mutex = 1
          /\ \/ At(emu.ctx, "start", 1, 0) \/ At(emu.ctx, "run", 0, 0)
             \/ At(emu.ctx, "call_lock", 0, 0) \/ At(emu.ctx, "exit_lock", 0, 0)
       \/ /\ trap_mutex = 0
          /\ \/ At(emu.ctx, "call_set", 0, 0) \/ At(emu.ctx, "call_wait", 1, 0)
             \/ At(emu.ctx, "call_unlock", 0, 0) \/ At(emu.ctx, "exit_set", 0, 0)
       \/ /\ Detour("call")
          /\ At(emu.ctx, "call_post", 0, 0) \/ At(emu.ctx, "call_wait", 0, 1)
       \/ /\ Detour("exit")
          /\ At(emu.ctx, "exit_post", 0, 0) \/ At(emu.ctx, "gone", 0, 1)

IInv == TypeOK /\ LevelsInv /\ DistinctInv /\ FreeInv /\ RunInv /\ WaitInv

-----------------------------------------------------------------------------
(* The emulator waits for a thread that has control, whose trap is the     *)
(* innermost one of the running task and not one that awaits a function.   *)
LEMMA Control ==
  ASSUME IInv, NEW c \in Contexts, InControl(c)
  PROVE  /\ emu = [at |-> "wait", ctx |-> c] /\ ctx[c].to_emu = 0
         /\ Len(calls[task]) \in Nat \ {0} /\ Len(calls[task]) = regs[task].sp + 1
         /\ calls[task][Len(calls[task])] = c
         /\ \A t \in Tasks : \A i \in 1 .. regs[t].sp : calls[t][i] # c
<1>1. /\ \A t \in Tasks : calls[t] \in Seq(Contexts) /\ Len(calls[t]) \in Nat
      /\ \A t \in Tasks : regs[t].sp \in Nat
  BY DEF IInv, TypeOK, Registers
<1>2. \A t \in Tasks : \A i \in 1 .. regs[t].sp : calls[t][i] # c
  BY <1>1 DEF IInv, LevelsInv, InControl
<1>3. PICK t \in Tasks : \E i \in 1 .. Len(calls[t]) : calls[t][i] = c
  BY DEF IInv, FreeInv, InControl
<1>9. PICK i \in 1 .. Len(calls[t]) : calls[t][i] = c
  BY <1>3
<1>4. i > regs[t].sp
  BY <1>1, <1>2, <1>9
<1>5. t = task
  BY <1>1, <1>9, <1>4 DEF IInv, LevelsInv
<1>6. Len(calls[task]) = regs[task].sp + 1 /\ i = Len(calls[task])
  <2>1. emu.at \in {"run", "wait", "return_lock"} /\ regs[task].pc \in {"code", "call", "return", "exit"}
    BY DEF IInv, TypeOK, Registers
  <2>2. Len(calls[task]) # regs[task].sp
    BY <1>1, <1>9, <1>4, <1>5
  <2> QED
    BY <1>1, <1>9, <1>4, <1>5, <2>1, <2>2 DEF IInv, RunInv, WaitInv, Running, LevelsInv
<1>7. Innermost = c
  BY <1>9, <1>5, <1>6 DEF Innermost
<1>8. emu.at = "wait"
  <2>1. emu.at \in {"run", "wait", "return_lock"} /\ regs[task].pc \in {"code", "call", "return", "exit"}
    BY DEF IInv, TypeOK, Registers
  <2> QED
    BY <1>1, <1>6, <1>7, <2>1 DEF IInv, RunInv, Running, At, InControl
<1> QED
  BY <1>1, <1>2, <1>6, <1>7, <1>8 DEF IInv, WaitInv, TypeOK, At, InControl, Innermost

LEMMA InitInv == Init => IInv
  BY TrapAssumption DEF Init, IInv, TypeOK, LevelsInv, DistinctInv, FreeInv, RunInv, WaitInv,
     Running, Free, Outermost, ContextPlaces, Registers, ContextRecords

-----------------------------------------------------------------------------
(* A step of a context's thread is a step of the innermost trap: it leaves *)
(* the levels below and the other tasks alone.                             *)
LEMMA ThreadKeepsLevels ==
  ASSUME IInv, NEW c \in Contexts, InControl(c),
         UNCHANGED <<emu, task, stack, calls>>,
         \A d \in Contexts : d # c => ctx'[d] = ctx[d],
         ctx'[c].at # "free", ctx'[c].saved = ctx[c].saved,
         \A t \in Tasks : t # task => regs'[t] = regs[t],
         regs'[task].sp = regs[task].sp
  PROVE  LevelsInv' /\ DistinctInv' /\ FreeInv'
<1>1. /\ emu.at = "wait"
      /\ \A t \in Tasks : \A i \in 1 .. regs[t].sp : calls[t][i] # c
  BY Control
<1>2. \A t \in Tasks : calls[t] \in Seq(Contexts) /\ regs[t].sp \in Nat /\ regs'[t].sp = regs[t].sp
  BY DEF IInv, TypeOK, Registers
<1>3. \A t \in Tasks : \A i \in 1 .. Len(calls[t]) : calls[t][i] \in Contexts
  BY <1>2
<1>4. LevelsInv'
  <2> SUFFICES ASSUME NEW t \in Tasks PROVE LevelsInv!(t)'
    BY DEF LevelsInv
  <2> USE DEF IInv, LevelsInv
  <2>1. \A i \in 1 .. Len(calls[t]) : /\ ctx'[calls[t][i]].at # "free"
                                      /\ ctx'[calls[t][i]].saved = ctx[calls[t][i]].saved
    BY <1>3
  <2>2. \A i \in 1 .. regs[t].sp : ctx'[calls[t][i]] = ctx[calls[t][i]]
    BY <1>1, <1>2, <1>3
  <2> QED
    BY <1>1, <1>2, <2>1, <2>2
<1>5. DistinctInv'
  BY DEF IInv, DistinctInv
<1>6. FreeInv'
  BY DEF IInv, FreeInv, InControl
<1> QED
  BY <1>4, <1>5, <1>6

LEMMA StartStep == ASSUME IInv, NEW c \in Contexts, Start(c) PROVE IInv'
<1> USE DEF Start, WaitToTrap, m68k
<1>1. InControl(c)
  BY DEF InControl
<1>2. /\ emu = [at |-> "wait", ctx |-> c] /\ Innermost = c
      /\ Len(calls[task]) = regs[task].sp + 1
  BY <1>1, Control DEF Innermost
<1>3. TypeOK
  BY DEF IInv
<1>4. ctx[c] \in ContextRecords /\ regs[task] \in Registers
  BY <1>3 DEF TypeOK
<1>6. /\ \A d \in Contexts : d # c => ctx'[d] = ctx[d]
      /\ ctx'[c].at # "free" /\ ctx'[c].saved = ctx[c].saved
      /\ ctx'[c] \in ContextRecords
  BY <1>2, <1>3, <1>4 DEF TypeOK, ContextRecords, ContextPlaces
<1>7. /\ \A t \in Tasks : t # task => regs'[t] = regs[t]
      /\ regs'[task] \in Registers /\ regs'[task].sp = regs[task].sp
  BY <1>2, <1>3, <1>4 DEF TypeOK, Registers
<1>8. LevelsInv' /\ DistinctInv' /\ FreeInv'
  BY <1>1, <1>6, <1>7, ThreadKeepsLevels
<1>9. WaitInv'
  BY <1>2, <1>3, <1>4, <1>7 DEF IInv, TypeOK, WaitInv, At, Detour, Innermost, ContextRecords
<1>10. RunInv'
  BY <1>2 DEF RunInv, Running
<1>11. TypeOK'
  <2>1. ctx' \in [Contexts -> ContextRecords]
    BY <1>3, <1>6 DEF TypeOK
  <2>2. regs' \in [Tasks -> Registers]
    BY <1>3, <1>7 DEF TypeOK
  <2>3. trap_mutex' \in 0 .. 1
    BY <1>2, <1>3, <1>4 DEF IInv, TypeOK, WaitInv, At, Detour
  <2> QED
    BY <1>3, <2>1, <2>2, <2>3 DEF TypeOK
<1> QED
  BY <1>8, <1>9, <1>10, <1>11 DEF IInv

LEMMA HandlerCallsStep == ASSUME IInv, NEW c \in Contexts, HandlerCalls(c) PROVE IInv'
<1> USE DEF HandlerCalls, Goto, m68k
<1>1. InControl(c)
  BY DEF InControl
<1>2. /\ emu = [at |-> "wait", ctx |-> c] /\ Innermost = c
      /\ Len(calls[task]) = regs[task].sp + 1
  BY <1>1, Control DEF Innermost
<1>3. TypeOK
  BY DEF IInv
<1>4. ctx[c] \in ContextRecords /\ regs[task] \in Registers
  BY <1>3 DEF TypeOK
<1>6. /\ \A d \in Contexts : d # c => ctx'[d] = ctx[d]
      /\ ctx'[c].at # "free" /\ ctx'[c].saved = ctx[c].saved
      /\ ctx'[c] \in ContextRecords
  BY <1>2, <1>3, <1>4 DEF TypeOK, ContextRecords, ContextPlaces
<1>7. /\ \A t \in Tasks : t # task => regs'[t] = regs[t]
      /\ regs'[task] \in Registers /\ regs'[task].sp = regs[task].sp
  BY <1>2, <1>3, <1>4 DEF TypeOK, Registers
<1>8. LevelsInv' /\ DistinctInv' /\ FreeInv'
  BY <1>1, <1>6, <1>7, ThreadKeepsLevels
<1>9. WaitInv'
  BY <1>2, <1>3, <1>4, <1>7 DEF IInv, TypeOK, WaitInv, At, Detour, Innermost, ContextRecords
<1>10. RunInv'
  BY <1>2 DEF RunInv, Running
<1>11. TypeOK'
  <2>1. ctx' \in [Contexts -> ContextRecords]
    BY <1>3, <1>6 DEF TypeOK
  <2>2. regs' \in [Tasks -> Registers]
    BY <1>3, <1>7 DEF TypeOK
  <2>3. trap_mutex' \in 0 .. 1
    BY <1>2, <1>3, <1>4 DEF IInv, TypeOK, WaitInv, At, Detour
  <2> QED
    BY <1>3, <2>1, <2>2, <2>3 DEF TypeOK
<1> QED
  BY <1>8, <1>9, <1>10, <1>11 DEF IInv

LEMMA HandlerEndsStep == ASSUME IInv, NEW c \in Contexts, HandlerEnds(c) PROVE IInv'
<1> USE DEF HandlerEnds, Goto, m68k
<1>1. InControl(c)
  BY DEF InControl
<1>2. /\ emu = [at |-> "wait", ctx |-> c] /\ Innermost = c
      /\ Len(calls[task]) = regs[task].sp + 1
  BY <1>1, Control DEF Innermost
<1>3. TypeOK
  BY DEF IInv
<1>4. ctx[c] \in ContextRecords /\ regs[task] \in Registers
  BY <1>3 DEF TypeOK
<1>6. /\ \A d \in Contexts : d # c => ctx'[d] = ctx[d]
      /\ ctx'[c].at # "free" /\ ctx'[c].saved = ctx[c].saved
      /\ ctx'[c] \in ContextRecords
  BY <1>2, <1>3, <1>4 DEF TypeOK, ContextRecords, ContextPlaces
<1>7. /\ \A t \in Tasks : t # task => regs'[t] = regs[t]
      /\ regs'[task] \in Registers /\ regs'[task].sp = regs[task].sp
  BY <1>2, <1>3, <1>4 DEF TypeOK, Registers
<1>8. LevelsInv' /\ DistinctInv' /\ FreeInv'
  BY <1>1, <1>6, <1>7, ThreadKeepsLevels
<1>9. WaitInv'
  BY <1>2, <1>3, <1>4, <1>7 DEF IInv, TypeOK, WaitInv, At, Detour, Innermost, ContextRecords
<1>10. RunInv'
  BY <1>2 DEF RunInv, Running
<1>11. TypeOK'
  <2>1. ctx' \in [Contexts -> ContextRecords]
    BY <1>3, <1>6 DEF TypeOK
  <2>2. regs' \in [Tasks -> Registers]
    BY <1>3, <1>7 DEF TypeOK
  <2>3. trap_mutex' \in 0 .. 1
    BY <1>2, <1>3, <1>4 DEF IInv, TypeOK, WaitInv, At, Detour
  <2> QED
    BY <1>3, <2>1, <2>2, <2>3 DEF TypeOK
<1> QED
  BY <1>8, <1>9, <1>10, <1>11 DEF IInv

LEMMA CallLockStep == ASSUME IInv, NEW c \in Contexts, CallLock(c) PROVE IInv'
<1> USE DEF CallLock, Lock, Goto, m68k
<1>1. InControl(c)
  BY DEF InControl
<1>2. /\ emu = [at |-> "wait", ctx |-> c] /\ Innermost = c
      /\ Len(calls[task]) = regs[task].sp + 1
  BY <1>1, Control DEF Innermost
<1>3. TypeOK
  BY DEF IInv
<1>4. ctx[c] \in ContextRecords /\ regs[task] \in Registers
  BY <1>3 DEF TypeOK
<1>6. /\ \A d \in Contexts : d # c => ctx'[d] = ctx[d]
      /\ ctx'[c].at # "free" /\ ctx'[c].saved = ctx[c].saved
      /\ ctx'[c] \in ContextRecords
  BY <1>2, <1>3, <1>4 DEF TypeOK, ContextRecords, ContextPlaces
<1>7. /\ \A t \in Tasks : t # task => regs'[t] = regs[t]
      /\ regs'[task] \in Registers /\ regs'[task].sp = regs[task].sp
  BY <1>2, <1>3, <1>4 DEF TypeOK, Registers
<1>8. LevelsInv' /\ DistinctInv' /\ FreeInv'
  BY <1>1, <1>6, <1>7, ThreadKeepsLevels
<1>9. WaitInv'
  BY <1>2, <1>3, <1>4, <1>7 DEF IInv, TypeOK, WaitInv, At, Detour, Innermost, ContextRecords
<1>10. RunInv'
  BY <1>2 DEF RunInv, Running
<1>11. TypeOK'
  <2>1. ctx' \in [Contexts -> ContextRecords]
    BY <1>3, <1>6 DEF TypeOK
  <2>2. regs' \in [Tasks -> Registers]
    BY <1>3, <1>7 DEF TypeOK
  <2>3. trap_mutex' \in 0 .. 1
    BY <1>2, <1>3, <1>4 DEF IInv, TypeOK, WaitInv, At, Detour
  <2> QED
    BY <1>3, <2>1, <2>2, <2>3 DEF TypeOK
<1> QED
  BY <1>8, <1>9, <1>10, <1>11 DEF IInv

LEMMA CallSetStep == ASSUME IInv, NEW c \in Contexts, CallSet(c) PROVE IInv'
<1> USE DEF CallSet, Goto, m68k
<1>1. InControl(c)
  BY DEF InControl
<1>2. /\ emu = [at |-> "wait", ctx |-> c] /\ Innermost = c
      /\ Len(calls[task]) = regs[task].sp + 1
  BY <1>1, Control DEF Innermost
<1>3. TypeOK
  BY DEF IInv
<1>4. ctx[c] \in ContextRecords /\ regs[task] \in Registers
  BY <1>3 DEF TypeOK
<1>6. /\ \A d \in Contexts : d # c => ctx'[d] = ctx[d]
      /\ ctx'[c].at # "free" /\ ctx'[c].saved = ctx[c].saved
      /\ ctx'[c] \in ContextRecords
  BY <1>2, <1>3, <1>4 DEF TypeOK, ContextRecords, ContextPlaces
<1>7. /\ \A t \in Tasks : t # task => regs'[t] = regs[t]
      /\ regs'[task] \in Registers /\ regs'[task].sp = regs[task].sp
  BY <1>2, <1>3, <1>4 DEF TypeOK, Registers
<1>8. LevelsInv' /\ DistinctInv' /\ FreeInv'
  BY <1>1, <1>6, <1>7, ThreadKeepsLevels
<1>9. WaitInv'
  BY <1>2, <1>3, <1>4, <1>7 DEF IInv, TypeOK, WaitInv, At, Detour, Innermost, ContextRecords
<1>10. RunInv'
  BY <1>2 DEF RunInv, Running
<1>11. TypeOK'
  <2>1. ctx' \in [Contexts -> ContextRecords]
    BY <1>3, <1>6 DEF TypeOK
  <2>2. regs' \in [Tasks -> Registers]
    BY <1>3, <1>7 DEF TypeOK
  <2>3. trap_mutex' \in 0 .. 1
    BY <1>2, <1>3, <1>4 DEF IInv, TypeOK, WaitInv, At, Detour
  <2> QED
    BY <1>3, <2>1, <2>2, <2>3 DEF TypeOK
<1> QED
  BY <1>8, <1>9, <1>10, <1>11 DEF IInv

LEMMA CallPostStep == ASSUME IInv, NEW c \in Contexts, CallPost(c) PROVE IInv'
<1> USE DEF CallPost, PostToEmu, m68k
<1>1. InControl(c)
  BY DEF InControl
<1>2. /\ emu = [at |-> "wait", ctx |-> c] /\ Innermost = c
      /\ Len(calls[task]) = regs[task].sp + 1
  BY <1>1, Control DEF Innermost
<1>3. TypeOK
  BY DEF IInv
<1>4. ctx[c] \in ContextRecords /\ regs[task] \in Registers
  BY <1>3 DEF TypeOK
<1>6. /\ \A d \in Contexts : d # c => ctx'[d] = ctx[d]
      /\ ctx'[c].at # "free" /\ ctx'[c].saved = ctx[c].saved
      /\ ctx'[c] \in ContextRecords
  BY <1>2, <1>3, <1>4 DEF TypeOK, ContextRecords, ContextPlaces
<1>7. /\ \A t \in Tasks : t # task => regs'[t] = regs[t]
      /\ regs'[task] \in Registers /\ regs'[task].sp = regs[task].sp
  BY <1>2, <1>3, <1>4 DEF TypeOK, Registers
<1>8. LevelsInv' /\ DistinctInv' /\ FreeInv'
  BY <1>1, <1>6, <1>7, ThreadKeepsLevels
<1>9. WaitInv'
  BY <1>2, <1>3, <1>4, <1>7 DEF IInv, TypeOK, WaitInv, At, Detour, Innermost, ContextRecords
<1>10. RunInv'
  BY <1>2 DEF RunInv, Running
<1>11. TypeOK'
  <2>1. ctx' \in [Contexts -> ContextRecords]
    BY <1>3, <1>6 DEF TypeOK
  <2>2. regs' \in [Tasks -> Registers]
    BY <1>3, <1>7 DEF TypeOK
  <2>3. trap_mutex' \in 0 .. 1
    BY <1>2, <1>3, <1>4 DEF IInv, TypeOK, WaitInv, At, Detour
  <2> QED
    BY <1>3, <2>1, <2>2, <2>3 DEF TypeOK
<1> QED
  BY <1>8, <1>9, <1>10, <1>11 DEF IInv

LEMMA CallWaitStep == ASSUME IInv, NEW c \in Contexts, CallWait(c) PROVE IInv'
<1> USE DEF CallWait, WaitToTrap, m68k
<1>1. InControl(c)
  BY DEF InControl
<1>2. /\ emu = [at |-> "wait", ctx |-> c] /\ Innermost = c
      /\ Len(calls[task]) = regs[task].sp + 1
  BY <1>1, Control DEF Innermost
<1>3. TypeOK
  BY DEF IInv
<1>4. ctx[c] \in ContextRecords /\ regs[task] \in Registers
  BY <1>3 DEF TypeOK
<1>6. /\ \A d \in Contexts : d # c => ctx'[d] = ctx[d]
      /\ ctx'[c].at # "free" /\ ctx'[c].saved = ctx[c].saved
      /\ ctx'[c] \in ContextRecords
  BY <1>2, <1>3, <1>4 DEF TypeOK, ContextRecords, ContextPlaces
<1>7. /\ \A t \in Tasks : t # task => regs'[t] = regs[t]
      /\ regs'[task] \in Registers /\ regs'[task].sp = regs[task].sp
  BY <1>2, <1>3, <1>4 DEF TypeOK, Registers
<1>8. LevelsInv' /\ DistinctInv' /\ FreeInv'
  BY <1>1, <1>6, <1>7, ThreadKeepsLevels
<1>9. WaitInv'
  BY <1>2, <1>3, <1>4, <1>7 DEF IInv, TypeOK, WaitInv, At, Detour, Innermost, ContextRecords
<1>10. RunInv'
  BY <1>2 DEF RunInv, Running
<1>11. TypeOK'
  <2>1. ctx' \in [Contexts -> ContextRecords]
    BY <1>3, <1>6 DEF TypeOK
  <2>2. regs' \in [Tasks -> Registers]
    BY <1>3, <1>7 DEF TypeOK
  <2>3. trap_mutex' \in 0 .. 1
    BY <1>2, <1>3, <1>4 DEF IInv, TypeOK, WaitInv, At, Detour
  <2> QED
    BY <1>3, <2>1, <2>2, <2>3 DEF TypeOK
<1> QED
  BY <1>8, <1>9, <1>10, <1>11 DEF IInv

LEMMA CallUnlockStep == ASSUME IInv, NEW c \in Contexts, CallUnlock(c) PROVE IInv'
<1> USE DEF CallUnlock, Goto, m68k
<1>1. InControl(c)
  BY DEF InControl
<1>2. /\ emu = [at |-> "wait", ctx |-> c] /\ Innermost = c
      /\ Len(calls[task]) = regs[task].sp + 1
  BY <1>1, Control DEF Innermost
<1>3. TypeOK
  BY DEF IInv
<1>4. ctx[c] \in ContextRecords /\ regs[task] \in Registers
  BY <1>3 DEF TypeOK
<1>6. /\ \A d \in Contexts : d # c => ctx'[d] = ctx[d]
      /\ ctx'[c].at # "free" /\ ctx'[c].saved = ctx[c].saved
      /\ ctx'[c] \in ContextRecords
  BY <1>2, <1>3, <1>4 DEF TypeOK, ContextRecords, ContextPlaces
<1>7. /\ \A t \in Tasks : t # task => regs'[t] = regs[t]
      /\ regs'[task] \in Registers /\ regs'[task].sp = regs[task].sp
  BY <1>2, <1>3, <1>4 DEF TypeOK, Registers
<1>8. LevelsInv' /\ DistinctInv' /\ FreeInv'
  BY <1>1, <1>6, <1>7, ThreadKeepsLevels
<1>9. WaitInv'
  BY <1>2, <1>3, <1>4, <1>7 DEF IInv, TypeOK, WaitInv, At, Detour, Innermost, ContextRecords
<1>10. RunInv'
  BY <1>2 DEF RunInv, Running
<1>11. TypeOK'
  <2>1. ctx' \in [Contexts -> ContextRecords]
    BY <1>3, <1>6 DEF TypeOK
  <2>2. regs' \in [Tasks -> Registers]
    BY <1>3, <1>7 DEF TypeOK
  <2>3. trap_mutex' \in 0 .. 1
    BY <1>2, <1>3, <1>4 DEF IInv, TypeOK, WaitInv, At, Detour
  <2> QED
    BY <1>3, <2>1, <2>2, <2>3 DEF TypeOK
<1> QED
  BY <1>8, <1>9, <1>10, <1>11 DEF IInv

LEMMA ExitLockStep == ASSUME IInv, NEW c \in Contexts, ExitLock(c) PROVE IInv'
<1> USE DEF ExitLock, Lock, Goto, m68k
<1>1. InControl(c)
  BY DEF InControl
<1>2. /\ emu = [at |-> "wait", ctx |-> c] /\ Innermost = c
      /\ Len(calls[task]) = regs[task].sp + 1
  BY <1>1, Control DEF Innermost
<1>3. TypeOK
  BY DEF IInv
<1>4. ctx[c] \in ContextRecords /\ regs[task] \in Registers
  BY <1>3 DEF TypeOK
<1>6. /\ \A d \in Contexts : d # c => ctx'[d] = ctx[d]
      /\ ctx'[c].at # "free" /\ ctx'[c].saved = ctx[c].saved
      /\ ctx'[c] \in ContextRecords
  BY <1>2, <1>3, <1>4 DEF TypeOK, ContextRecords, ContextPlaces
<1>7. /\ \A t \in Tasks : t # task => regs'[t] = regs[t]
      /\ regs'[task] \in Registers /\ regs'[task].sp = regs[task].sp
  BY <1>2, <1>3, <1>4 DEF TypeOK, Registers
<1>8. LevelsInv' /\ DistinctInv' /\ FreeInv'
  BY <1>1, <1>6, <1>7, ThreadKeepsLevels
<1>9. WaitInv'
  BY <1>2, <1>3, <1>4, <1>7 DEF IInv, TypeOK, WaitInv, At, Detour, Innermost, ContextRecords
<1>10. RunInv'
  BY <1>2 DEF RunInv, Running
<1>11. TypeOK'
  <2>1. ctx' \in [Contexts -> ContextRecords]
    BY <1>3, <1>6 DEF TypeOK
  <2>2. regs' \in [Tasks -> Registers]
    BY <1>3, <1>7 DEF TypeOK
  <2>3. trap_mutex' \in 0 .. 1
    BY <1>2, <1>3, <1>4 DEF IInv, TypeOK, WaitInv, At, Detour
  <2> QED
    BY <1>3, <2>1, <2>2, <2>3 DEF TypeOK
<1> QED
  BY <1>8, <1>9, <1>10, <1>11 DEF IInv

LEMMA ExitSetStep == ASSUME IInv, NEW c \in Contexts, ExitSet(c) PROVE IInv'
<1> USE DEF ExitSet, Goto, m68k
<1>1. InControl(c)
  BY DEF InControl
<1>2. /\ emu = [at |-> "wait", ctx |-> c] /\ Innermost = c
      /\ Len(calls[task]) = regs[task].sp + 1
  BY <1>1, Control DEF Innermost
<1>3. TypeOK
  BY DEF IInv
<1>4. ctx[c] \in ContextRecords /\ regs[task] \in Registers
  BY <1>3 DEF TypeOK
<1>5. ctx[c].saved.regs = [pc |-> "code", sp |-> Len(calls[task]) - 1]
  <2>1. task \in Tasks /\ Len(calls[task]) \in 1 .. Len(calls[task])
    BY <1>1, <1>3, Control DEF TypeOK
  <2>2. ctx[calls[task][Len(calls[task])]].saved
          = [regs |-> [pc |-> "code", sp |-> Len(calls[task]) - 1], intmask |-> 0]
    BY <2>1 DEF IInv, LevelsInv
  <2> QED
    BY <1>2, <1>4, <2>2 DEF Innermost, ContextRecords, Registers
<1>6. /\ \A d \in Contexts : d # c => ctx'[d] = ctx[d]
      /\ ctx'[c].at # "free" /\ ctx'[c].saved = ctx[c].saved
      /\ ctx'[c] \in ContextRecords
  BY <1>2, <1>3, <1>4 DEF TypeOK, ContextRecords, ContextPlaces
<1>7. /\ \A t \in Tasks : t # task => regs'[t] = regs[t]
      /\ regs'[task] \in Registers /\ regs'[task].sp = regs[task].sp
  <2>1. regs' = [regs EXCEPT ![task] = [ctx[c].saved.regs EXCEPT !.pc = "exit"]]
    OBVIOUS
  <2>2. [ctx[c].saved.regs EXCEPT !.pc = "exit"] = [pc |-> "exit", sp |-> Len(calls[task]) - 1]
    BY <1>5
  <2>3. Len(calls[task]) - 1 = regs[task].sp
    BY <1>2, <1>3, <1>4 DEF Registers
  <2>4. regs' = [regs EXCEPT ![task] = [pc |-> "exit", sp |-> regs[task].sp]]
    BY <2>1, <2>2, <2>3
  <2> HIDE DEF ExitSet
  <2> QED
    BY <1>3, <1>4, <2>4 DEF TypeOK, Registers
<1>8. LevelsInv' /\ DistinctInv' /\ FreeInv'
  BY <1>1, <1>6, <1>7, ThreadKeepsLevels
<1>9. WaitInv'
  BY <1>2, <1>3, <1>4, <1>7 DEF IInv, TypeOK, WaitInv, At, Detour, Innermost, ContextRecords
<1>10. RunInv'
  BY <1>2 DEF RunInv, Running
<1>11. TypeOK'
  <2>1. ctx' \in [Contexts -> ContextRecords]
    BY <1>3, <1>6 DEF TypeOK
  <2>2. regs' \in [Tasks -> Registers]
    BY <1>3, <1>7 DEF TypeOK
  <2>3. trap_mutex' \in 0 .. 1
    BY <1>2, <1>3, <1>4 DEF IInv, TypeOK, WaitInv, At, Detour
  <2> QED
    BY <1>3, <2>1, <2>2, <2>3 DEF TypeOK
<1> QED
  BY <1>8, <1>9, <1>10, <1>11 DEF IInv

LEMMA ExitPostStep == ASSUME IInv, NEW c \in Contexts, ExitPost(c) PROVE IInv'
<1> USE DEF ExitPost, PostToEmu, m68k
<1>1. InControl(c)
  BY DEF InControl
<1>2. /\ emu = [at |-> "wait", ctx |-> c] /\ Innermost = c
      /\ Len(calls[task]) = regs[task].sp + 1
  BY <1>1, Control DEF Innermost
<1>3. TypeOK
  BY DEF IInv
<1>4. ctx[c] \in ContextRecords /\ regs[task] \in Registers
  BY <1>3 DEF TypeOK
<1>6. /\ \A d \in Contexts : d # c => ctx'[d] = ctx[d]
      /\ ctx'[c].at # "free" /\ ctx'[c].saved = ctx[c].saved
      /\ ctx'[c] \in ContextRecords
  BY <1>2, <1>3, <1>4 DEF TypeOK, ContextRecords, ContextPlaces
<1>7. /\ \A t \in Tasks : t # task => regs'[t] = regs[t]
      /\ regs'[task] \in Registers /\ regs'[task].sp = regs[task].sp
  BY <1>2, <1>3, <1>4 DEF TypeOK, Registers
<1>8. LevelsInv' /\ DistinctInv' /\ FreeInv'
  BY <1>1, <1>6, <1>7, ThreadKeepsLevels
<1>9. WaitInv'
  BY <1>2, <1>3, <1>4, <1>7 DEF IInv, TypeOK, WaitInv, At, Detour, Innermost, ContextRecords
<1>10. RunInv'
  BY <1>2 DEF RunInv, Running
<1>11. TypeOK'
  <2>1. ctx' \in [Contexts -> ContextRecords]
    BY <1>3, <1>6 DEF TypeOK
  <2>2. regs' \in [Tasks -> Registers]
    BY <1>3, <1>7 DEF TypeOK
  <2>3. trap_mutex' \in 0 .. 1
    BY <1>2, <1>3, <1>4 DEF IInv, TypeOK, WaitInv, At, Detour
  <2> QED
    BY <1>3, <2>1, <2>2, <2>3 DEF TypeOK
<1> QED
  BY <1>8, <1>9, <1>10, <1>11 DEF IInv

-----------------------------------------------------------------------------
(* The steps of the 68k. *)
LEMMA EmuTypes ==
  ASSUME IInv
  PROVE  /\ TypeOK
         /\ \A t \in Tasks : /\ regs[t].pc \in {"code", "call", "return", "exit"}
                             /\ regs[t].sp \in Nat /\ regs[t] \in Registers
                             /\ calls[t] \in Seq(Contexts) /\ stack[t] \in Seq(Contexts)
                             /\ Len(calls[t]) \in Nat /\ Len(stack[t]) \in Nat
         /\ \A t \in Tasks : \A i \in 1 .. Len(calls[t]) : calls[t][i] \in Contexts
         /\ \A c \in Contexts : ctx[c] \in ContextRecords
  BY DEF IInv, TypeOK, Registers

LEMMA SavedByLevel ==
  ASSUME IInv, NEW t \in Tasks, NEW i \in 1 .. Len(calls[t])
  PROVE  /\ ctx[calls[t][i]].saved.regs = [pc |-> "code", sp |-> i - 1]
         /\ ctx[calls[t][i]].saved.intmask = 0
<1>1. ctx[calls[t][i]].saved = [regs |-> [pc |-> "code", sp |-> i - 1], intmask |-> 0]
  BY DEF IInv, LevelsInv
<1> QED
  BY <1>1

LEMMA SwitchStep == ASSUME IInv, NEW t \in Tasks, Switch(t) PROVE IInv'
<1> USE DEF Switch
<1>1. TypeOK /\ TypeOK'
  BY DEF IInv, TypeOK
<1>2. regs[task].pc \in {"code", "return"} /\ Len(calls[task]) = regs[task].sp /\ trap_mutex = 1
  BY EmuTypes, <1>1 DEF IInv, TypeOK, RunInv, Running, Detour
<1>3. LevelsInv'
  BY <1>2 DEF IInv, LevelsInv, Running
<1>4. DistinctInv' /\ FreeInv'
  BY DEF IInv, DistinctInv, FreeInv
<1>5. RunInv' /\ WaitInv'
  BY <1>2 DEF IInv, LevelsInv, RunInv, WaitInv, Running
<1> QED
  BY <1>1, <1>3, <1>4, <1>5 DEF IInv

LEMMA FunctionReturnsStep == ASSUME IInv, FunctionReturns PROVE IInv'
<1> USE DEF FunctionReturns, RunsCode, Running
<1>1. TypeOK'
  BY DEF IInv, TypeOK, Registers
<1>2. \A t \in Tasks : regs'[t].sp = regs[t].sp /\ (t # task => regs'[t] = regs[t])
  BY DEF IInv, TypeOK, Registers
<1>3. regs'[task].pc = "return"
  BY DEF IInv, TypeOK, Registers
<1>4. LevelsInv'
  BY <1>2, <1>3 DEF IInv, LevelsInv
<1>5. DistinctInv' /\ FreeInv'
  BY DEF IInv, DistinctInv, FreeInv
<1>6. RunInv' /\ WaitInv'
  BY <1>2, <1>3 DEF IInv, TypeOK, RunInv, WaitInv
<1> QED
  BY <1>1, <1>4, <1>5, <1>6 DEF IInv

LEMMA ReturnTrapStep == ASSUME IInv, ReturnTrap PROVE IInv'
<1> USE DEF ReturnTrap, Running, m68k
<1>1. TypeOK'
  BY DEF IInv, TypeOK
<1>2. LevelsInv' /\ DistinctInv' /\ FreeInv'
  BY DEF IInv, LevelsInv, DistinctInv, FreeInv
<1>3. RunInv' /\ WaitInv'
  BY DEF IInv, RunInv, WaitInv, Detour, At, Innermost
<1> QED
  BY <1>1, <1>2, <1>3 DEF IInv

(* A new trap: its context was free, so no task was in it. *)
LEMMA TrapStep == ASSUME IInv, NEW c \in Contexts, Trap(c) PROVE IInv'
<1> USE DEF Trap, RunsCode, Running
<1>1. TypeOK /\ task \in Tasks
  BY DEF IInv, TypeOK
<1>2. Len(calls[task]) = regs[task].sp /\ trap_mutex = 1 /\ intmask = 0
  BY DEF IInv, RunInv
<1>3. /\ \A t \in Tasks : t # task => calls'[t] = calls[t]
      /\ calls'[task] = Append(calls[task], c)
      /\ Len(calls'[task]) = Len(calls[task]) + 1
      /\ calls'[task][Len(calls[task]) + 1] = c
      /\ \A i \in 1 .. Len(calls[task]) : calls'[task][i] = calls[task][i]
  BY <1>1, EmuTypes DEF TypeOK
<1>4. \A t \in Tasks : \A i \in 1 .. Len(calls[t]) : calls[t][i] # c
  BY DEF IInv, LevelsInv
<1>5. /\ \A d \in Contexts : d # c => ctx'[d] = ctx[d]
      /\ ctx'[c] = [at |-> "start", to_trap |-> 1, to_emu |-> 0,
                    saved |-> [regs |-> regs[task], intmask |-> intmask]]
      /\ ctx'[c] \in ContextRecords
  BY <1>1, EmuTypes DEF TypeOK, ContextRecords, ContextPlaces
<1>6. ctx'[c].saved = [regs |-> [pc |-> "code", sp |-> Len(calls[task])], intmask |-> 0]
  <2>1. regs[task] = [pc |-> "code", sp |-> Len(calls[task])]
    BY <1>1, <1>2, EmuTypes DEF Registers
  <2> QED
    BY <1>2, <1>5, <2>1
<1>7. TypeOK'
  <2>1. ctx' \in [Contexts -> ContextRecords]
    BY <1>1, <1>5 DEF TypeOK
  <2>2. calls' \in [Tasks -> Seq(Contexts)]
    BY <1>1, EmuTypes DEF TypeOK
  <2> QED
    BY <1>1, <2>1, <2>2 DEF TypeOK
<1>8. LevelsInv'
  <2> SUFFICES ASSUME NEW t \in Tasks PROVE LevelsInv!(t)'
    BY DEF LevelsInv
  <2>1. LevelsInv!(t)
    BY DEF IInv, LevelsInv
  <2>2. \A i \in 1 .. Len(calls[t]) : ctx'[calls[t][i]] = ctx[calls[t][i]]
    BY <1>4, <1>5, EmuTypes
  <2>3. CASE t # task
    BY <1>2, <1>3, <2>1, <2>2, <2>3, EmuTypes
  <2>4. CASE t = task
    <3>1. \A i \in 1 .. Len(calls'[t]) : i = Len(calls[t]) + 1 \/ i \in 1 .. Len(calls[t])
      BY <1>3, <2>4, EmuTypes
    <3> QED
      BY <1>2, <1>3, <1>5, <1>6, <2>1, <2>2, <2>4, <3>1, EmuTypes
  <2> QED
    BY <2>3, <2>4
<1>9. DistinctInv'
  <2> SUFFICES ASSUME NEW t \in Tasks, NEW u \in Tasks,
                      NEW i \in 1 .. Len(calls'[t]), NEW j \in 1 .. Len(calls'[u]),
                      calls'[t][i] = calls'[u][j]
               PROVE  t = u /\ i = j
    BY DEF DistinctInv
  <2>1. (t = task /\ i = Len(calls[task]) + 1) \/ (i \in 1 .. Len(calls[t]) /\ calls'[t][i] = calls[t][i])
    BY <1>3, EmuTypes
  <2>2. (u = task /\ j = Len(calls[task]) + 1) \/ (j \in 1 .. Len(calls[u]) /\ calls'[u][j] = calls[u][j])
    BY <1>3, EmuTypes
  <2> QED
    BY <1>3, <1>4, <2>1, <2>2 DEF IInv, DistinctInv
<1>10. FreeInv'
  <2> SUFFICES ASSUME NEW d \in Contexts
               PROVE  FreeInv!(d)'
    BY DEF FreeInv
  <2>1. CASE d = c
    BY <1>1, <1>3, <2>1, EmuTypes
  <2>2. CASE d # c
    <3>1. CASE ctx[d].at = "free" /\ ctx[d].to_trap = 0 /\ ctx[d].to_emu = 0
      BY <1>5, <2>2, <3>1
    <3>2. CASE \E t \in Tasks : \E i \in 1 .. Len(calls[t]) : calls[t][i] = d
      <4>1. PICK t \in Tasks : \E i \in 1 .. Len(calls[t]) : calls[t][i] = d
        BY <3>2
      <4>2. PICK i \in 1 .. Len(calls[t]) : calls[t][i] = d
        BY <4>1
      <4>3. i \in 1 .. Len(calls'[t]) /\ calls'[t][i] = d
        BY <1>3, <4>2, EmuTypes
      <4> QED
        BY <4>3
    <3> QED
      BY <3>1, <3>2 DEF IInv, FreeInv
  <2> QED
    BY <2>1, <2>2
<1>11. RunInv' /\ WaitInv'
  BY <1>1, <1>2, <1>3, <1>5, EmuTypes DEF RunInv, WaitInv, At, Innermost
<1> QED
  BY <1>7, <1>8, <1>9, <1>10, <1>11 DEF IInv

LEMMA EmuResumesStep == ASSUME IInv, EmuResumes PROVE IInv'
<1> USE DEF EmuResumes, m68k
<1> DEFINE c == emu.ctx
<1>1. TypeOK /\ task \in Tasks
  BY DEF IInv, TypeOK
<1>2. /\ Len(calls[task]) = regs[task].sp + 1 /\ c = Innermost
      /\ Len(calls[task]) \in 1 .. Len(calls[task]) /\ c \in Contexts
  BY <1>1, EmuTypes DEF IInv, WaitInv, Innermost
<1>3. \/ Detour("call") /\ At(c, "call_wait", 0, 1)
      \/ Detour("exit") /\ At(c, "gone", 0, 1)
  BY DEF IInv, WaitInv, At
<1>4. /\ \A d \in Contexts : d # c => ctx'[d] = ctx[d]
      /\ ctx'[c] = [ctx[c] EXCEPT !.to_emu = 0] /\ ctx'[c] \in ContextRecords
  <2>1. /\ \A d \in Contexts : d # c => ctx'[d] = ctx[d]
        /\ ctx'[c] = [ctx[c] EXCEPT !.to_emu = @ - 1]
    BY <1>1, <1>2 DEF TypeOK
  <2>2. ctx[c].to_emu = 1 /\ ctx[c] \in ContextRecords
    BY <1>2, <1>3, EmuTypes DEF At
  <2>3. ctx'[c] = [ctx[c] EXCEPT !.to_emu = 0]
    BY <2>1, <2>2
  <2> HIDE DEF EmuResumes
  <2> QED
    BY <2>1, <2>2, <2>3 DEF ContextRecords
<1>5. TypeOK'
  BY <1>1, <1>4 DEF TypeOK
<1>6. /\ ctx'[c].at = ctx[c].at /\ ctx'[c].saved = ctx[c].saved
      /\ ctx'[c].to_trap = ctx[c].to_trap /\ ctx'[c].to_emu = 0
  BY <1>2, <1>4, EmuTypes DEF ContextRecords
<1>7. LevelsInv'
  <2> SUFFICES ASSUME NEW t \in Tasks PROVE LevelsInv!(t)'
    BY DEF LevelsInv
  <2>1. LevelsInv!(t)
    BY DEF IInv, LevelsInv
  <2>2. \A i \in 1 .. Len(calls[t]) : /\ ctx'[calls[t][i]].at = ctx[calls[t][i]].at
                                      /\ ctx'[calls[t][i]].saved = ctx[calls[t][i]].saved
    BY <1>4, <1>6, EmuTypes
  <2>3. \A i \in 1 .. regs[t].sp : ctx'[calls[t][i]] = ctx[calls[t][i]]
    <3>1. \A i \in 1 .. regs[t].sp : calls[t][i] # c
      BY <1>1, <1>2, <2>1, EmuTypes DEF IInv, DistinctInv, Innermost
    <3> QED
      BY <1>4, <2>1, <3>1, EmuTypes
  <2>4. regs[t].pc = "return" => regs[t].sp > 0
    BY <1>3, <2>1 DEF Detour
  <2> QED
    BY <2>1, <2>2, <2>3, <2>4
<1>8. DistinctInv' /\ FreeInv'
  <2>1. DistinctInv'
    BY DEF IInv, DistinctInv
  <2>2. ctx[c].at # "free"
    BY <1>3 DEF At
  <2>3. FreeInv'
    BY <1>4, <1>6, <2>2 DEF IInv, FreeInv
  <2> QED
    BY <2>1, <2>3
<1>9. RunInv' /\ WaitInv'
  BY <1>2, <1>3, <1>6 DEF RunInv, WaitInv, Detour, At, Innermost, Running
<1> QED
  BY <1>5, <1>7, <1>8, <1>9 DEF IInv

LEMMA PushPointer ==
  ASSUME NEW S, NEW s \in Seq(S), NEW n \in Nat, n <= Len(s), NEW c \in S,
         NEW r, r = Append(SubSeq(s, 1, n), c)
  PROVE  r \in Seq(S) /\ Len(r) = n + 1 /\ r[n + 1] = c /\ \A i \in 1 .. n : r[i] = s[i]
<1> DEFINE q == SubSeq(s, 1, n)
<1>1. q \in Seq(S) /\ Len(q) = n /\ \A i \in 1 .. n : q[i] = s[i]
  OBVIOUS
<1> HIDE DEF q
<1>2. r = Append(q, c)
  BY DEF q
<1> QED
  BY <1>1, <1>2

(* The call trap: the level of the innermost trap starts to wait. *)
LEMMA CallTrapStep == ASSUME IInv, CallTrap PROVE IInv'
<1> USE DEF CallTrap, Running
<1> DEFINE c == current_context
           sp == regs[task].sp
<1>1. TypeOK /\ task \in Tasks
  BY DEF IInv, TypeOK
<1>2. /\ Len(calls[task]) = sp + 1 /\ c = Innermost /\ trap_mutex = 0
      /\ At(c, "call_wait", 0, 0)
  BY DEF IInv, RunInv, Detour
<1>3. calls[task][sp + 1] = c /\ sp + 1 \in 1 .. Len(calls[task]) /\ c \in Contexts
  BY <1>1, <1>2, EmuTypes DEF Innermost
<1>4. ctx[c].saved.intmask = 0
  <2>1. \A i \in 1 .. Len(calls[task]) : ctx[calls[task][i]].saved.intmask = 0
    BY <1>1, SavedByLevel
  <2> QED
    BY <1>3, <2>1
<1>5. /\ \A t \in Tasks : t # task => regs'[t] = regs[t] /\ stack'[t] = stack[t]
      /\ regs'[task] = [pc |-> "code", sp |-> sp + 1]
      /\ stack'[task] = Append(SubSeq(stack[task], 1, sp), c)
  BY <1>1 DEF TypeOK
<1>6. sp <= Len(stack[task]) /\ sp \in Nat
  BY <1>1, EmuTypes DEF IInv, LevelsInv
<1>8. /\ stack'[task] \in Seq(Contexts) /\ Len(stack'[task]) = sp + 1
      /\ stack'[task][sp + 1] = c
      /\ \A i \in 1 .. sp : stack'[task][i] = stack[task][i]
  <2> HIDE DEF CallTrap
  <2> QED
    BY <1>1, <1>3, <1>5, <1>6, EmuTypes, PushPointer
<1>9. TypeOK'
  <2>1. regs' \in [Tasks -> Registers]
    BY <1>1, <1>5, <1>6 DEF TypeOK, Registers
  <2>2. stack' \in [Tasks -> Seq(Contexts)]
    BY <1>1, <1>5, <1>8 DEF TypeOK
  <2> QED
    BY <1>1, <1>2, <1>4, <2>1, <2>2 DEF TypeOK
<1>10. LevelsInv'
  <2> SUFFICES ASSUME NEW t \in Tasks PROVE LevelsInv!(t)'
    BY DEF LevelsInv
  <2>1. LevelsInv!(t)
    BY DEF IInv, LevelsInv
  <2>2. CASE t # task
    BY <1>5, <2>1, <2>2
  <2>3. CASE t = task
    <3>1. \A i \in 1 .. sp + 1 : i = sp + 1 \/ i \in 1 .. sp
      BY <1>6
    <3>2. UNCHANGED <<ctx, calls, emu, task>>
      OBVIOUS
    <3> HIDE DEF CallTrap
    <3>3. \A i \in 1 .. sp + 1 : /\ stack'[t][i] = calls[t][i]
                                /\ ctx[calls[t][i]].at = "call_wait"
                                /\ ctx[calls[t][i]].to_trap = 0 /\ ctx[calls[t][i]].to_emu = 0
      BY <1>2, <1>3, <1>8, <2>1, <2>3, <3>1 DEF At
    <3> QED
      BY <1>2, <1>5, <1>6, <1>8, <2>1, <2>3, <3>2, <3>3
  <2> QED
    BY <2>2, <2>3
<1>11. DistinctInv' /\ FreeInv'
  BY DEF IInv, DistinctInv, FreeInv
<1>12. RunInv' /\ WaitInv'
  BY <1>2, <1>4, <1>5 DEF RunInv, WaitInv
<1> QED
  BY <1>9, <1>10, <1>11, <1>12 DEF IInv

(* The return trap: the pointer on the stack is the innermost context. *)
LEMMA ReturnLockedStep == ASSUME IInv, ReturnLocked PROVE IInv'
<1> USE DEF ReturnLocked, ReturnTo
<1> DEFINE sp == regs[task].sp
<1>1. TypeOK /\ task \in Tasks
  BY DEF IInv, TypeOK
<1>2. /\ regs[task].pc = "return" /\ Len(calls[task]) = sp /\ trap_mutex = 1 /\ intmask = 0
      /\ sp > 0 /\ sp \in Nat
  BY <1>1, EmuTypes DEF IInv, RunInv, LevelsInv
<1>3. PICK c \in Contexts : /\ c = stack[task][sp]
                            /\ ctx' = [ctx EXCEPT ![c].to_trap = @ + 1]
                            /\ emu' = [at |-> "wait", ctx |-> c]
  OBVIOUS
<1>4. sp \in 1 .. sp /\ c = calls[task][sp] /\ At(c, "call_wait", 0, 0)
  BY <1>1, <1>2, <1>3 DEF IInv, LevelsInv, At
<1>5. /\ \A t \in Tasks : t # task => regs'[t] = regs[t]
      /\ regs'[task] = [pc |-> "return", sp |-> sp - 1]
  BY <1>1, <1>2, EmuTypes DEF TypeOK, Registers
<1>6. /\ \A d \in Contexts : d # c => ctx'[d] = ctx[d]
      /\ ctx'[c] = [ctx[c] EXCEPT !.to_trap = 1] /\ ctx'[c] \in ContextRecords
  <2>1. /\ \A d \in Contexts : d # c => ctx'[d] = ctx[d]
        /\ ctx'[c] = [ctx[c] EXCEPT !.to_trap = @ + 1]
    BY <1>1, <1>3 DEF TypeOK
  <2>2. ctx[c].to_trap = 0 /\ ctx[c] \in ContextRecords
    BY <1>4, EmuTypes DEF At
  <2>3. ctx'[c] = [ctx[c] EXCEPT !.to_trap = 1]
    BY <2>1, <2>2
  <2> HIDE DEF ReturnLocked
  <2> QED
    BY <2>1, <2>2, <2>3 DEF ContextRecords
<1>7. /\ ctx'[c].at = ctx[c].at /\ ctx'[c].saved = ctx[c].saved
      /\ ctx'[c].to_trap = 1 /\ ctx'[c].to_emu = ctx[c].to_emu
  BY <1>6, EmuTypes DEF ContextRecords
<1>8. TypeOK'
  <2>1. regs' \in [Tasks -> Registers]
    BY <1>1, <1>2, <1>5 DEF TypeOK, Registers
  <2>2. ctx' \in [Contexts -> ContextRecords]
    BY <1>1, <1>3, <1>6 DEF TypeOK
  <2> QED
    BY <1>1, <1>2, <1>3, <2>1, <2>2 DEF TypeOK
<1>9. LevelsInv'
  <2> SUFFICES ASSUME NEW t \in Tasks PROVE LevelsInv!(t)'
    BY DEF LevelsInv
  <2>1. LevelsInv!(t)
    BY DEF IInv, LevelsInv
  <2>2. \A i \in 1 .. Len(calls[t]) : /\ ctx'[calls[t][i]].at = ctx[calls[t][i]].at
                                      /\ ctx'[calls[t][i]].saved = ctx[calls[t][i]].saved
    BY <1>6, <1>7, EmuTypes
  <2>5. UNCHANGED <<calls, stack, task>>
    OBVIOUS
  <2> HIDE DEF ReturnLocked
  <2>3. CASE t # task
    <3>1. \A i \in 1 .. Len(calls[t]) : calls[t][i] # c
      BY <1>1, <1>2, <1>4, <2>3 DEF IInv, DistinctInv
    <3>2. \A i \in 1 .. Len(calls[t]) : ctx'[calls[t][i]] = ctx[calls[t][i]]
      BY <1>6, <3>1, EmuTypes
    <3> QED
      BY <1>2, <1>5, <2>1, <2>2, <2>3, <2>5, <3>2
  <2>4. CASE t = task
    <3>1. \A i \in 1 .. sp - 1 : i \in 1 .. Len(calls[t]) /\ calls[t][i] # c
      BY <1>1, <1>2, <1>4, <2>4 DEF IInv, DistinctInv
    <3>2. \A i \in 1 .. sp - 1 : ctx'[calls[t][i]] = ctx[calls[t][i]]
      BY <1>6, <3>1, EmuTypes
    <3>3. regs'[t] = [pc |-> "return", sp |-> sp - 1] /\ emu'.at = "wait"
      BY <1>3, <1>5, <2>4
    <3>4. \A i \in 1 .. sp - 1 : /\ stack'[t][i] = calls'[t][i]
                                /\ ctx'[calls'[t][i]].at = "call_wait"
                                /\ ctx'[calls'[t][i]].to_trap = 0 /\ ctx'[calls'[t][i]].to_emu = 0
      BY <1>2, <2>1, <2>4, <2>5, <3>2
    <3>5. sp - 1 <= Len(stack'[t]) /\ sp - 1 <= Len(calls'[t])
      BY <1>2, <2>1, <2>4, <2>5, EmuTypes
    <3> QED
      BY <2>1, <2>2, <2>4, <2>5, <3>3, <3>4, <3>5
  <2> QED
    BY <2>3, <2>4
<1>10. DistinctInv' /\ FreeInv'
  <2>1. DistinctInv'
    BY DEF IInv, DistinctInv
  <2>2. ctx[c].at # "free"
    BY <1>4 DEF At
  <2>4. UNCHANGED calls
    OBVIOUS
  <2> HIDE DEF ReturnLocked
  <2>3. FreeInv'
    <3> SUFFICES ASSUME NEW d \in Contexts PROVE FreeInv!(d)'
      BY DEF FreeInv
    <3>1. FreeInv!(d)
      BY DEF IInv, FreeInv
    <3>2. CASE d # c
      BY <1>6, <2>4, <3>1, <3>2
    <3>3. CASE d = c
      BY <1>7, <2>2, <2>4, <3>1, <3>3
    <3> QED
      BY <3>2, <3>3
  <2> QED
    BY <2>1, <2>3
<1>11. RunInv' /\ WaitInv'
  BY <1>2, <1>3, <1>4, <1>5, <1>7 DEF RunInv, WaitInv, At, Innermost, Running
<1> QED
  BY <1>8, <1>9, <1>10, <1>11 DEF IInv

(* The exit trap: the innermost trap of the running task is over. *)
LEMMA ExitTrapStep == ASSUME IInv, ExitTrap PROVE IInv'
<1> USE DEF ExitTrap, Running
<1> DEFINE c == current_context
           n == Len(calls[task])
<1>1. TypeOK /\ task \in Tasks
  BY DEF IInv, TypeOK
<1>2. /\ n = regs[task].sp + 1 /\ c = Innermost /\ trap_mutex = 0
      /\ At(c, "gone", 0, 0)
  BY DEF IInv, RunInv, Detour
<1>3. n \in Nat \ {0} /\ n \in 1 .. n /\ calls[task][n] = c /\ c \in Contexts
  BY <1>1, <1>2, EmuTypes DEF Innermost
<1>4. ctx[c].saved.regs = [pc |-> "code", sp |-> n - 1] /\ ctx[c].saved.intmask = 0
  <2>1. \A i \in 1 .. n : /\ ctx[calls[task][i]].saved.intmask = 0
                          /\ ctx[calls[task][i]].saved.regs = [pc |-> "code", sp |-> i - 1]
    BY <1>1, SavedByLevel
  <2> QED
    BY <1>3, <2>1
<1>5. /\ \A d \in Contexts : d # c => ctx'[d] = ctx[d]
      /\ ctx'[c] = Free
      /\ trap_mutex' = 1 /\ intmask' = 0 /\ UNCHANGED <<emu, task, stack, current_context>>
      /\ \A t \in Tasks : t # task => regs'[t] = regs[t] /\ calls'[t] = calls[t]
      /\ regs'[task] = [pc |-> "code", sp |-> n - 1]
      /\ calls'[task] = SubSeq(calls[task], 1, n - 1)
  BY <1>1, <1>2, <1>3, <1>4 DEF TypeOK
<1>6. /\ calls'[task] \in Seq(Contexts) /\ Len(calls'[task]) = n - 1
      /\ \A i \in 1 .. n - 1 : calls'[task][i] = calls[task][i]
  BY <1>1, <1>3, <1>5, EmuTypes
<1>7. \A t \in Tasks : \A i \in 1 .. Len(calls'[t]) :
        i \in 1 .. Len(calls[t]) /\ calls'[t][i] = calls[t][i] /\ calls[t][i] # c
  BY <1>1, <1>3, <1>5, <1>6 DEF IInv, DistinctInv
<1>8. TypeOK'
  <2>1. regs' \in [Tasks -> Registers]
    BY <1>1, <1>3, <1>5 DEF TypeOK, Registers
  <2>2. ctx' \in [Contexts -> ContextRecords]
    BY <1>1, <1>5 DEF TypeOK, Free, Outermost, ContextRecords, ContextPlaces, Registers
  <2>3. calls' \in [Tasks -> Seq(Contexts)]
    BY <1>1, <1>6 DEF TypeOK
  <2> QED
    BY <1>1, <1>5, <2>1, <2>2, <2>3 DEF TypeOK
<1> HIDE DEF ExitTrap
<1>9. LevelsInv'
  <2> SUFFICES ASSUME NEW t \in Tasks PROVE LevelsInv!(t)'
    BY DEF LevelsInv
  <2>1. LevelsInv!(t)
    BY DEF IInv, LevelsInv
  <2>2. \A i \in 1 .. Len(calls'[t]) : ctx'[calls'[t][i]] = ctx[calls[t][i]]
    BY <1>5, <1>7, EmuTypes
  <2>3. CASE t # task
    BY <1>5, <1>7, <2>1, <2>2, <2>3
  <2>4. CASE t = task
    <3>1. \A i \in 1 .. n - 1 : /\ stack'[t][i] = calls'[t][i]
                                /\ ctx'[calls'[t][i]].at = "call_wait"
                                /\ ctx'[calls'[t][i]].to_trap = 0 /\ ctx'[calls'[t][i]].to_emu = 0
      <4> SUFFICES ASSUME NEW i \in 1 .. n - 1
                   PROVE  /\ stack'[t][i] = calls'[t][i]
                          /\ ctx'[calls'[t][i]].at = "call_wait"
                          /\ ctx'[calls'[t][i]].to_trap = 0 /\ ctx'[calls'[t][i]].to_emu = 0
        OBVIOUS
      <4>1. i \in 1 .. regs[t].sp /\ i \in 1 .. Len(calls'[t]) /\ calls'[t][i] = calls[t][i]
        BY <1>1, <1>2, <1>3, <1>6, <2>4, EmuTypes
      <4> QED
        BY <1>5, <2>1, <2>2, <4>1
    <3>2. n - 1 <= Len(stack'[t]) /\ n - 1 <= Len(calls'[t])
      BY <1>2, <1>3, <1>5, <1>6, <2>1, <2>4, EmuTypes
    <3>3. \A i \in 1 .. Len(calls'[t]) :
            /\ ctx'[calls'[t][i]].at # "free"
            /\ ctx'[calls'[t][i]].saved = [regs |-> [pc |-> "code", sp |-> i - 1], intmask |-> 0]
      BY <1>7, <2>1, <2>2
    <3> QED
      BY <1>5, <2>4, <3>1, <3>2, <3>3
  <2> QED
    BY <2>3, <2>4
<1>10. DistinctInv'
  BY <1>7 DEF IInv, DistinctInv
<1>11. FreeInv'
  <2> SUFFICES ASSUME NEW d \in Contexts PROVE FreeInv!(d)'
    BY DEF FreeInv
  <2>1. CASE d = c
    BY <1>5, <2>1 DEF Free
  <2>2. CASE d # c
    <3>1. CASE ctx[d].at = "free" /\ ctx[d].to_trap = 0 /\ ctx[d].to_emu = 0
      BY <1>5, <2>2, <3>1
    <3>2. CASE \E t \in Tasks : \E i \in 1 .. Len(calls[t]) : calls[t][i] = d
      <4>1. PICK t \in Tasks : \E i \in 1 .. Len(calls[t]) : calls[t][i] = d
        BY <3>2
      <4>2. PICK i \in 1 .. Len(calls[t]) : calls[t][i] = d
        BY <4>1
      <4>3. i \in 1 .. Len(calls'[t]) /\ calls'[t][i] = d
        BY <1>1, <1>3, <1>5, <1>6, <2>2, <4>2, EmuTypes
      <4> QED
        BY <4>3
    <3> QED
      BY <3>1, <3>2 DEF IInv, FreeInv
  <2> QED
    BY <2>1, <2>2
<1>12. RunInv' /\ WaitInv'
  <2>1. emu.at = "run"
    BY DEF ExitTrap
  <2> QED
    BY <1>3, <1>5, <1>6, <2>1 DEF RunInv, WaitInv
<1> QED
  BY <1>8, <1>9, <1>10, <1>11, <1>12 DEF IInv

-----------------------------------------------------------------------------
LEMMA StepInv == IInv /\ [Next]_vars => IInv'
<1> SUFFICES ASSUME IInv, [Next]_vars PROVE IInv'
  OBVIOUS
<1>1. CASE \E t \in Tasks : Switch(t)
  BY <1>1, SwitchStep
<1>2. CASE FunctionReturns
  BY <1>2, FunctionReturnsStep
<1>3. CASE \E c \in Contexts : Trap(c)
  BY <1>3, TrapStep
<1>4. CASE \E c \in Contexts : ContextStep(c)
  BY <1>4, StartStep, HandlerCallsStep, HandlerEndsStep, CallLockStep, CallSetStep, CallPostStep,
     CallWaitStep, CallUnlockStep, ExitLockStep, ExitSetStep, ExitPostStep DEF ContextStep
<1>5. CASE EmuStep
  BY <1>5, EmuResumesStep, CallTrapStep, ReturnTrapStep, ReturnLockedStep, ExitTrapStep DEF EmuStep
<1>6. CASE UNCHANGED vars
  BY <1>6 DEF vars, IInv, TypeOK, LevelsInv, DistinctInv, FreeInv, RunInv, WaitInv, At, Detour,
     Innermost, Running
<1> QED
  BY <1>1, <1>2, <1>3, <1>4, <1>5, <1>6 DEF Next

LEMMA Invariant == Spec => []IInv
  BY InitInv, StepInv, PTL DEF Spec

(* Every variable of the trap machinery keeps its type; in particular      *)
(* trap_mutex, which other threads post than wait for it, never exceeds 1. *)
THEOREM TypeCorrect == Spec => []TypeOK
<1>1. IInv => TypeOK
  BY DEF IInv
<1> QED
  BY <1>1, Invariant, PTL

(* Emulator and trap threads are coroutines: one of them has control. *)
THEOREM OneInControlAlways == Spec => []OneInControl
<1>1. IInv => OneInControl
  BY Control DEF OneInControl
<1> QED
  BY <1>1, Invariant, PTL

(* The call and exit traps find the right trap in current_context. *)
THEOREM CurrentIsInnermostAlways == Spec => []CurrentIsInnermost
<1>1. IInv => CurrentIsInnermost
  <2> SUFFICES ASSUME IInv, Running, regs[task].pc \in {"call", "exit"}
               PROVE  calls[task] # <<>> /\ current_context = Innermost
    BY DEF CurrentIsInnermost
  <2>1. task \in Tasks
    BY DEF IInv, TypeOK
  <2>2. Len(calls[task]) > 0 /\ current_context = Innermost
    BY <2>1, EmuTypes DEF IInv, RunInv, Detour
  <2> QED
    BY <2>2
<1> QED
  BY <1>1, Invariant, PTL

(* Every 68k function returns to the handler that called it. *)
THEOREM ReturnsToItsCallerAlways == Spec => []ReturnsToItsCaller
<1>1. IInv => ReturnsToItsCaller
  <2> SUFFICES ASSUME IInv, emu.at = "wait"
               PROVE  calls[task] # <<>> /\ emu.ctx = Innermost
                      /\ regs[task].sp = Len(calls[task]) - 1
    BY DEF ReturnsToItsCaller
  <2>1. task \in Tasks
    BY DEF IInv, TypeOK
  <2>2. Len(calls[task]) = regs[task].sp + 1 /\ emu.ctx = Innermost
    BY DEF IInv, WaitInv
  <2> QED
    BY <2>1, <2>2, EmuTypes
<1> QED
  BY <1>1, Invariant, PTL

(* The mutex is free whenever 68k code can be interrupted. *)
THEOREM InterruptibleMeansUnlockedAlways == Spec => []InterruptibleMeansUnlocked
<1>1. IInv => InterruptibleMeansUnlocked
  <2> SUFFICES ASSUME IInv, Running, intmask = 0 PROVE trap_mutex = 1
    BY DEF InterruptibleMeansUnlocked
  <2>1. regs[task].pc \in {"code", "call", "return", "exit"}
    BY EmuTypes DEF IInv, TypeOK
  <2> QED
    BY <2>1 DEF IInv, RunInv, Detour, Running
<1> QED
  BY <1>1, Invariant, PTL

(* A trap that is over leaves the task as it was at trap entry. *)
THEOREM ResumesAsItTrappedAlways == Spec => ResumesAsItTrapped
<1>1. ASSUME IInv, ExitTrap
      PROVE  regs'[task].sp = Len(calls'[task]) /\ regs'[task].pc = "code" /\ intmask' = 0
  <2>1. IInv'
    BY <1>1, ExitTrapStep
  <2> USE DEF ExitTrap, Running
  <2>2. task \in Tasks /\ task' = task /\ emu'.at = "run"
    BY <1>1 DEF IInv, TypeOK
  <2>3. current_context = Innermost /\ Len(calls[task]) \in 1 .. Len(calls[task])
    BY <1>1, <2>2, EmuTypes DEF IInv, RunInv, Detour
  <2>4. ctx[Innermost].saved.regs = [pc |-> "code", sp |-> Len(calls[task]) - 1]
    BY <1>1, <2>2, <2>3, SavedByLevel DEF Innermost
  <2>5. regs'[task] = [pc |-> "code", sp |-> Len(calls[task]) - 1]
    BY <1>1, <2>2, <2>3, <2>4 DEF IInv, TypeOK
  <2> HIDE DEF ExitTrap
  <2> QED
    BY <2>1, <2>2, <2>5 DEF IInv, RunInv
<1>2. IInv /\ [Next]_vars =>
        [ExitTrap => regs'[task].sp = Len(calls'[task]) /\ regs'[task].pc = "code" /\ intmask' = 0]_vars
  BY <1>1
<1> QED
  BY <1>2, Invariant, PTL DEF Spec, ResumesAsItTrapped

-----------------------------------------------------------------------------
(* What ends a wait.  The thread of a trap can take its next step ... *)
ThreadCanStep(c) ==
  \/ ctx[c].at \in {"run", "call_set", "call_post", "call_unlock", "exit_set", "exit_post"}
  \/ ctx[c].at \in {"start", "call_wait"} /\ ctx[c].to_trap > 0
  \/ ctx[c].at \in {"call_lock", "exit_lock"} /\ trap_mutex > 0

(* ... or the 68k owes it one: the function it called is under way on some *)
(* task, or the 68k is at, or on its way to, its "call" or "exit" trap.    *)
FunctionUnderWay(c) == \E t \in Tasks : \E i \in 1 .. regs[t].sp : stack[t][i] = c
Detoured(c) == regs[task].pc \in {"call", "exit"} /\ current_context = c

NobodyWaitsInVain ==
  /\ emu.at = "wait" => ctx[emu.ctx].to_emu > 0 \/ ThreadCanStep(emu.ctx)
  /\ emu.at = "return_lock" => trap_mutex > 0
  /\ Running /\ regs[task].pc = "exit" => ctx[current_context].at = "gone"
  /\ \A c \in Contexts :
       ctx[c].at # "free" => ThreadCanStep(c) \/ FunctionUnderWay(c) \/ Detoured(c)

(* The emulator and the trap threads never deadlock: whoever waits for a   *)
(* semaphore (trap_HandleExtendedTrap, the return trap, the join of the    *)
(* exit trap, trap_Call68k, trap_thread) has been posted, or the one who   *)
(* will post can step, or a called function has yet to return.  With the   *)
(* run's fairness this is why TrapsEnd holds.                              *)
THEOREM NobodyWaitsInVainAlways == Spec => []NobodyWaitsInVain
<1>1. IInv => NobodyWaitsInVain
  <2> SUFFICES ASSUME IInv PROVE NobodyWaitsInVain
    OBVIOUS
  <2>1. /\ task \in Tasks /\ emu.at \in {"run", "wait", "return_lock"}
        /\ regs[task].pc \in {"code", "call", "return", "exit"}
        /\ \A t \in Tasks : Len(calls[t]) \in Nat /\ regs[t].sp \in Nat
    BY EmuTypes DEF IInv, TypeOK, Registers
  <2>2. emu.at = "wait" => ctx[emu.ctx].to_emu > 0 \/ ThreadCanStep(emu.ctx)
    BY DEF IInv, WaitInv, At, ThreadCanStep
  <2>3. emu.at = "return_lock" => trap_mutex > 0
    BY <2>1 DEF IInv, RunInv
  <2>4. Running /\ regs[task].pc = "exit" => ctx[current_context].at = "gone"
    BY DEF IInv, RunInv, Detour, At
  <2>5. ASSUME NEW c \in Contexts, ctx[c].at # "free"
        PROVE  ThreadCanStep(c) \/ FunctionUnderWay(c) \/ Detoured(c)
    <3>1. PICK t \in Tasks : \E i \in 1 .. Len(calls[t]) : calls[t][i] = c
      BY <2>5 DEF IInv, FreeInv
    <3>2. PICK i \in 1 .. Len(calls[t]) : calls[t][i] = c
      BY <3>1
    <3>3. CASE i <= regs[t].sp
      BY <2>1, <3>2, <3>3 DEF IInv, LevelsInv, FunctionUnderWay
    <3>4. CASE i > regs[t].sp
      <4>1. t = task
        BY <2>1, <3>2, <3>4 DEF IInv, LevelsInv
      <4>2. Len(calls[task]) = regs[task].sp + 1
        BY <2>1, <3>2, <3>4, <4>1 DEF IInv, RunInv, WaitInv, Running
      <4>3. Innermost = c
        BY <2>1, <3>2, <3>4, <4>1, <4>2 DEF Innermost
      <4>4. CASE emu.at = "wait"
        BY <4>3, <4>4 DEF IInv, WaitInv, At, Detour, ThreadCanStep, Detoured
      <4>5. CASE emu.at # "wait"
        BY <2>1, <4>2, <4>3, <4>5 DEF IInv, RunInv, Running, Detour, Detoured
      <4> QED
        BY <4>4, <4>5
    <3> QED
      BY <2>1, <3>2, <3>3, <3>4
  <2> QED
    BY <2>2, <2>3, <2>4, <2>5 DEF NobodyWaitsInVain
<1> QED
  BY <1>1, Invariant, PTL
=============================================================================
