-------------------------- MODULE ThreadedCpu_proofs --------------------------
(***************************************************************************)
(* Proofs about the threaded CPU, for any number of starts, accesses and   *)
(* interrupts and any bound of the semaphores above 1: the type invariant, *)
(* that an access that begins with nothing left over is executed once and  *)
(* gets its own answer, and that nobody waits for what nobody is left to   *)
(* do.                                                                     *)
(***************************************************************************)
EXTENDS ThreadedCpu, TLAPS

CountInv ==
  count \in [starts : Nat, accesses : 0 .. MaxAccesses, irqs : Nat, resets : 0 .. 1]

(* The way of a clean access: the CPU's place, the request and its post,   *)
(* the emulator thread's place, the answer and its post.  At any time      *)
(* there is one of: the post of the request, the emulator thread that took *)
(* it, the post of the answer.                                             *)
Executed ==
  cpu.done = 1 /\ (cpu.kind = "read" => request.val = cpu.access)
Asking ==
  /\ CpuAt("mode") /\ MainAt("loop") /\ cpu_out_sema = 0 /\ cpu_in_sema = 0
  /\ request.mode = cpu.kind /\ cpu.done = 0
Asked ==
  /\ CpuAt("wait") /\ MainAt("loop") /\ cpu_out_sema = 1 /\ cpu_in_sema = 0
  /\ request.mode = cpu.kind /\ request.addr = cpu.access /\ cpu.done = 0
Served ==
  /\ CpuAt("wait") /\ MainAt("serve") /\ cpu_out_sema = 0 /\ cpu_in_sema = 0
  /\ main.mode = cpu.kind /\ main.addr = cpu.access /\ cpu.done = 0
Answering ==
  CpuAt("wait") /\ MainAt("answers") /\ cpu_out_sema = 0 /\ cpu_in_sema = 0 /\ Executed
Answered ==
  CpuAt("wait") /\ MainAt("loop") /\ cpu_out_sema = 0 /\ cpu_in_sema = 1 /\ Executed
Returning ==
  CpuAt("answered") /\ MainAt("loop") /\ cpu_out_sema = 0 /\ cpu_in_sema = 0 /\ Executed

(* A run that ends while the access is under way answers it as it likes,   *)
(* and it cannot begin anew before the CPU thread has gone.                *)
CleanInv ==
  cpu.clean =>
    /\ cpu.at \in {"mode", "wait", "answered"} /\ cpu.kind \in {"read", "ack"}
    /\ \/ MainAt("ending")
       \/ /\ ~ cpu_thread_reset
          /\ Asking \/ Asked \/ Served \/ Answering \/ Answered \/ Returning

IInv == TypeOK /\ CountInv /\ CleanInv
-----------------------------------------------------------------------------
LEMMA PlusType == \A n \in Semaphore : Plus(n) \in Semaphore
  BY CpuAssumption DEF Semaphore, Plus

LEMMA Initial == Init => IInv
<1>1. ASSUME Init PROVE TypeOK
  <2> USE <1>1, CpuAssumption DEF Init
  <2>6. 0 \in Semaphore
    BY DEF Semaphore
  <2>1. /\ cpu_thread_ilvl \in {0, 1} /\ cpu_thread_reset \in BOOLEAN
        /\ spcflags \subseteq {"MODE_CHANGE", "DOINT", "STOP"}
        /\ intmask \in {0, 1} /\ intreq \in BOOLEAN
    OBVIOUS
  <2>2. cpu_thread_active = (cpu.at \notin {"off", "begin"})
    BY DEF NoAccess
  <2>3. request \in [mode : Mode, addr : 0 .. MaxAccesses, val : 0 .. MaxAccesses]
    BY DEF Mode
  <2>4. cpu \in [at : Place, access : 0 .. MaxAccesses, kind : Mode, clean : BOOLEAN, done : 0 .. 2]
    BY DEF NoAccess, Place, Mode
  <2>5. main \in [at : {"idle", "starting", "loop", "serve", "answers", "ending"}, mode : Mode,
                  addr : 0 .. MaxAccesses]
    BY DEF NoRequest, Mode
  <2> QED
    BY <2>6, <2>1, <2>2, <2>3, <2>4, <2>5 DEF TypeOK
<1>2. ASSUME Init PROVE CountInv /\ CleanInv
  BY <1>2, CpuAssumption DEF Init, CountInv, CleanInv, NoAccess
<1> QED
  BY <1>1, <1>2 DEF IInv

LEMMA TypeStep ==
  ASSUME TypeOK, CountInv, [Next]_vars
  PROVE  TypeOK' /\ CountInv'
<1> USE CpuAssumption DEF TypeOK, CountInv, Place, Mode, CpuAt, MainAt, semas, shared
<1>1. CASE CpuBegins
  BY <1>1 DEF CpuBegins, CpuGoes
<1>2. CASE \E k \in {"read", "ack"} : AccessMode(k)
  BY <1>2 DEF AccessMode, Clean
<1>3. CASE AccessPost
  BY <1>3, PlusType DEF AccessPost, CpuGoes
<1>4. CASE AccessWait
  BY <1>4 DEF Semaphore, AccessWait, CpuGoes
<1>5. CASE AccessReturns
  <2>1. cpu' = [at |-> "check", access |-> 0, kind |-> "none", clean |-> FALSE, done |-> 0]
    BY <1>5 DEF AccessReturns, NoAccess
  <2>2. cpu.at = "answered" /\ UNCHANGED <<semas, shared, intmask, intreq, main, count>>
    BY <1>5 DEF AccessReturns
  <2> QED
    BY <2>1, <2>2
<1>6. CASE Instruction
  BY <1>6 DEF Instruction, CpuGoes
<1>7. CASE Stop
  BY <1>7 DEF Stop, CpuGoes
<1>8. CASE LowerMask
  BY <1>8 DEF LowerMask, CpuGoes
<1>9. CASE ConfigTrap
  BY <1>9 DEF ConfigTrap, CpuGoes
<1>10. CASE CpuReset
  BY <1>10, PlusType DEF CpuReset, CpuGoes
<1>11. CASE CpuResetWait
  BY <1>11 DEF Semaphore, CpuResetWait, CpuGoes
<1>12. CASE CpuEnds
  BY <1>12 DEF CpuEnds, CpuGoes
<1>13. CASE Interrupt
  BY <1>13 DEF Interrupt, CpuGoes
<1>14. CASE CheckOver
  BY <1>14 DEF CheckOver, CpuGoes
<1>15. CASE WakeUp
  BY <1>15 DEF Semaphore, WakeUp, CpuGoes
<1>16. CASE MainStarts
  <2>1. /\ cpu_in_sema' \in Semaphore /\ cpu_out_sema' \in Semaphore
        /\ cpu_wakeup_sema' \in Semaphore
    BY <1>16, PlusType DEF MainStarts
  <2>2. CountInv'
    BY <1>16 DEF MainStarts
  <2>3. /\ cpu' = [cpu EXCEPT !.at = "begin"] /\ main' = [main EXCEPT !.at = "starting"]
        /\ cpu_thread_active' = FALSE /\ spcflags' = spcflags \ {"MODE_CHANGE"}
        /\ UNCHANGED <<request, cpu_thread_ilvl, cpu_thread_reset, intmask, intreq>>
    BY <1>16 DEF MainStarts, CpuGoes, MainGoes
  <2>4. /\ request' \in [mode : Mode, addr : 0 .. MaxAccesses, val : 0 .. MaxAccesses]
        /\ (cpu_thread_ilvl \in {0, 1})' /\ (cpu_thread_reset \in BOOLEAN)'
        /\ (intmask \in {0, 1})' /\ (intreq \in BOOLEAN)'
        /\ (spcflags \subseteq {"MODE_CHANGE", "DOINT", "STOP"})'
    BY <2>3
  <2>5. /\ cpu' \in [at : Place, access : 0 .. MaxAccesses, kind : Mode,
                    clean : BOOLEAN, done : 0 .. 2]
        /\ (cpu_thread_active = (cpu.at \notin {"off", "begin"}))'
    <3>1. cpu \in [at : Place, access : 0 .. MaxAccesses, kind : Mode,
                   clean : BOOLEAN, done : 0 .. 2]
      OBVIOUS
    <3> QED
      BY <2>3, <3>1
  <2>6. main' \in [at : {"idle", "starting", "loop", "serve", "answers", "ending"}, mode : Mode,
                   addr : 0 .. MaxAccesses]
    <3>1. main \in [at : {"idle", "starting", "loop", "serve", "answers", "ending"}, mode : Mode,
                    addr : 0 .. MaxAccesses]
      OBVIOUS
    <3> QED
      BY <2>3, <3>1
  <2> QED
    BY <2>1, <2>2, <2>4, <2>5, <2>6
<1>17. CASE MainSeesActive
  <2>1. /\ main' = [main EXCEPT !.at = "loop"]
        /\ UNCHANGED <<semas, shared, intmask, intreq, cpu, count>>
    BY <1>17 DEF MainSeesActive, MainGoes
  <2>2. main' \in [at : {"idle", "starting", "loop", "serve", "answers", "ending"}, mode : Mode,
                   addr : 0 .. MaxAccesses]
    <3>1. main \in [at : {"idle", "starting", "loop", "serve", "answers", "ending"}, mode : Mode,
                    addr : 0 .. MaxAccesses]
      OBVIOUS
    <3> QED
      BY <2>1, <3>1
  <2> QED
    BY <2>1, <2>2
<1>18. CASE ServeTakes
  BY <1>18 DEF Semaphore, ServeTakes
<1>19. CASE ServeExecutes
  BY <1>19 DEF ServeExecutes, MainGoes
<1>20. CASE ServeAnswers
  BY <1>20, PlusType DEF ServeAnswers, Loops, NoRequest
<1>21. CASE ServeLogs
  BY <1>21 DEF ServeLogs, Loops, NoRequest
<1>22. CASE ServeReset
  <2>1. /\ cpu_in_sema' \in Semaphore /\ cpu_out_sema' \in Semaphore
        /\ cpu_wakeup_sema' \in Semaphore
    BY <1>22, PlusType DEF ServeReset
  <2>2. CountInv'
    BY <1>22 DEF ServeReset
  <2>3. /\ request' \in [mode : Mode, addr : 0 .. MaxAccesses, val : 0 .. MaxAccesses]
        /\ (cpu_thread_ilvl \in {0, 1})' /\ (cpu_thread_reset \in BOOLEAN)'
        /\ (cpu_thread_active = (cpu.at \notin {"off", "begin"}))'
        /\ (intmask \in {0, 1})' /\ (intreq \in BOOLEAN)'
    BY <1>22 DEF ServeReset
  <2>4. (spcflags \subseteq {"MODE_CHANGE", "DOINT", "STOP"})'
    BY <1>22 DEF ServeReset
  <2>5. /\ cpu' \in [at : Place, access : 0 .. MaxAccesses, kind : Mode,
                    clean : BOOLEAN, done : 0 .. 2]
        /\ main' \in [at : {"idle", "starting", "loop", "serve", "answers", "ending"}, mode : Mode,
                     addr : 0 .. MaxAccesses]
    BY <1>22 DEF ServeReset
  <2> QED
    BY <2>1, <2>2, <2>3, <2>4, <2>5
<1>23. CASE ChipsInterrupt
  BY <1>23 DEF ChipsInterrupt
<1>24. CASE ChipsEnd
  BY <1>24 DEF ChipsEnd
<1>25. CASE PassInterrupt
  BY <1>25, PlusType DEF PassInterrupt
<1>26. CASE MainLeaves
  BY <1>26 DEF MainLeaves, MainGoes
<1>27. CASE EndPosts
  <2>1. /\ cpu_in_sema' \in Semaphore /\ cpu_out_sema' \in Semaphore
        /\ cpu_wakeup_sema' \in Semaphore
    BY <1>27, PlusType DEF EndPosts
  <2>2. CountInv'
    BY <1>27 DEF EndPosts
  <2>3. /\ request' \in [mode : Mode, addr : 0 .. MaxAccesses, val : 0 .. MaxAccesses]
        /\ (cpu_thread_ilvl \in {0, 1})' /\ (cpu_thread_reset \in BOOLEAN)'
        /\ (cpu_thread_active = (cpu.at \notin {"off", "begin"}))'
        /\ (intmask \in {0, 1})' /\ (intreq \in BOOLEAN)'
    BY <1>27 DEF EndPosts
  <2>4. (spcflags \subseteq {"MODE_CHANGE", "DOINT", "STOP"})'
    BY <1>27 DEF EndPosts
  <2>5. /\ cpu' \in [at : Place, access : 0 .. MaxAccesses, kind : Mode,
                    clean : BOOLEAN, done : 0 .. 2]
        /\ main' \in [at : {"idle", "starting", "loop", "serve", "answers", "ending"}, mode : Mode,
                     addr : 0 .. MaxAccesses]
    BY <1>27 DEF EndPosts
  <2> QED
    BY <2>1, <2>2, <2>3, <2>4, <2>5
<1>28. CASE MainEnds
  BY <1>28 DEF MainEnds, MainGoes
<1>29. CASE UNCHANGED vars
  BY <1>29 DEF vars
<1> QED
  BY <1>1, <1>2, <1>3, <1>4, <1>5, <1>6, <1>7, <1>8, <1>9, <1>10, <1>11, <1>12, <1>13, <1>14, <1>15,
     <1>16, <1>17, <1>18, <1>19, <1>20, <1>21, <1>22, <1>23, <1>24, <1>25, <1>26, <1>27, <1>28, <1>29
     DEF Next, CpuStep, MainStep, MainServes

LEMMA CleanStep ==
  ASSUME IInv, [Next]_vars
  PROVE  CleanInv'
<1> USE CpuAssumption DEF IInv, TypeOK, CleanInv, Executed, Asking, Asked, Served, Answering,
    Answered, Returning, CpuAt, MainAt, Semaphore, semas, shared
<1>1. CASE CpuBegins
  BY <1>1 DEF CpuBegins, CpuGoes
<1>2. CASE \E k \in {"read", "ack"} : AccessMode(k)
  BY <1>2 DEF AccessMode, Clean
<1>3. CASE AccessPost
  BY <1>3 DEF AccessPost, Plus, CpuGoes
<1>4. CASE AccessWait
  BY <1>4 DEF AccessWait, CpuGoes
<1>5. CASE AccessReturns
  BY <1>5 DEF AccessReturns, NoAccess
<1>6. CASE Instruction
  BY <1>6 DEF Instruction, CpuGoes
<1>7. CASE Stop
  BY <1>7 DEF Stop, CpuGoes
<1>8. CASE LowerMask
  BY <1>8 DEF LowerMask, CpuGoes
<1>9. CASE ConfigTrap
  BY <1>9 DEF ConfigTrap, CpuGoes
<1>10. CASE CpuReset
  BY <1>10 DEF CpuReset, Plus, CpuGoes
<1>11. CASE CpuResetWait
  BY <1>11 DEF CpuResetWait, CpuGoes
<1>12. CASE CpuEnds
  BY <1>12 DEF CpuEnds, CpuGoes
<1>13. CASE Interrupt
  BY <1>13 DEF Interrupt, CpuGoes
<1>14. CASE CheckOver
  BY <1>14 DEF CheckOver, CpuGoes
<1>15. CASE WakeUp
  BY <1>15 DEF WakeUp, CpuGoes
<1>16. CASE MainStarts
  BY <1>16 DEF MainStarts, Plus, CpuGoes, MainGoes
<1>17. CASE MainSeesActive
  BY <1>17 DEF MainSeesActive, MainGoes
<1>18. CASE ServeTakes
  BY <1>18 DEF ServeTakes
<1>19. CASE ServeExecutes
  BY <1>19 DEF ServeExecutes, MainGoes
<1>20. CASE ServeAnswers
  BY <1>20 DEF ServeAnswers, Plus, Loops, NoRequest
<1>21. CASE ServeLogs
  BY <1>21 DEF ServeLogs, Loops, NoRequest
<1>22. CASE ServeReset
  BY <1>22 DEF ServeReset, Plus
<1>23. CASE ChipsInterrupt
  BY <1>23 DEF ChipsInterrupt
<1>24. CASE ChipsEnd
  BY <1>24 DEF ChipsEnd
<1>25. CASE PassInterrupt
  BY <1>25 DEF PassInterrupt, Plus
<1>26. CASE MainLeaves
  BY <1>26 DEF MainLeaves, MainGoes
<1>27. CASE EndPosts
  BY <1>27 DEF EndPosts, Plus
<1>28. CASE MainEnds
  BY <1>28 DEF MainEnds, MainGoes
<1>29. CASE UNCHANGED vars
  BY <1>29 DEF vars
<1> QED
  BY <1>1, <1>2, <1>3, <1>4, <1>5, <1>6, <1>7, <1>8, <1>9, <1>10, <1>11, <1>12, <1>13, <1>14, <1>15,
     <1>16, <1>17, <1>18, <1>19, <1>20, <1>21, <1>22, <1>23, <1>24, <1>25, <1>26, <1>27, <1>28, <1>29
     DEF Next, CpuStep, MainStep, MainServes

LEMMA Invariance == Spec => []IInv
<1>1. IInv /\ [Next]_vars => IInv'
  BY TypeStep, CleanStep DEF IInv
<1> QED
  BY Initial, <1>1, PTL DEF Spec

-----------------------------------------------------------------------------
(* The types, and that cpu_thread_active is set exactly while the CPU      *)
(* thread runs the program.                                                *)
THEOREM TypeCorrect == Spec => []TypeOK
<1>1. IInv => TypeOK
  BY DEF IInv
<1> QED
  BY Invariance, <1>1, PTL

(* An access that begins with both semaphores at 0 is executed once before *)
(* it returns, and a read returns its own answer, whatever the interrupts, *)
(* RESETs, ends and starts of the run in between.                          *)
THEOREM CleanAccessAlways == Spec => []CleanAccess
<1>1. IInv => CleanAccess
  BY DEF IInv, CleanInv, CleanAccess, CpuAt, MainAt, Asking, Asked, Served, Answering, Answered,
         Returning, Executed
<1> QED
  BY Invariance, <1>1, PTL

-----------------------------------------------------------------------------
(* Nobody waits in vain.                                                   *)
(*                                                                         *)
(* Neither thread is left alone: while the emulator thread is out of       *)
(* run_cpu_thread there is no CPU thread, a CPU thread begins only while   *)
(* it is waited for, and one that has ended was told to, which the         *)
(* emulator thread then sees.                                              *)
BothInv ==
  /\ MainAt("idle") => CpuAt("off")
  /\ CpuAt("begin") => MainAt("starting")
  /\ CpuAt("off") /\ ~ MainAt("idle") => "MODE_CHANGE" \in spcflags

(* What the CPU thread waits for is on its way: the mode stands from the   *)
(* request to the answer, and the request's post, the emulator thread that *)
(* took it for one, or the answer's post is there; a post that was left    *)
(* over may stand for any of them.                                         *)
Requested == request.mode \in {"read", "ack"}
RequestInv ==
  /\ CpuAt("mode") \/ CpuAt("wait") => Requested
  /\ CpuAt("wait") =>
       \/ cpu_out_sema > 0 \/ cpu_in_sema > 0
       \/ MainAt("serve") /\ main.mode \in {"read", "ack"}
       \/ MainAt("answers") \/ MainAt("ending")
  /\ CpuAt("reset") => cpu_thread_reset \/ cpu_in_sema > 0 \/ MainAt("ending")

(* An interrupt is with the chips, with DOINT still to be passed on, or it *)
(* was passed on; and the level that was passed on to a CPU asleep in STOP *)
(* woke it.                                                                *)
InterruptInv ==
  /\ intreq => "DOINT" \in spcflags \/ cpu_thread_ilvl = 1
  /\ CpuAt("stopped") /\ cpu_thread_ilvl > intmask => cpu_wakeup_sema > 0

WaitInv == BothInv /\ RequestInv /\ InterruptInv
-----------------------------------------------------------------------------
(* A semaphore that was posted is above 0. *)
LEMMA PlusGrows == \A n \in Semaphore : Plus(n) > 0 /\ Plus(n) \in Semaphore
  BY CpuAssumption DEF Semaphore, Plus

(* The three parts, action by action. *)
LEMMA BothStep ==
  ASSUME TypeOK, BothInv, [Next]_vars
  PROVE  BothInv'
<1> USE CpuAssumption, PlusGrows DEF TypeOK, BothInv, CpuAt, MainAt, Place, semas, shared
<1>1. CASE CpuBegins
  BY <1>1 DEF CpuBegins, CpuGoes
<1>2. CASE \E k \in {"read", "ack"} : AccessMode(k)
  BY <1>2 DEF AccessMode
<1>3. CASE AccessPost
  BY <1>3 DEF AccessPost, CpuGoes
<1>4. CASE AccessWait
  BY <1>4 DEF AccessWait, CpuGoes
<1>5. CASE AccessReturns
  BY <1>5 DEF AccessReturns, NoAccess
<1>6. CASE Instruction
  BY <1>6 DEF Instruction, CpuGoes
<1>7. CASE Stop
  BY <1>7 DEF Stop, CpuGoes
<1>8. CASE LowerMask
  BY <1>8 DEF LowerMask, CpuGoes
<1>9. CASE ConfigTrap
  BY <1>9 DEF ConfigTrap, CpuGoes
<1>10. CASE CpuReset
  BY <1>10 DEF CpuReset, CpuGoes
<1>11. CASE CpuResetWait
  BY <1>11 DEF CpuResetWait, CpuGoes
<1>12. CASE CpuEnds
  BY <1>12 DEF CpuEnds, CpuGoes
<1>13. CASE Interrupt
  BY <1>13 DEF Interrupt, CpuGoes
<1>14. CASE CheckOver
  BY <1>14 DEF CheckOver, CpuGoes
<1>15. CASE WakeUp
  BY <1>15 DEF WakeUp, CpuGoes
<1>16. CASE MainStarts
  BY <1>16 DEF MainStarts, CpuGoes, MainGoes
<1>17. CASE MainSeesActive
  BY <1>17 DEF MainSeesActive, MainGoes
<1>18. CASE ServeTakes
  BY <1>18 DEF ServeTakes
<1>19. CASE ServeExecutes
  BY <1>19 DEF ServeExecutes, MainGoes
<1>20. CASE ServeAnswers
  BY <1>20 DEF ServeAnswers, Loops, NoRequest
<1>21. CASE ServeLogs
  BY <1>21 DEF ServeLogs, Loops, NoRequest
<1>22. CASE ServeReset
  BY <1>22 DEF ServeReset
<1>23. CASE ChipsInterrupt
  BY <1>23 DEF ChipsInterrupt
<1>24. CASE ChipsEnd
  BY <1>24 DEF ChipsEnd
<1>25. CASE PassInterrupt
  BY <1>25 DEF PassInterrupt
<1>26. CASE MainLeaves
  BY <1>26 DEF MainLeaves, MainGoes
<1>27. CASE EndPosts
  BY <1>27 DEF EndPosts
<1>28. CASE MainEnds
  BY <1>28 DEF MainEnds, MainGoes
<1>29. CASE UNCHANGED vars
  BY <1>29 DEF vars
<1> QED
  BY <1>1, <1>2, <1>3, <1>4, <1>5, <1>6, <1>7, <1>8, <1>9, <1>10, <1>11, <1>12, <1>13, <1>14, <1>15, <1>16, <1>17, <1>18, <1>19, <1>20, <1>21, <1>22, <1>23, <1>24, <1>25, <1>26, <1>27, <1>28, <1>29
     DEF Next, CpuStep, MainStep, MainServes

LEMMA RequestStep ==
  ASSUME TypeOK, BothInv, RequestInv, [Next]_vars
  PROVE  RequestInv'
<1> USE CpuAssumption, PlusGrows DEF TypeOK, BothInv, RequestInv, Requested, Semaphore, CpuAt, MainAt, Place, Mode, semas, shared
<1>1. CASE CpuBegins
  BY <1>1 DEF CpuBegins, CpuGoes
<1>2. CASE \E k \in {"read", "ack"} : AccessMode(k)
  BY <1>2 DEF AccessMode
<1>3. CASE AccessPost
  BY <1>3 DEF AccessPost, CpuGoes
<1>4. CASE AccessWait
  BY <1>4 DEF AccessWait, CpuGoes
<1>5. CASE AccessReturns
  BY <1>5 DEF AccessReturns, NoAccess
<1>6. CASE Instruction
  BY <1>6 DEF Instruction, CpuGoes
<1>7. CASE Stop
  BY <1>7 DEF Stop, CpuGoes
<1>8. CASE LowerMask
  BY <1>8 DEF LowerMask, CpuGoes
<1>9. CASE ConfigTrap
  BY <1>9 DEF ConfigTrap, CpuGoes
<1>10. CASE CpuReset
  BY <1>10 DEF CpuReset, CpuGoes
<1>11. CASE CpuResetWait
  BY <1>11 DEF CpuResetWait, CpuGoes
<1>12. CASE CpuEnds
  BY <1>12 DEF CpuEnds, CpuGoes
<1>13. CASE Interrupt
  BY <1>13 DEF Interrupt, CpuGoes
<1>14. CASE CheckOver
  BY <1>14 DEF CheckOver, CpuGoes
<1>15. CASE WakeUp
  BY <1>15 DEF WakeUp, CpuGoes
<1>16. CASE MainStarts
  BY <1>16 DEF MainStarts, CpuGoes, MainGoes
<1>17. CASE MainSeesActive
  BY <1>17 DEF MainSeesActive, MainGoes
<1>18. CASE ServeTakes
  BY <1>18 DEF ServeTakes
<1>19. CASE ServeExecutes
  BY <1>19 DEF ServeExecutes, MainGoes
<1>20. CASE ServeAnswers
  BY <1>20 DEF ServeAnswers, Loops, NoRequest
<1>21. CASE ServeLogs
  BY <1>21 DEF ServeLogs, Loops, NoRequest
<1>22. CASE ServeReset
  BY <1>22 DEF ServeReset
<1>23. CASE ChipsInterrupt
  BY <1>23 DEF ChipsInterrupt
<1>24. CASE ChipsEnd
  BY <1>24 DEF ChipsEnd
<1>25. CASE PassInterrupt
  BY <1>25 DEF PassInterrupt
<1>26. CASE MainLeaves
  BY <1>26 DEF MainLeaves, MainGoes
<1>27. CASE EndPosts
  BY <1>27 DEF EndPosts
<1>28. CASE MainEnds
  BY <1>28 DEF MainEnds, MainGoes
<1>29. CASE UNCHANGED vars
  BY <1>29 DEF vars
<1> QED
  BY <1>1, <1>2, <1>3, <1>4, <1>5, <1>6, <1>7, <1>8, <1>9, <1>10, <1>11, <1>12, <1>13, <1>14, <1>15, <1>16, <1>17, <1>18, <1>19, <1>20, <1>21, <1>22, <1>23, <1>24, <1>25, <1>26, <1>27, <1>28, <1>29
     DEF Next, CpuStep, MainStep, MainServes

LEMMA InterruptStep ==
  ASSUME TypeOK, InterruptInv, [Next]_vars
  PROVE  InterruptInv'
<1> USE CpuAssumption, PlusGrows DEF TypeOK, InterruptInv, Semaphore, CpuAt, MainAt, Place, semas, shared
<1>1. CASE CpuBegins
  BY <1>1 DEF CpuBegins, CpuGoes
<1>2. CASE \E k \in {"read", "ack"} : AccessMode(k)
  BY <1>2 DEF AccessMode
<1>3. CASE AccessPost
  BY <1>3 DEF AccessPost, CpuGoes
<1>4. CASE AccessWait
  BY <1>4 DEF AccessWait, CpuGoes
<1>5. CASE AccessReturns
  BY <1>5 DEF AccessReturns, NoAccess
<1>6. CASE Instruction
  BY <1>6 DEF Instruction, CpuGoes
<1>7. CASE Stop
  BY <1>7 DEF Stop, CpuGoes
<1>8. CASE LowerMask
  BY <1>8 DEF LowerMask, CpuGoes
<1>9. CASE ConfigTrap
  BY <1>9 DEF ConfigTrap, CpuGoes
<1>10. CASE CpuReset
  BY <1>10 DEF CpuReset, CpuGoes
<1>11. CASE CpuResetWait
  BY <1>11 DEF CpuResetWait, CpuGoes
<1>12. CASE CpuEnds
  BY <1>12 DEF CpuEnds, CpuGoes
<1>13. CASE Interrupt
  BY <1>13 DEF Interrupt, CpuGoes
<1>14. CASE CheckOver
  BY <1>14 DEF CheckOver, CpuGoes
<1>15. CASE WakeUp
  BY <1>15 DEF WakeUp, CpuGoes
<1>16. CASE MainStarts
  BY <1>16 DEF MainStarts, CpuGoes, MainGoes
<1>17. CASE MainSeesActive
  BY <1>17 DEF MainSeesActive, MainGoes
<1>18. CASE ServeTakes
  BY <1>18 DEF ServeTakes
<1>19. CASE ServeExecutes
  BY <1>19 DEF ServeExecutes, MainGoes
<1>20. CASE ServeAnswers
  BY <1>20 DEF ServeAnswers, Loops, NoRequest
<1>21. CASE ServeLogs
  BY <1>21 DEF ServeLogs, Loops, NoRequest
<1>22. CASE ServeReset
  BY <1>22 DEF ServeReset
<1>23. CASE ChipsInterrupt
  BY <1>23 DEF ChipsInterrupt
<1>24. CASE ChipsEnd
  BY <1>24 DEF ChipsEnd
<1>25. CASE PassInterrupt
  BY <1>25 DEF PassInterrupt
<1>26. CASE MainLeaves
  BY <1>26 DEF MainLeaves, MainGoes
<1>27. CASE EndPosts
  BY <1>27 DEF EndPosts
<1>28. CASE MainEnds
  BY <1>28 DEF MainEnds, MainGoes
<1>29. CASE UNCHANGED vars
  BY <1>29 DEF vars
<1> QED
  BY <1>1, <1>2, <1>3, <1>4, <1>5, <1>6, <1>7, <1>8, <1>9, <1>10, <1>11, <1>12, <1>13, <1>14, <1>15, <1>16, <1>17, <1>18, <1>19, <1>20, <1>21, <1>22, <1>23, <1>24, <1>25, <1>26, <1>27, <1>28, <1>29
     DEF Next, CpuStep, MainStep, MainServes

LEMMA WaitInitial == Init => WaitInv
  BY DEF Init, WaitInv, BothInv, RequestInv, InterruptInv, NoAccess, NoRequest, CpuAt, MainAt

LEMMA WaitInvariance == Spec => [](TypeOK /\ WaitInv)
<1>1. Init => IInv /\ WaitInv
  BY Initial, WaitInitial
<1>2. IInv /\ WaitInv /\ [Next]_vars => (IInv /\ WaitInv)'
  BY TypeStep, CleanStep, BothStep, RequestStep, InterruptStep DEF IInv, WaitInv
<1>3. IInv => TypeOK
  BY DEF IInv
<1> QED
  BY <1>1, <1>2, <1>3, PTL DEF Spec

(* Wherever a thread waits for the other one, what it waits for is there   *)
(* or the other one is about to do it: the CPU thread for the answer to an *)
(* access, for the end of a RESET (custom_reset_cpu) and, asleep in STOP,  *)
(* for an interrupt it does not mask; run_cpu_thread for the end of the    *)
(* CPU thread, which the end's posts wake from each of these.              *)
NobodyWaitsInVain ==
  /\ CpuAt("wait") =>
       \/ cpu_in_sema > 0
       \/ cpu_out_sema > 0 /\ Requested /\ ~ MainAt("idle")
       \/ MainAt("serve") /\ main.mode \in {"read", "ack"}
       \/ MainAt("answers") \/ (MainAt("ending") /\ cpu_thread_active)
  /\ CpuAt("reset") =>
       \/ cpu_in_sema > 0
       \/ cpu_thread_reset /\ ~ MainAt("idle")
       \/ MainAt("ending") /\ cpu_thread_active
  /\ CpuAt("stopped") /\ intreq /\ intmask = 0 =>
       cpu_wakeup_sema > 0 \/ ("DOINT" \in spcflags /\ ~ MainAt("idle"))
  /\ MainAt("idle") => CpuAt("off")
  /\ CpuAt("off") => MainAt("idle") \/ "MODE_CHANGE" \in spcflags

(* No thread waits for what nobody is left to do, for any number of        *)
(* starts, accesses and interrupts and with posts left over from earlier.  *)
THEOREM NobodyWaitsInVainAlways == Spec => []NobodyWaitsInVain
<1>1. TypeOK /\ WaitInv => NobodyWaitsInVain
  <2> SUFFICES ASSUME TypeOK, WaitInv PROVE NobodyWaitsInVain
    OBVIOUS
  <2>1. BothInv /\ RequestInv /\ InterruptInv
    BY DEF WaitInv
  <2>2. /\ MainAt("idle") => CpuAt("off")
        /\ CpuAt("off") => MainAt("idle") \/ "MODE_CHANGE" \in spcflags
    BY <2>1 DEF BothInv
  <2>3. ~ CpuAt("off") => ~ MainAt("idle")
    BY <2>2
  <2>4. CpuAt("wait") \/ CpuAt("reset") \/ CpuAt("stopped") => cpu_thread_active /\ ~ CpuAt("off")
    BY DEF TypeOK, CpuAt
  <2>5. CpuAt("wait") =>
          \/ cpu_in_sema > 0
          \/ cpu_out_sema > 0 /\ Requested /\ ~ MainAt("idle")
          \/ MainAt("serve") /\ main.mode \in {"read", "ack"}
          \/ MainAt("answers") \/ (MainAt("ending") /\ cpu_thread_active)
    BY <2>1, <2>3, <2>4 DEF RequestInv
  <2>6. CpuAt("reset") =>
          \/ cpu_in_sema > 0
          \/ cpu_thread_reset /\ ~ MainAt("idle")
          \/ MainAt("ending") /\ cpu_thread_active
    BY <2>1, <2>3, <2>4 DEF RequestInv
  <2>7. CpuAt("stopped") /\ intreq /\ intmask = 0 =>
          cpu_wakeup_sema > 0 \/ ("DOINT" \in spcflags /\ ~ MainAt("idle"))
    BY <2>1, <2>3, <2>4 DEF InterruptInv
  <2> QED
    BY <2>2, <2>5, <2>6, <2>7 DEF NobodyWaitsInVain
<1> QED
  BY WaitInvariance, <1>1, PTL
=============================================================================
