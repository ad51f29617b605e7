------------------------- MODULE HardwareTraps_proofs -------------------------
(***************************************************************************)
(* Proofs about the hardware traps, for any tasks, traps, commands and     *)
(* resets: the type invariant, and, unless its worker was too fast for its *)
(* trap thread, that a trap is acked once, that a slot serves the task     *)
(* that took it, and that nobody waits for what nobody is left to do.      *)
(***************************************************************************)
EXTENDS HardwareTraps, FiniteSetTheorems, SequenceTheorems, TLAPS

Traps == 1 .. MaxTraps
Contexts == [used : BOOLEAN, slot : Slots, background : 0 .. 1, given : BOOLEAN,
             done : BOOLEAN, freed : BOOLEAN]

TaskTypes ==
  task \in [Tasks -> [at : {"run", "wait", "command"}, slot : Slots, trap : 0 .. MaxTraps]]
SlotTypes ==
  /\ lock \in [Slots -> BOOLEAN] /\ acked \in [Slots -> BOOLEAN]
  /\ second \in [Slots -> {"none", "asked", "taken", "done"}]
  /\ asker \in [Slots -> 0 .. MaxTraps] /\ abandoned \subseteq Slots
HostTypes ==
  /\ pipe \in [Hosts -> Seq(0 .. MaxTraps)] /\ trap_thread_index \in Threads
  /\ host \in [Hosts -> [at : {"read", "handler", "callback", "return", "spin", "off"},
                         trap : 0 .. MaxTraps, calls : Nat]]
  /\ ctx \in [Traps -> Contexts] /\ acks \in [Traps -> Nat] /\ raced \subseteq Traps
ControlTypes ==
  /\ kill \in [Slots -> {-1, 1}] /\ state \in [Threads -> 0 .. 1]
  /\ emu \in [at : {"run", "kill", "wait", "quit", "worker"}, thread : Slots] /\ resets \in Nat
Types == TaskTypes /\ SlotTypes /\ HostTypes /\ ControlTypes

(* The traps taken are the first ones. *)
UsedInv == \A n \in Traps : ctx[n].used <=> n <= Taken

(* A trap is with one thread, in its pipe or its handler, and, when handed *)
(* over, once with the worker.                                             *)
Busy(h) == host[h].at \in {"handler", "callback", "return", "spin"}
Alike(g, h) == g = Worker <=> h = Worker
OnceInv ==
  \A g, h \in Hosts : Alike(g, h) =>
    /\ \A i \in DOMAIN pipe[g] : \A j \in DOMAIN pipe[h] :
         pipe[g][i] = pipe[h][j] /\ pipe[g][i] # NULL => g = h /\ i = j
    /\ Busy(g) => host[g].trap # NULL /\ \A j \in DOMAIN pipe[h] : pipe[h][j] # host[g].trap
    /\ Busy(g) /\ Busy(h) /\ host[g].trap = host[h].trap => g = h

(* Until its trap thread is through with it, a trap is neither acked nor   *)
(* freed, nor is the worker told so; and it is not handed over before its  *)
(* handler's end.                                                          *)
Early(n) == ctx[n].used /\ acks[n] = 0 /\ ~ ctx[n].done /\ ~ ctx[n].freed
ThreadOK(t) ==
  /\ \A i \in DOMAIN pipe[t] :
       pipe[t][i] # NULL => Early(pipe[t][i]) /\ ~ ctx[pipe[t][i]].given
  /\ host[t].at \in {"handler", "callback"} =>
       Early(host[t].trap) /\ ~ ctx[host[t].trap].given
  /\ host[t].at = "return" => Early(host[t].trap)
  /\ host[t].at \notin {"spin", "off"}
ThreadInv == \A t \in Threads : ThreadOK(t)

(* A trap with the worker was handed over, and not acked unless it raced;  *)
(* trap_background is 1 until the worker completes it.                     *)
Handed(n) == ctx[n].used /\ ctx[n].given /\ (n \notin raced => acks[n] = 0)
WorkerInv ==
  /\ \A i \in DOMAIN pipe[Worker] : pipe[Worker][i] # NULL =>
       Handed(pipe[Worker][i]) /\ ctx[pipe[Worker][i]].background = 1
  /\ host[Worker].at \in {"handler", "callback"} =>
       Handed(host[Worker].trap) /\ ctx[host[Worker].trap].background = 1
  /\ host[Worker].at = "spin" => Handed(host[Worker].trap)
  /\ host[Worker].at # "return"

FreshInv ==
  \A n \in Traps : /\ ~ ctx[n].given => ctx[n].background = 0
                   /\ ~ ctx[n].used => ~ ctx[n].given /\ acks[n] = 0 /\ ~ ctx[n].done /\ ~ ctx[n].freed

IInv == Types /\ UsedInv /\ OnceInv /\ ThreadInv /\ WorkerInv /\ FreshInv /\ AckedOnce

(* Early and Handed in the next state, for a trap named in this one.       *)
EarlyNext(n) == ctx'[n].used /\ acks'[n] = 0 /\ ~ ctx'[n].done /\ ~ ctx'[n].freed
HandedNext(n) == ctx'[n].used /\ ctx'[n].given /\ (n \notin raced' => acks'[n] = 0)
-----------------------------------------------------------------------------
LEMMA SlotFacts ==
  /\ NumSlots \in Nat /\ NumSlots > 0 /\ Slots = 0 .. NumSlots - 1 /\ Threads = Slots
  /\ Worker \in Hosts /\ Worker \notin Threads /\ Threads \subseteq Hosts
  /\ Hosts = Threads \cup {Worker} /\ 0 \in Slots
  /\ \A t \in Threads : (t + 1) % NumSlots \in Threads
  BY TrapsAssumption DEF Slots, Threads, Hosts, Worker

LEMMA TakenFacts ==
  ASSUME HostTypes
  PROVE  /\ Taken \in 0 .. MaxTraps
         /\ IsFiniteSet({n \in 1 .. MaxTraps : ctx[n].used})
<1>1. IsFiniteSet(1 .. MaxTraps) /\ Cardinality(1 .. MaxTraps) = MaxTraps
  BY FS_Interval, TrapsAssumption
<1>2. /\ IsFiniteSet({n \in 1 .. MaxTraps : ctx[n].used})
      /\ Taken <= MaxTraps
  BY <1>1, FS_Subset DEF Taken
<1> QED
  BY <1>2, FS_CardinalityType DEF Taken

LEMMA Initial == ASSUME Init PROVE IInv
<1> USE TrapsAssumption DEF Init
<1>0. \A n \in Traps : ctx[n] = [used |-> FALSE, slot |-> 0, background |-> 0, given |-> FALSE,
                               done |-> FALSE, freed |-> FALSE]
  BY DEF Traps
<1>1. Types
  <2>1. TaskTypes
    BY SlotFacts DEF TaskTypes, Running
  <2>2. SlotTypes
    BY DEF SlotTypes
  <2>3. HostTypes
    BY SlotFacts DEF HostTypes, Idle, Contexts, Traps
  <2>4. ControlTypes
    BY SlotFacts DEF ControlTypes, Emu
  <2> QED
    BY <2>1, <2>2, <2>3, <2>4 DEF Types
<1>2. {n \in 1 .. MaxTraps : ctx[n].used} = {}
  BY <1>0 DEF Traps
<1>3. UsedInv
  <2>1. Taken = 0
    BY <1>2, FS_EmptySet DEF Taken
  <2> QED
    BY <1>0, <2>1 DEF UsedInv, Traps
<1>4. \A h \in Hosts : pipe[h] = <<>> /\ host[h].at = "read"
  BY DEF Idle
<1>5. DOMAIN <<>> = {}
  OBVIOUS
<1>6. OnceInv /\ ThreadInv /\ WorkerInv
  BY <1>4, <1>5, SlotFacts DEF OnceInv, ThreadInv, ThreadOK, WorkerInv, Busy
<1>7. FreshInv /\ AckedOnce
  BY <1>0 DEF FreshInv, AckedOnce, Traps
<1> QED
  BY <1>1, <1>3, <1>6, <1>7 DEF IInv

-----------------------------------------------------------------------------
(* A context changed in its fields is a context. *)
LEMMA ContextFields ==
  \A c \in Contexts :
    /\ [c EXCEPT !.given = TRUE] \in Contexts /\ [c EXCEPT !.done = TRUE] \in Contexts
    /\ [c EXCEPT !.freed = TRUE] \in Contexts
    /\ \A b \in 0 .. 1 : [c EXCEPT !.background = b] \in Contexts
  BY DEF Contexts

LEMMA ContextUpdate ==
  ASSUME HostTypes, NEW n \in Traps, NEW c \in Contexts
  PROVE  [ctx EXCEPT ![n] = c] \in [Traps -> Contexts]
  BY DEF HostTypes

(* Types, action by action. *)
LEMMA TaskStepTypes ==
  ASSUME Types, NEW t \in Tasks, TaskStep(t)
  PROVE  Types'
<1>1. HostTypes' /\ ControlTypes'
  BY DEF TaskStep, TaskCommand, TaskCommandDone, TaskResumes, Types, HostTypes, ControlTypes,
         hosts, control, Contexts
<1>2. task[t].slot \in Slots
  BY DEF Types, TaskTypes
<1>3. TaskTypes'
  <2>1. Running \in [at : {"run", "wait", "command"}, slot : Slots, trap : 0 .. MaxTraps]
    BY SlotFacts, TrapsAssumption DEF Running
  <2>2. TaskCommand(t) \/ TaskCommandDone(t) => TaskTypes'
    BY DEF TaskCommand, TaskCommandDone, Types, TaskTypes
  <2>3. TaskResumes(t) => TaskTypes'
    BY <2>1 DEF TaskResumes, Types, TaskTypes
  <2> QED
    BY <2>2, <2>3 DEF TaskStep
<1>4. SlotTypes'
  BY <1>2 DEF TaskStep, TaskCommand, TaskCommandDone, TaskResumes, Types, SlotTypes
<1> QED
  BY <1>1, <1>3, <1>4 DEF Types

LEMMA TrapTypes ==
  ASSUME Types, NEW t \in Tasks, Trap(t)
  PROVE  Types'
<1>1. PICK s \in Slots :
        /\ lock' = [lock EXCEPT ![s] = TRUE]
        /\ acked' = [acked EXCEPT ![s] = FALSE]
        /\ task' = [task EXCEPT ![t] = [at |-> "wait", slot |-> s, trap |-> Taken + 1]]
        /\ ctx' = [ctx EXCEPT ![Taken + 1] = [@ EXCEPT !.used = TRUE, !.slot = s]]
        /\ pipe' = [pipe EXCEPT ![trap_thread_index] = Append(@, Taken + 1)]
        /\ trap_thread_index' = (trap_thread_index + 1) % NumSlots
  BY DEF Trap
<1>2. /\ UNCHANGED <<second, asker, host, acks, raced, kill, state, emu, resets, abandoned>>
      /\ Taken + 1 \in Traps
  BY TakenFacts, TrapsAssumption DEF Trap, control, Types, Traps
<1>3. TaskTypes' /\ SlotTypes' /\ ControlTypes'
  BY <1>1, <1>2 DEF Types, TaskTypes, SlotTypes, ControlTypes, Traps
<1>4. ctx' \in [Traps -> Contexts]
  BY <1>1, <1>2 DEF Types, HostTypes, Contexts
<1>5. pipe' \in [Hosts -> Seq(0 .. MaxTraps)] /\ trap_thread_index' \in Threads
  <2>1. trap_thread_index \in Hosts /\ trap_thread_index \in Threads /\ Taken + 1 \in 0 .. MaxTraps
    BY <1>2, SlotFacts DEF Types, HostTypes, Traps
  <2>2. Append(pipe[trap_thread_index], Taken + 1) \in Seq(0 .. MaxTraps)
    BY <2>1, AppendProperties DEF Types, HostTypes
  <2> QED
    BY <1>1, <2>1, <2>2, SlotFacts DEF Types, HostTypes
<1> QED
  BY <1>2, <1>3, <1>4, <1>5 DEF Types, HostTypes

LEMMA ContextTypes ==
  ASSUME Types, NEW h \in Hosts,
         CallBack(h) \/ CallBackReturns(h) \/ CallBackKilled(h) \/ HandsOver(h) \/ HandlerReturns(h)
           \/ ThreadAcks(h) \/ ThreadLeaves(h),
         host[h].trap \in Traps, HandsOver(h) => ctx[host[h].trap].background = 0
  PROVE  Types'
<1>1. host[h].trap \in Traps /\ Slot(h) \in Slots
  BY DEF Slot, Types, HostTypes, Contexts
<1>2. TaskTypes' /\ ControlTypes'
  BY DEF CallBack, CallBackReturns, CallBackKilled, HandsOver, HandlerReturns, ThreadAcks,
         ThreadLeaves, Types, TaskTypes, ControlTypes, control
<1>3. SlotTypes'
  BY <1>1 DEF CallBack, CallBackReturns, CallBackKilled, HandsOver, HandlerReturns, ThreadAcks,
     ThreadLeaves, Ack, Types, SlotTypes, HostTypes, slots
<1>4. host' \in [Hosts -> [at : {"read", "handler", "callback", "return", "spin", "off"},
                          trap : 0 .. MaxTraps, calls : Nat]]
  <2>1. Idle \in [at : {"read", "handler", "callback", "return", "spin", "off"},
                 trap : 0 .. MaxTraps, calls : Nat]
    BY TrapsAssumption DEF Idle
  <2>2. CASE CallBack(h)
    <3>1. \/ host' = [host EXCEPT ![h] = [host[h] EXCEPT !.calls = host[h].calls + 1]]
          \/ host' = [host EXCEPT ![h] = [host[h] EXCEPT !.calls = host[h].calls + 1, !.at = "callback"]]
      BY <2>2 DEF CallBack, Types, HostTypes
    <3>2. host[h].calls + 1 \in Nat
      BY DEF Types, HostTypes
    <3> QED
      BY <3>1, <3>2 DEF Types, HostTypes
  <2>3. CASE CallBackReturns(h) \/ CallBackKilled(h) \/ HandsOver(h) \/ HandlerReturns(h)
    BY <2>3 DEF CallBackReturns, CallBackKilled, HandsOver, HandlerReturns, Go, Types, HostTypes
  <2>4. CASE ThreadAcks(h) \/ ThreadLeaves(h)
    BY <2>1, <2>4 DEF ThreadAcks, ThreadLeaves, Ack, Types, HostTypes
  <2> QED
    BY <2>2, <2>3, <2>4
<1>5. ctx' \in [Traps -> Contexts]
  <2>1. CASE HandsOver(h)
    <3> DEFINE n == host[h].trap
               c == [ctx[n] EXCEPT !.background = 1]
    <3>1. ctx[n].background + 1 = 1 /\ ctx[n] \in Contexts
      BY <1>1, <2>1 DEF Types, HostTypes
    <3>2. c \in Contexts /\ [c EXCEPT !.given = TRUE] \in Contexts
      <4>1. c \in Contexts
        <5>1. 1 \in 0 .. 1
          OBVIOUS
        <5> QED
          BY <3>1, <5>1, ContextFields
      <4> QED
        BY <4>1, ContextFields
    <3>3. ctx' = [ctx EXCEPT ![n] = [c EXCEPT !.given = TRUE]]
      BY <1>1, <2>1, <3>1 DEF HandsOver, Types, HostTypes
    <3> QED
      BY <1>1, <3>2, <3>3, ContextUpdate DEF Types
  <2>2. CASE ThreadAcks(h) \/ ThreadLeaves(h)
    <3>1. \/ ctx' = [ctx EXCEPT ![host[h].trap] = [ctx[host[h].trap] EXCEPT !.freed = TRUE]]
          \/ ctx' = [ctx EXCEPT ![host[h].trap] = [ctx[host[h].trap] EXCEPT !.done = TRUE]]
      BY <1>1, <2>2 DEF ThreadAcks, ThreadLeaves, Ack, Types, HostTypes
    <3>2. ctx[host[h].trap] \in Contexts
      BY <1>1 DEF Types, HostTypes
    <3>3. /\ [ctx[host[h].trap] EXCEPT !.freed = TRUE] \in Contexts
          /\ [ctx[host[h].trap] EXCEPT !.done = TRUE] \in Contexts
      BY <3>2, ContextFields
    <3> QED
      BY <1>1, <3>1, <3>3, ContextUpdate DEF Types
  <2>3. CASE CallBack(h) \/ CallBackReturns(h) \/ CallBackKilled(h) \/ HandlerReturns(h)
    BY <2>3 DEF CallBack, CallBackReturns, CallBackKilled, HandlerReturns, Types, HostTypes
  <2> QED
    BY <2>1, <2>2, <2>3
<1>6. pipe' \in [Hosts -> Seq(0 .. MaxTraps)]
  <2>1. Append(pipe[Worker], host[h].trap) \in Seq(0 .. MaxTraps)
    BY <1>1, SlotFacts, AppendProperties DEF Types, HostTypes
  <2> QED
    BY <2>1 DEF CallBack, CallBackReturns, CallBackKilled, HandsOver, HandlerReturns, ThreadAcks,
       ThreadLeaves, Types, HostTypes
<1>7. acks' \in [Traps -> Nat] /\ raced' \subseteq Traps /\ trap_thread_index' \in Threads
  BY <1>1 DEF CallBack, CallBackReturns, CallBackKilled, HandsOver, HandlerReturns, ThreadAcks,
     ThreadLeaves, Ack, Types, HostTypes
<1> QED
  BY <1>2, <1>3, <1>4, <1>5, <1>6, <1>7 DEF Types, HostTypes

LEMMA ReadTypes ==
  ASSUME Types, NEW t \in Threads, ThreadRead(t) \/ ThreadDrains(t),
         pipe[t] # <<>> /\ Head(pipe[t]) # NULL => Head(pipe[t]) \in Traps
  PROVE  Types'
<1>1. /\ pipe[t] \in Seq(0 .. MaxTraps) /\ t \in Hosts
      /\ pipe[t] # <<>> => Tail(pipe[t]) \in Seq(0 .. MaxTraps) /\ Head(pipe[t]) \in 0 .. MaxTraps
  BY SlotFacts, HeadTailProperties DEF Types, HostTypes
<1>2. TaskTypes' /\ ControlTypes'
  <2>1. CASE ThreadRead(t)
    BY <2>1 DEF ThreadRead, Types, TaskTypes, ControlTypes, control
  <2>2. CASE ThreadDrains(t)
    BY <2>2 DEF ThreadDrains, Types, TaskTypes, ControlTypes
  <2> QED
    BY <2>1, <2>2
<1>3. SlotTypes'
  BY DEF ThreadRead, ThreadDrains, Types, SlotTypes, HostTypes, Contexts, slots
<1>4. pipe' \in [Hosts -> Seq(0 .. MaxTraps)]
  <2>1. <<>> \in Seq(0 .. MaxTraps)
    OBVIOUS
  <2> QED
    BY <1>1, <2>1 DEF ThreadRead, ThreadDrains, Types, HostTypes
<1>5. host' \in [Hosts -> [at : {"read", "handler", "callback", "return", "spin", "off"},
                          trap : 0 .. MaxTraps, calls : Nat]]
  BY <1>1 DEF ThreadRead, ThreadDrains, Types, HostTypes
<1>6. UNCHANGED <<ctx, acks, raced, trap_thread_index>>
  BY DEF ThreadRead, ThreadDrains
<1> QED
  BY <1>2, <1>3, <1>4, <1>5, <1>6 DEF Types, HostTypes

LEMMA WorkerTypes ==
  ASSUME Types, WorkerRead \/ WorkerCompletes \/ WorkerAcks,
         Busy(Worker) => host[Worker].trap \in Traps,
         At(Worker, "handler") => ctx[host[Worker].trap].background = 1
  PROVE  Types'
<1>1. /\ pipe[Worker] \in Seq(0 .. MaxTraps) /\ Worker \in Hosts
      /\ pipe[Worker] # <<>> =>
           Tail(pipe[Worker]) \in Seq(0 .. MaxTraps) /\ Head(pipe[Worker]) \in 0 .. MaxTraps
  BY SlotFacts, HeadTailProperties DEF Types, HostTypes
<1>2. TaskTypes' /\ ControlTypes'
  BY DEF WorkerRead, WorkerCompletes, WorkerAcks, Types, TaskTypes, ControlTypes, control
<1>3. SlotTypes'
  BY DEF WorkerRead, WorkerCompletes, WorkerAcks, Ack, Slot, At, Busy, Types, SlotTypes, HostTypes,
         Contexts, slots
<1>4. pipe' \in [Hosts -> Seq(0 .. MaxTraps)]
  BY <1>1 DEF WorkerRead, WorkerCompletes, WorkerAcks, Types, HostTypes
<1>5. host' \in [Hosts -> [at : {"read", "handler", "callback", "return", "spin", "off"},
                          trap : 0 .. MaxTraps, calls : Nat]]
  <2>1. CASE WorkerRead
    BY <1>1, <2>1 DEF WorkerRead, Types, HostTypes
  <2>2. CASE WorkerCompletes
    BY <1>1, <2>2 DEF WorkerCompletes, Go, Types, HostTypes
  <2>3. CASE WorkerAcks
    BY <1>1, <2>3, TrapsAssumption DEF WorkerAcks, Ack, Idle, Types, HostTypes
  <2> QED
    BY <2>1, <2>2, <2>3
<1>6. ctx' \in [Traps -> Contexts]
  <2>1. CASE WorkerRead
    BY <2>1 DEF WorkerRead, Types, HostTypes
  <2>2. CASE WorkerCompletes
    <3>1. /\ host[Worker].trap \in Traps /\ ctx[host[Worker].trap].background - 1 = 0
          /\ ctx' = [ctx EXCEPT ![host[Worker].trap] =
                      [ctx[host[Worker].trap] EXCEPT !.background = ctx[host[Worker].trap].background - 1]]
      BY <2>2 DEF WorkerCompletes, At, Busy, Types, HostTypes
    <3>2. ctx[host[Worker].trap] \in Contexts /\ 0 \in 0 .. 1
      BY <3>1 DEF Types, HostTypes
    <3>3. [ctx[host[Worker].trap] EXCEPT !.background = ctx[host[Worker].trap].background - 1] \in Contexts
      BY <3>1, <3>2, ContextFields
    <3> QED
      BY <3>1, <3>3, ContextUpdate DEF Types
  <2>3. CASE WorkerAcks
    BY <2>3 DEF WorkerAcks, Ack, At, Busy, Types, HostTypes, Contexts
  <2> QED
    BY <2>1, <2>2, <2>3
<1>7. acks' \in [Traps -> Nat] /\ raced' \subseteq Traps /\ trap_thread_index' \in Threads
  BY DEF WorkerRead, WorkerCompletes, WorkerAcks, Ack, At, Busy, Types, HostTypes
<1> QED
  BY <1>2, <1>3, <1>4, <1>5, <1>6, <1>7 DEF Types, HostTypes

LEMMA ResetTypes ==
  ASSUME Types, ResetBegin \/ ResetStep
  PROVE  Types'
<1>0. /\ Running \in [at : {"run", "wait", "command"}, slot : Slots, trap : 0 .. MaxTraps]
      /\ Idle \in [at : {"read", "handler", "callback", "return", "spin", "off"},
                   trap : 0 .. MaxTraps, calls : Nat]
      /\ \A h \in Hosts : Append(pipe[h], NULL) \in Seq(0 .. MaxTraps)
  <2>1. 0 \in 0 .. MaxTraps /\ 0 \in Slots
    BY TrapsAssumption, SlotFacts
  <2> QED
    BY <2>1, AppendProperties DEF Running, Idle, NULL, Types, HostTypes
<1>1. CASE ResetBegin
  <2>1. TaskTypes' /\ SlotTypes'
    BY <1>0, <1>1 DEF ResetBegin, Types, TaskTypes, SlotTypes
  <2>2. HostTypes' /\ ControlTypes'
    BY <1>1, SlotFacts DEF ResetBegin, hosts, Emu, Types, HostTypes, ControlTypes
  <2> QED
    BY <2>1, <2>2 DEF Types
<1>2. ASSUME NEW t \in Threads, ResetKills(t) PROVE Types'
  <2>1. TaskTypes' /\ SlotTypes' /\ ControlTypes'
    BY <1>2, SlotFacts DEF ResetKills, slots, Emu, Types, TaskTypes, SlotTypes, ControlTypes
  <2>2. HostTypes'
    BY <1>0, <1>2, SlotFacts DEF ResetKills, Types, HostTypes
  <2> QED
    BY <2>1, <2>2 DEF Types
<1>3. ASSUME NEW t \in Threads, ResetNext(t) PROVE Types'
  <2>1. TaskTypes' /\ SlotTypes' /\ HostTypes'
    BY <1>3 DEF ResetNext, slots, hosts, Types, TaskTypes, SlotTypes, HostTypes
  <2>2. t + 1 < NumSlots => t + 1 \in Slots
    BY SlotFacts
  <2>3. ControlTypes'
    BY <1>3, <2>2, SlotFacts DEF ResetNext, Emu, Types, ControlTypes
  <2> QED
    BY <2>1, <2>3 DEF Types
<1>4. CASE ResetQuits
  <2>1. TaskTypes' /\ SlotTypes' /\ ControlTypes'
    BY <1>4, SlotFacts DEF ResetQuits, slots, Emu, Types, TaskTypes, SlotTypes, ControlTypes
  <2>2. HostTypes'
    BY <1>0, <1>4, SlotFacts DEF ResetQuits, Quit, Types, HostTypes
  <2> QED
    BY <2>1, <2>2 DEF Types
<1>5. CASE ResetOver
  <2>1. TaskTypes' /\ SlotTypes' /\ ControlTypes'
    BY <1>5, SlotFacts DEF ResetOver, slots, Emu, Types, TaskTypes, SlotTypes, ControlTypes
  <2>2. HostTypes'
    BY <1>0, <1>5, SlotFacts DEF ResetOver, Types, HostTypes
  <2> QED
    BY <2>1, <2>2 DEF Types
<1> QED
  BY <1>1, <1>2, <1>3, <1>4, <1>5 DEF ResetStep

-----------------------------------------------------------------------------
(* Positions in a pipe after a read and after a write. *)
LEMMA TailPositions ==
  ASSUME NEW S, NEW q \in Seq(S), q # <<>>
  PROVE  /\ 1 \in DOMAIN q /\ Head(q) = q[1]
         /\ \A i \in DOMAIN Tail(q) : i \in Nat /\ i > 0 /\ i + 1 \in DOMAIN q /\ Tail(q)[i] = q[i + 1]
<1>1. Tail(q) \in Seq(S) /\ Len(Tail(q)) = Len(q) - 1 /\ Head(q) = q[1]
      /\ \A i \in 1 .. Len(Tail(q)) : Tail(q)[i] = q[i + 1]
  BY HeadTailProperties
<1>2. DOMAIN q = 1 .. Len(q) /\ Len(q) \in Nat /\ Len(q) > 0
  BY LenProperties, EmptySeq
<1>3. DOMAIN Tail(q) = 1 .. Len(q) - 1
  BY <1>1, LenProperties
<1> QED
  BY <1>1, <1>2, <1>3

LEMMA AppendPositions ==
  ASSUME NEW S, NEW q \in Seq(S), NEW e \in S
  PROVE  /\ \A i \in DOMAIN Append(q, e) : \/ i \in DOMAIN q /\ Append(q, e)[i] = q[i]
                                           \/ i = Len(q) + 1 /\ Append(q, e)[i] = e
         /\ Len(q) + 1 \notin DOMAIN q
<1>1. /\ Append(q, e) \in Seq(S) /\ Len(Append(q, e)) = Len(q) + 1
      /\ \A i \in 1 .. Len(q) : Append(q, e)[i] = q[i]
      /\ Append(q, e)[Len(q) + 1] = e
  BY AppendProperties
<1>2. DOMAIN q = 1 .. Len(q) /\ Len(q) \in Nat /\ DOMAIN Append(q, e) = 1 .. Len(q) + 1
  BY <1>1, LenProperties
<1> QED
  BY <1>1, <1>2

(* What is in the pipes and with the hosts is a trap. *)
LEMMA PlaceTypes ==
  ASSUME IInv, NEW h \in Hosts
  PROVE  /\ pipe[h] \in Seq(0 .. MaxTraps)
         /\ \A i \in DOMAIN pipe[h] : pipe[h][i] \in 0 .. MaxTraps
         /\ \A i \in DOMAIN pipe[h] : pipe[h][i] # NULL => pipe[h][i] \in Traps
         /\ Busy(h) => host[h].trap \in Traps
<1>1. pipe[h] \in Seq(0 .. MaxTraps) /\ host[h].trap \in 0 .. MaxTraps
  BY DEF IInv, Types, HostTypes
<1>2. \A i \in DOMAIN pipe[h] : pipe[h][i] \in 0 .. MaxTraps
  BY <1>1, ElementOfSeq, LenProperties
<1>3. Busy(h) => host[h].trap # NULL
  BY DEF IInv, OnceInv, Alike
<1> QED
  BY <1>1, <1>2, <1>3, TrapsAssumption DEF Traps, NULL

(* A trap stays where it is or leaves. *)
LEMMA OnceStays ==
  ASSUME OnceInv, pipe' = pipe,
         \A h \in Hosts : Busy(h)' => Busy(h) /\ host'[h].trap = host[h].trap
  PROVE  OnceInv'
  BY DEF OnceInv, Alike

(* A trap that no host of the kind of h has, or a NULL, is put in its pipe.*)
LEMMA OncePut ==
  ASSUME IInv, NEW h \in Hosts, NEW e \in 0 .. MaxTraps,
         pipe' = [pipe EXCEPT ![h] = Append(pipe[h], e)],
         e # NULL => \A g \in Hosts : Alike(g, h) =>
                       /\ \A i \in DOMAIN pipe[g] : pipe[g][i] # e
                       /\ Busy(g) => host[g].trap # e,
         \A g \in Hosts : Busy(g)' => Busy(g) /\ host'[g].trap = host[g].trap
  PROVE  OnceInv'
<1>0. Len(pipe[h]) + 1 \notin DOMAIN pipe[h] /\ OnceInv
  BY PlaceTypes, AppendPositions DEF IInv
<1>1. \A i \in DOMAIN pipe'[h] :
        \/ i \in DOMAIN pipe[h] /\ pipe'[h][i] = pipe[h][i]
        \/ i = Len(pipe[h]) + 1 /\ pipe'[h][i] = e
  <2>1. pipe'[h] = Append(pipe[h], e) /\ pipe[h] \in Seq(0 .. MaxTraps)
    BY PlaceTypes DEF IInv, Types, HostTypes
  <2> QED
    BY <2>1, AppendPositions
<1>2. \A g \in Hosts : g # h => pipe'[g] = pipe[g]
  BY DEF IInv, Types, HostTypes
<1>3. ASSUME NEW f \in Hosts, NEW g \in Hosts, Alike(f, g)
      PROVE  \A i \in DOMAIN pipe'[f] : \A j \in DOMAIN pipe'[g] :
               pipe'[f][i] = pipe'[g][j] /\ pipe'[f][i] # NULL => f = g /\ i = j
  BY <1>0, <1>1, <1>2, <1>3 DEF OnceInv, Alike
<1>4. ASSUME NEW f \in Hosts, NEW g \in Hosts, Alike(f, g), Busy(f)'
      PROVE  /\ host'[f].trap # NULL /\ \A j \in DOMAIN pipe'[g] : pipe'[g][j] # host'[f].trap
             /\ Busy(g)' /\ host'[f].trap = host'[g].trap => f = g
  <2>1. Busy(f) /\ host'[f].trap = host[f].trap /\ host[f].trap # NULL
    BY <1>0, <1>4 DEF OnceInv, Alike
  <2>2. \A j \in DOMAIN pipe[g] : pipe[g][j] # host[f].trap
    BY <1>0, <1>4, <2>1 DEF OnceInv
  <2>3. g = h => e # host[f].trap
    BY <1>4, <2>1
  <2>4. Busy(g)' /\ host'[f].trap = host'[g].trap => f = g
    BY <1>0, <1>4, <2>1 DEF OnceInv
  <2> QED
    BY <1>1, <1>2, <2>1, <2>2, <2>3, <2>4
<1> QED
  BY <1>3, <1>4 DEF OnceInv, Alike

(* A host takes the first item of its pipe. *)
LEMMA OnceTaken ==
  ASSUME IInv, NEW h \in Hosts, pipe[h] # <<>>, ~ Busy(h),
         pipe' = [pipe EXCEPT ![h] = Tail(pipe[h])],
         \A g \in Hosts \ {h} : host'[g] = host[g],
         Busy(h)' => host'[h].trap = Head(pipe[h]) /\ Head(pipe[h]) # NULL
  PROVE  OnceInv'
<1>0. OnceInv /\ 1 \in DOMAIN pipe[h] /\ Head(pipe[h]) = pipe[h][1]
  BY PlaceTypes, TailPositions DEF IInv
<1>1. \A i \in DOMAIN pipe'[h] : i \in Nat /\ i > 0 /\ i + 1 \in DOMAIN pipe[h] /\ pipe'[h][i] = pipe[h][i + 1]
  BY PlaceTypes, TailPositions DEF IInv, Types, HostTypes
<1>2. \A g \in Hosts : g # h => pipe'[g] = pipe[g] /\ (Busy(g)' <=> Busy(g)) /\ host'[g].trap = host[g].trap
  BY DEF IInv, Types, HostTypes, Busy
<1>3. ASSUME NEW f \in Hosts, NEW g \in Hosts, Alike(f, g)
      PROVE  \A i \in DOMAIN pipe'[f] : \A j \in DOMAIN pipe'[g] :
               pipe'[f][i] = pipe'[g][j] /\ pipe'[f][i] # NULL => f = g /\ i = j
  <2>1. CASE f # h /\ g # h
    BY <1>0, <1>2, <1>3, <2>1 DEF OnceInv
  <2>2. CASE f = h /\ g # h
    BY <1>0, <1>1, <1>2, <1>3, <2>2 DEF OnceInv
  <2>3. CASE f # h /\ g = h
    BY <1>0, <1>1, <1>2, <1>3, <2>3 DEF OnceInv
  <2>4. CASE f = h /\ g = h
    <3>1. ASSUME NEW i \in DOMAIN pipe'[h], NEW j \in DOMAIN pipe'[h],
                 pipe'[h][i] = pipe'[h][j], pipe'[h][i] # NULL
          PROVE  i = j
      <4>1. i + 1 = j + 1
        BY <1>0, <1>1, <1>3, <2>4, <3>1 DEF OnceInv
      <4> QED
        BY <1>1, <4>1
    <3> QED
      BY <2>4, <3>1
  <2> QED
    BY <2>1, <2>2, <2>3, <2>4
<1>4. ASSUME NEW f \in Hosts, NEW g \in Hosts, Alike(f, g), Busy(f)'
      PROVE  /\ host'[f].trap # NULL /\ \A j \in DOMAIN pipe'[g] : pipe'[g][j] # host'[f].trap
             /\ Busy(g)' /\ host'[f].trap = host'[g].trap => f = g
  <2>0. Alike(h, h) /\ (f = h => Alike(h, g)) /\ (g = h => Alike(f, h)) /\ Alike(g, f)
    BY <1>4 DEF Alike
  <2>1. CASE f # h
    <3>1. Busy(f) /\ host'[f].trap = host[f].trap
      BY <1>2, <1>4, <2>1
    <3>2. \A j \in DOMAIN pipe[g] : pipe[g][j] # host[f].trap
      BY <1>0, <1>4, <3>1 DEF OnceInv
    <3>3. \A j \in DOMAIN pipe'[g] : pipe'[g][j] # host'[f].trap
      BY <1>1, <1>2, <3>1, <3>2
    <3>4. Busy(g)' /\ host'[f].trap = host'[g].trap => f = g
      BY <1>0, <1>2, <1>4, <3>1, <3>2 DEF OnceInv
    <3> QED
      BY <1>0, <1>4, <3>1, <3>3, <3>4 DEF OnceInv
  <2>2. CASE f = h
    <3>1. host'[h].trap = pipe[h][1] /\ pipe[h][1] # NULL
      BY <1>0, <1>4, <2>2
    <3>2. \A j \in DOMAIN pipe'[g] : pipe'[g][j] # pipe[h][1]
      <4>1. CASE g = h
        BY <1>0, <1>1, <2>0, <3>1, <4>1 DEF OnceInv
      <4>2. CASE g # h
        BY <1>0, <1>2, <2>0, <2>2, <3>1, <4>2 DEF OnceInv
      <4> QED
        BY <4>1, <4>2
    <3>3. g # h /\ Busy(g)' => host'[g].trap # pipe[h][1]
      <4>1. g # h /\ Busy(g)' => Busy(g) /\ host'[g].trap = host[g].trap
        BY <1>2
      <4> QED
        BY <1>0, <2>0, <2>2, <4>1 DEF OnceInv
    <3> QED
      BY <2>2, <3>1, <3>2, <3>3
  <2> QED
    BY <2>1, <2>2
<1> QED
  BY <1>3, <1>4 DEF OnceInv, Alike

-----------------------------------------------------------------------------
(* Steps that leave the pipes, the contexts and the acks alone: a host's   *)
(* handler goes on, or its thread is started again.                        *)
LEMMA UsedStays ==
  ASSUME UsedInv, \A n \in Traps : ctx'[n].used = ctx[n].used
  PROVE  UsedInv'
<1>1. {n \in 1 .. MaxTraps : ctx'[n].used} = {n \in 1 .. MaxTraps : ctx[n].used}
  BY DEF Traps
<1>2. Taken' = Taken
  BY <1>1 DEF Taken
<1> QED
  BY <1>2 DEF UsedInv

LEMMA QuietStep ==
  ASSUME IInv, Types', UNCHANGED <<pipe, ctx, acks, raced>>,
         \A h \in Hosts :
           \/ host'[h].at = "read"
           \/ /\ host'[h].trap = host[h].trap
              /\ \/ host'[h].at = host[h].at
                 \/ /\ host[h].at \in {"handler", "callback"}
                    /\ \/ host'[h].at \in {"handler", "callback"}
                       \/ h \in Threads /\ host'[h].at = "return"
  PROVE  IInv'
<1>1. \A h \in Hosts : Busy(h)' => Busy(h) /\ host'[h].trap = host[h].trap
  BY DEF Busy
<1>2. OnceInv' /\ UsedInv'
  BY <1>1, OnceStays, UsedStays DEF IInv
<1>3. ThreadInv'
  BY SlotFacts DEF IInv, ThreadInv, ThreadOK, Early
<1>4. WorkerInv'
  BY SlotFacts DEF IInv, WorkerInv, Handed
<1>5. FreshInv' /\ AckedOnce'
  BY DEF IInv, FreshInv, AckedOnce
<1> QED
  BY <1>2, <1>3, <1>4, <1>5 DEF IInv

(* A NULL of the reset in a pipe. *)
LEMMA NullStep ==
  ASSUME IInv, Types', NEW h \in Hosts, UNCHANGED <<host, ctx, acks, raced>>,
         pipe' = [pipe EXCEPT ![h] = Append(pipe[h], NULL)]
  PROVE  IInv'
<1>0. NULL \in 0 .. MaxTraps /\ \A g \in Hosts : Busy(g)' <=> Busy(g)
  BY TrapsAssumption DEF NULL, Busy
<1>1. OnceInv' /\ UsedInv'
  BY <1>0, OncePut, UsedStays DEF IInv
<1>2. \A g \in Hosts : \A i \in DOMAIN pipe'[g] : pipe'[g][i] # NULL =>
        i \in DOMAIN pipe[g] /\ pipe'[g][i] = pipe[g][i]
  <2>1. pipe'[h] = Append(pipe[h], NULL) /\ pipe[h] \in Seq(0 .. MaxTraps)
    BY PlaceTypes DEF IInv, Types, HostTypes
  <2>2. \A g \in Hosts : g # h => pipe'[g] = pipe[g]
    BY DEF IInv, Types, HostTypes
  <2> QED
    BY <1>0, <2>1, <2>2, AppendPositions
<1>3. ThreadInv'
  BY <1>2, SlotFacts DEF IInv, ThreadInv, ThreadOK, Early
<1>4. WorkerInv'
  BY <1>2, SlotFacts DEF IInv, WorkerInv, Handed
<1>5. FreshInv' /\ AckedOnce'
  BY DEF IInv, FreshInv, AckedOnce
<1> QED
  BY <1>1, <1>3, <1>4, <1>5 DEF IInv

LEMMA DrainStep ==
  ASSUME IInv, Types', NEW t \in Threads, ThreadDrains(t)
  PROVE  IInv'
<1>0. /\ t \in Hosts /\ pipe'[t] = <<>> /\ DOMAIN pipe'[t] = {}
      /\ \A g \in Hosts : g # t => pipe'[g] = pipe[g]
      /\ UNCHANGED <<host, ctx, acks, raced>>
  BY SlotFacts DEF ThreadDrains, IInv, Types, HostTypes
<1>1. OnceInv'
  BY <1>0 DEF IInv, OnceInv, Alike, Busy
<1>2. UsedInv'
  BY <1>0, UsedStays DEF IInv
<1>3. ThreadInv'
  BY <1>0, SlotFacts DEF IInv, ThreadInv, ThreadOK, Early
<1>4. WorkerInv'
  BY <1>0, SlotFacts DEF IInv, WorkerInv, Handed
<1>5. FreshInv' /\ AckedOnce'
  BY <1>0 DEF IInv, FreshInv, AckedOnce
<1> QED
  BY <1>1, <1>2, <1>3, <1>4, <1>5 DEF IInv

-----------------------------------------------------------------------------
(* A thread or the worker reads its pipe. *)
LEMMA ReadStep ==
  ASSUME IInv, Types', NEW h \in Hosts, pipe[h] # <<>>, host[h].at = "read",
         pipe' = [pipe EXCEPT ![h] = Tail(pipe[h])],
         host' = [host EXCEPT ![h] =
           [at |-> IF Head(pipe[h]) = NULL THEN "off" ELSE "handler", trap |-> Head(pipe[h]), calls |-> 0]],
         h \in Threads => Head(pipe[h]) # NULL,
         UNCHANGED <<ctx, acks, raced>>
  PROVE  IInv'
<1>0. /\ 1 \in DOMAIN pipe[h] /\ Head(pipe[h]) = pipe[h][1]
      /\ \A i \in DOMAIN pipe'[h] : i + 1 \in DOMAIN pipe[h] /\ pipe'[h][i] = pipe[h][i + 1]
  <2>1. pipe'[h] = Tail(pipe[h]) /\ pipe[h] \in Seq(0 .. MaxTraps)
    BY PlaceTypes DEF IInv, Types, HostTypes
  <2> QED
    BY <2>1, TailPositions
<1>1. /\ host'[h].trap = pipe[h][1]
      /\ host'[h].at = IF pipe[h][1] = NULL THEN "off" ELSE "handler"
      /\ \A g \in Hosts \ {h} : host'[g] = host[g] /\ pipe'[g] = pipe[g]
  BY <1>0 DEF IInv, Types, HostTypes
<1>2. OnceInv'
  <2>1. ~ Busy(h) /\ (Busy(h)' => host'[h].trap = Head(pipe[h]) /\ Head(pipe[h]) # NULL)
    BY <1>0, <1>1 DEF Busy
  <2> QED
    BY <1>1, <2>1, OnceTaken
<1>3. UsedInv'
  BY UsedStays DEF IInv
<1>4. ThreadInv'
  BY <1>0, <1>1, SlotFacts DEF IInv, ThreadInv, ThreadOK, Early
<1>5. WorkerInv'
  BY <1>0, <1>1, SlotFacts DEF IInv, WorkerInv, Handed
<1>6. FreshInv' /\ AckedOnce'
  BY DEF IInv, FreshInv, AckedOnce
<1> QED
  BY <1>2, <1>3, <1>4, <1>5, <1>6 DEF IInv

(* A trap is taken: the next one, that is nowhere yet. *)
LEMMA TrapStep ==
  ASSUME IInv, NEW t \in Tasks, Trap(t)
  PROVE  IInv'
<1> DEFINE n == Taken + 1
           h == trap_thread_index
<1>1. PICK s \in Slots :
        /\ ctx' = [ctx EXCEPT ![n] = [@ EXCEPT !.used = TRUE, !.slot = s]]
        /\ pipe' = [pipe EXCEPT ![h] = Append(@, n)]
  BY DEF Trap
<1>2. /\ UNCHANGED <<host, acks, raced>> /\ n \in Traps /\ n # NULL /\ n \in 0 .. MaxTraps
      /\ h \in Threads /\ h \in Hosts /\ h # Worker /\ ~ ctx[n].used
  <2>1. Taken \in 0 .. MaxTraps /\ Taken < MaxTraps
    BY TakenFacts DEF Trap, IInv, Types
  <2>2. n \in Traps /\ n # NULL /\ n \in 0 .. MaxTraps /\ ~ (n <= Taken)
    BY <2>1, TrapsAssumption DEF Traps, NULL
  <2>3. ~ ctx[n].used
    BY <2>2 DEF IInv, UsedInv
  <2>4. h \in Threads /\ UNCHANGED <<host, acks, raced>>
    BY DEF Trap, IInv, Types, HostTypes
  <2> QED
    BY <2>2, <2>3, <2>4, SlotFacts
<1>3. Types'
  BY TrapTypes DEF IInv
<1>4. /\ ctx'[n].used /\ ctx'[n].background = ctx[n].background /\ ctx'[n].given = ctx[n].given
      /\ ctx'[n].done = ctx[n].done /\ ctx'[n].freed = ctx[n].freed
      /\ \A m \in Traps : m # n => ctx'[m] = ctx[m]
  BY <1>1, <1>2 DEF IInv, Types, HostTypes, Contexts
<1>5. /\ \A i \in DOMAIN pipe'[h] :
           \/ i \in DOMAIN pipe[h] /\ pipe'[h][i] = pipe[h][i]
           \/ pipe'[h][i] = n
      /\ \A g \in Hosts : g # h => pipe'[g] = pipe[g]
  <2>1. pipe'[h] = Append(pipe[h], n) /\ pipe[h] \in Seq(0 .. MaxTraps)
    BY <1>1, <1>2, PlaceTypes DEF IInv, Types, HostTypes
  <2>2. \A g \in Hosts : g # h => pipe'[g] = pipe[g]
    BY <1>1, <1>2 DEF IInv, Types, HostTypes
  <2> QED
    BY <1>2, <2>1, <2>2, AppendPositions
<1>6. \A g \in Hosts : /\ \A i \in DOMAIN pipe[g] : pipe[g][i] # n
                       /\ Busy(g) => host[g].trap # n
  BY <1>2, SlotFacts DEF IInv, ThreadInv, ThreadOK, WorkerInv, Early, Handed, Busy
<1>7. OnceInv'
  <2>1. \A g \in Hosts : Busy(g)' => Busy(g) /\ host'[g].trap = host[g].trap
    BY <1>2 DEF Busy
  <2> QED
    BY <1>1, <1>2, <1>6, <2>1, OncePut
<1>8. UsedInv'
  <2>1. {m \in 1 .. MaxTraps : ctx'[m].used} = {m \in 1 .. MaxTraps : ctx[m].used} \cup {n}
    BY <1>2, <1>4 DEF Traps
  <2>2. Taken' = n
    BY <1>2, <2>1, TakenFacts, FS_AddElement DEF Taken, IInv, Types
  <2>3. Taken \in Nat
    BY TakenFacts DEF IInv, Types
  <2> QED
    BY <1>2, <1>4, <2>2, <2>3 DEF IInv, UsedInv, Traps
<1>12. EarlyNext(n) /\ ~ ctx'[n].given
  BY <1>2, <1>4 DEF IInv, FreshInv, EarlyNext
<1>13. \A m \in Traps : m # n => 
           (EarlyNext(m) <=> Early(m)) /\ (HandedNext(m) <=> Handed(m)) /\ ctx'[m] = ctx[m]
  BY <1>2, <1>4 DEF Early, Handed, EarlyNext, HandedNext
<1>14. \A g \in Hosts : /\ \A i \in DOMAIN pipe[g] : pipe[g][i] # NULL => pipe[g][i] \in Traps
                        /\ Busy(g) => host[g].trap \in Traps
  BY PlaceTypes
<1>9. ThreadInv'
  <2> SUFFICES ASSUME NEW v \in Threads
               PROVE  /\ \A i \in DOMAIN pipe'[v] : pipe'[v][i] # NULL =>
                           EarlyNext(pipe'[v][i]) /\ ~ ctx'[pipe'[v][i]].given
                      /\ host'[v].at \in {"handler", "callback"} =>
                           EarlyNext(host'[v].trap) /\ ~ ctx'[host'[v].trap].given
                      /\ host'[v].at = "return" => EarlyNext(host'[v].trap)
                      /\ host'[v].at \notin {"spin", "off"}
    BY DEF ThreadInv, ThreadOK, Early, EarlyNext
  <2>1. v \in Hosts /\ host'[v] = host[v]
    BY <1>2, SlotFacts
  <2>2. \A i \in DOMAIN pipe[v] : pipe[v][i] # NULL => EarlyNext(pipe[v][i]) /\ ~ ctx'[pipe[v][i]].given
    BY <1>6, <1>13, <1>14, <2>1 DEF IInv, ThreadInv, ThreadOK
  <2>3. \A i \in DOMAIN pipe'[v] : pipe'[v][i] # NULL =>
          EarlyNext(pipe'[v][i]) /\ ~ ctx'[pipe'[v][i]].given
    BY <1>5, <1>12, <2>1, <2>2
  <2>4. Busy(v) => EarlyNext(host[v].trap) /\ (~ ctx[host[v].trap].given => ~ ctx'[host[v].trap].given)
    BY <1>6, <1>13, <1>14, <2>1 DEF IInv, ThreadInv, ThreadOK, Busy
  <2> QED
    BY <2>1, <2>3, <2>4 DEF IInv, ThreadInv, ThreadOK, Busy
<1>10. WorkerInv'
  <2>1. pipe'[Worker] = pipe[Worker] /\ host'[Worker] = host[Worker]
    BY <1>2, <1>5, SlotFacts
  <2>2. \A i \in DOMAIN pipe[Worker] : pipe[Worker][i] # NULL =>
          HandedNext(pipe[Worker][i]) /\ ctx'[pipe[Worker][i]].background = 1
    BY <1>6, <1>13, <1>14, SlotFacts DEF IInv, WorkerInv
  <2>3. Busy(Worker) => /\ HandedNext(host[Worker].trap) <=> Handed(host[Worker].trap)
                        /\ ctx'[host[Worker].trap] = ctx[host[Worker].trap]
    BY <1>6, <1>13, <1>14, SlotFacts
  <2> QED
    BY <2>1, <2>2, <2>3 DEF IInv, WorkerInv, Busy, Handed, HandedNext
<1>11. FreshInv' /\ AckedOnce'
  BY <1>2, <1>4 DEF IInv, FreshInv, AckedOnce, Traps
<1> QED
  BY <1>3, <1>7, <1>8, <1>9, <1>10, <1>11 DEF IInv

-----------------------------------------------------------------------------
(* A step that concerns trap n leaves a thread that has not got n alone,   *)
(* and so it does the worker, if what it takes from n is no harm there.    *)
LEMMA ThreadKeeps ==
  ASSUME IInv, NEW n \in Traps,
         \A m \in Traps : m # n => ctx'[m] = ctx[m] /\ acks'[m] = acks[m],
         NEW t \in Threads, pipe'[t] = pipe[t], \A i \in DOMAIN pipe[t] : pipe[t][i] # n,
         host'[t].at = "read" \/ (host'[t] = host[t] /\ (Busy(t) => host[t].trap # n))
  PROVE  ThreadOK(t)'
<1>1. /\ t \in Hosts /\ ThreadOK(t)
      /\ \A i \in DOMAIN pipe[t] : pipe[t][i] # NULL => pipe[t][i] \in Traps
      /\ Busy(t) => host[t].trap \in Traps
  BY SlotFacts, PlaceTypes DEF IInv, ThreadInv
<1>2. \A i \in DOMAIN pipe[t] :
        pipe[t][i] # NULL => EarlyNext(pipe[t][i]) /\ ~ ctx'[pipe[t][i]].given
  BY <1>1 DEF ThreadOK, Early, EarlyNext
<1>3. host'[t].at # "read" => host'[t] = host[t] /\ (Busy(t) => host[t].trap # n)
  OBVIOUS
<1>4. host'[t].at # "read" /\ Busy(t) =>
        /\ Early(host[t].trap) <=> EarlyNext(host[t].trap)
        /\ ctx'[host[t].trap] = ctx[host[t].trap]
  BY <1>1, <1>3 DEF Early, EarlyNext
<1> QED
  BY <1>1, <1>2, <1>3, <1>4 DEF ThreadOK, Early, EarlyNext, Busy

LEMMA WorkerKeeps ==
  ASSUME IInv, NEW n \in Traps,
         \A m \in Traps : m # n =>
           ctx'[m] = ctx[m] /\ acks'[m] = acks[m] /\ (m \in raced' <=> m \in raced),
         Handed(n) => HandedNext(n) /\ ctx'[n].background = ctx[n].background,
         pipe'[Worker] = pipe[Worker], host'[Worker] = host[Worker]
  PROVE  WorkerInv'
<1>1. /\ Worker \in Hosts /\ WorkerInv
      /\ \A i \in DOMAIN pipe[Worker] : pipe[Worker][i] # NULL => pipe[Worker][i] \in Traps
      /\ Busy(Worker) => host[Worker].trap \in Traps
  BY SlotFacts, PlaceTypes DEF IInv
<1>2. \A m \in Traps : Handed(m) => HandedNext(m) /\ ctx'[m].background = ctx[m].background
  BY DEF Handed, HandedNext
<1> QED
  BY <1>1, <1>2 DEF WorkerInv, Handed, HandedNext, Busy

(* The trap a thread handles is with no other thread. *)
LEMMA Elsewhere ==
  ASSUME IInv, NEW t \in Threads, Busy(t), NEW v \in Threads
  PROVE  /\ \A i \in DOMAIN pipe[v] : pipe[v][i] # host[t].trap
         /\ v # t /\ Busy(v) => host[v].trap # host[t].trap
<1>1. t \in Hosts /\ v \in Hosts /\ Alike(t, v)
  BY SlotFacts DEF Alike
<1> QED
  BY <1>1 DEF IInv, OnceInv

LEMMA HandsStep ==
  ASSUME IInv, NEW t \in Threads, HandsOver(t)
  PROVE  IInv'
<1> DEFINE n == host[t].trap
<1>1. /\ t \in Hosts /\ t # Worker /\ host[t].at = "handler" /\ Busy(t) /\ n \in Traps /\ n # NULL
      /\ Early(n) /\ ~ ctx[n].given /\ ctx[n].background = 0
  <2>1. t \in Hosts /\ t # Worker /\ host[t].at = "handler" /\ Busy(t)
    BY SlotFacts DEF HandsOver, At, Busy
  <2>2. n \in Traps /\ n # NULL
    BY <2>1, PlaceTypes DEF Traps, NULL
  <2>3. Early(n) /\ ~ ctx[n].given
    BY <2>1 DEF IInv, ThreadInv, ThreadOK
  <2> QED
    BY <2>1, <2>2, <2>3 DEF IInv, FreshInv
<1>2. Types'
  BY <1>1, ContextTypes DEF IInv
<1>3. /\ ctx'[n].used = ctx[n].used /\ ctx'[n].done = ctx[n].done /\ ctx'[n].freed = ctx[n].freed
      /\ ctx'[n].given /\ ctx'[n].background = 1
      /\ \A m \in Traps : m # n => ctx'[m] = ctx[m]
  BY <1>1 DEF HandsOver, IInv, Types, HostTypes, Contexts
<1>4. /\ UNCHANGED <<acks, raced>>
      /\ pipe' = [pipe EXCEPT ![Worker] = Append(pipe[Worker], n)]
      /\ host'[t].at = "return" /\ host'[t].trap = n
      /\ \A g \in Hosts : g # t => host'[g] = host[g]
  BY <1>1 DEF HandsOver, Go, IInv, Types, HostTypes
<1>5. \A g \in Hosts : g # Worker => pipe'[g] = pipe[g]
  BY <1>4 DEF IInv, Types, HostTypes
<1>6. OnceInv'
  <2>1. \A g \in Hosts : Alike(g, Worker) => g = Worker
    BY DEF Alike
  <2>2. \A i \in DOMAIN pipe[Worker] : pipe[Worker][i] # n
    BY <1>1 DEF IInv, WorkerInv, Handed
  <2>3. Busy(Worker) => host[Worker].trap # n
    BY <1>1 DEF IInv, WorkerInv, Handed, Busy
  <2>4. \A g \in Hosts : Busy(g)' => Busy(g) /\ host'[g].trap = host[g].trap
    BY <1>1, <1>4 DEF Busy
  <2>5. n \in 0 .. MaxTraps /\ Worker \in Hosts
    BY <1>1, SlotFacts DEF Traps
  <2>6. \A g \in Hosts : Alike(g, Worker) =>
          /\ \A i \in DOMAIN pipe[g] : pipe[g][i] # n
          /\ Busy(g) => host[g].trap # n
    BY <2>1, <2>2, <2>3
  <2>7. pipe' = [pipe EXCEPT ![Worker] = Append(pipe[Worker], n)]
    BY <1>4
  <2> QED
    BY <2>4, <2>5, <2>6, <2>7, OncePut
<1>7. UsedInv'
  BY <1>1, <1>3, UsedStays DEF IInv
<1>8. ASSUME NEW v \in Threads PROVE ThreadOK(v)'
  <2>1. v \in Hosts /\ v # Worker /\ pipe'[v] = pipe[v]
    BY <1>5, SlotFacts
  <2>2. CASE v # t
    BY <1>1, <1>3, <1>4, <2>1, <2>2, Elsewhere, ThreadKeeps
  <2>3. CASE v = t
    <3>1. \A i \in DOMAIN pipe[t] : pipe[t][i] # n
      BY <1>1, Elsewhere
    <3>2. \A i \in DOMAIN pipe[t] : pipe[t][i] # NULL =>
            EarlyNext(pipe[t][i]) /\ ~ ctx'[pipe[t][i]].given
      BY <1>1, <1>3, <1>4, <3>1, PlaceTypes DEF IInv, ThreadInv, ThreadOK, Early, EarlyNext
    <3>3. EarlyNext(n)
      BY <1>1, <1>3, <1>4 DEF Early, EarlyNext
    <3> QED
      BY <1>4, <2>1, <2>3, <3>2, <3>3 DEF ThreadOK, Early, EarlyNext
  <2> QED
    BY <2>2, <2>3
<1>9. WorkerInv'
  <2>1. HandedNext(n)
    BY <1>1, <1>3, <1>4 DEF Early, HandedNext
  <2>2. \A m \in Traps : m # n =>
          (HandedNext(m) <=> Handed(m)) /\ ctx'[m].background = ctx[m].background
    BY <1>3, <1>4 DEF Handed, HandedNext
  <2>3. \A i \in DOMAIN pipe'[Worker] :
          \/ i \in DOMAIN pipe[Worker] /\ pipe'[Worker][i] = pipe[Worker][i]
          \/ pipe'[Worker][i] = n
    <3>1. pipe'[Worker] = Append(pipe[Worker], n) /\ pipe[Worker] \in Seq(0 .. MaxTraps)
      BY <1>4, SlotFacts, PlaceTypes DEF IInv, Types, HostTypes
    <3>2. n \in 0 .. MaxTraps
      BY <1>1 DEF Traps
    <3> QED
      BY <3>1, <3>2, AppendPositions
  <2>4. /\ \A i \in DOMAIN pipe[Worker] : pipe[Worker][i] # NULL => pipe[Worker][i] \in Traps
        /\ Busy(Worker) => host[Worker].trap \in Traps
    BY SlotFacts, PlaceTypes
  <2>5. \A i \in DOMAIN pipe[Worker] : pipe[Worker][i] # NULL =>
          HandedNext(pipe[Worker][i]) /\ ctx'[pipe[Worker][i]].background = 1
    BY <1>3, <2>1, <2>2, <2>4 DEF IInv, WorkerInv
  <2>6. host'[Worker] = host[Worker]
    BY <1>1, <1>4, SlotFacts
  <2>7. Busy(Worker) => /\ Handed(host[Worker].trap) => HandedNext(host[Worker].trap)
                        /\ \/ ctx'[host[Worker].trap].background = ctx[host[Worker].trap].background
                           \/ ctx'[host[Worker].trap].background = 1
    BY <1>3, <2>1, <2>2, <2>4
  <2>8. \A i \in DOMAIN pipe'[Worker] : pipe'[Worker][i] # NULL =>
          HandedNext(pipe'[Worker][i]) /\ ctx'[pipe'[Worker][i]].background = 1
    BY <1>3, <2>1, <2>3, <2>5
  <2> QED
    BY <2>6, <2>7, <2>8 DEF IInv, WorkerInv, Busy, Handed, HandedNext
<1>10. FreshInv' /\ AckedOnce'
  BY <1>1, <1>3, <1>4 DEF IInv, FreshInv, AckedOnce, Early, Traps
<1> QED
  BY <1>2, <1>6, <1>7, <1>8, <1>9, <1>10 DEF IInv, ThreadInv

-----------------------------------------------------------------------------
(* The thread's look at trap_background, and its ack.                      *)
LEMMA ReturnStep ==
  ASSUME IInv, NEW t \in Threads, ThreadAcks(t) \/ ThreadLeaves(t)
  PROVE  IInv'
<1> DEFINE n == host[t].trap
<1>1. /\ t \in Hosts /\ t # Worker /\ host[t].at = "return" /\ Busy(t) /\ n \in Traps /\ Early(n)
  <2>1. t \in Hosts /\ t # Worker /\ host[t].at = "return" /\ Busy(t)
    BY SlotFacts DEF ThreadAcks, ThreadLeaves, At, Busy
  <2>2. n \in Traps
    BY <2>1, PlaceTypes
  <2> QED
    BY <2>1, <2>2 DEF IInv, ThreadInv, ThreadOK
<1>2. Types'
  BY <1>1, ContextTypes DEF IInv, HandsOver, At
<1>3. /\ ctx'[n].used = ctx[n].used /\ ctx'[n].given = ctx[n].given
      /\ ctx'[n].background = ctx[n].background
      /\ \A m \in Traps : m # n =>
           ctx'[m] = ctx[m] /\ acks'[m] = acks[m] /\ (m \in raced' <=> m \in raced)
  <2>1. CASE ThreadAcks(t)
    BY <1>1, <2>1 DEF ThreadAcks, Ack, IInv, Types, HostTypes, Contexts
  <2>2. CASE ThreadLeaves(t)
    BY <1>1, <2>2 DEF ThreadLeaves, IInv, Types, HostTypes, Contexts
  <2> QED
    BY <2>1, <2>2
<1>4. /\ acks'[n] = 0 \/ (acks'[n] = 1 /\ (ctx[n].given => n \in raced'))
      /\ n \in raced => n \in raced'
  BY <1>1 DEF ThreadAcks, ThreadLeaves, Ack, Early, IInv, Types, HostTypes
<1>5. /\ host'[t].at = "read" /\ pipe' = pipe
      /\ \A g \in Hosts : g # t => host'[g] = host[g]
  BY <1>1 DEF ThreadAcks, ThreadLeaves, Ack, Idle, IInv, Types, HostTypes
<1>6. OnceInv'
  <2>1. \A g \in Hosts : Busy(g)' => Busy(g) /\ host'[g].trap = host[g].trap
    BY <1>5 DEF Busy
  <2> QED
    BY <1>5, <2>1, OnceStays DEF IInv
<1>7. UsedInv'
  BY <1>1, <1>3, UsedStays DEF IInv
<1>8. ASSUME NEW v \in Threads PROVE ThreadOK(v)'
  <2>1. v \in Hosts /\ v # Worker /\ pipe'[v] = pipe[v]
    BY <1>5, SlotFacts
  <2>2. \A i \in DOMAIN pipe[v] : pipe[v][i] # n
    BY <1>1, Elsewhere
  <2>3. host'[v].at = "read" \/ (host'[v] = host[v] /\ (Busy(v) => host[v].trap # n))
    BY <1>1, <1>5, <2>1, Elsewhere
  <2> QED
    BY <1>1, <1>3, <2>1, <2>2, <2>3, ThreadKeeps
<1>9. WorkerInv'
  <2>1. Handed(n) => HandedNext(n) /\ ctx'[n].background = ctx[n].background
    BY <1>3, <1>4 DEF Handed, HandedNext
  <2>2. pipe'[Worker] = pipe[Worker] /\ host'[Worker] = host[Worker]
    BY <1>1, <1>5, SlotFacts
  <2> QED
    BY <1>1, <1>3, <2>1, <2>2, WorkerKeeps
<1>10. FreshInv'
  BY <1>1, <1>3, <1>4 DEF IInv, FreshInv, Early
<1>11. AckedOnce'
  <2> SUFFICES ASSUME NEW m \in Traps, acks'[m] > 1 PROVE m \in raced'
    BY DEF AckedOnce, Traps
  <2>1. CASE m = n
    BY <1>1, <1>3, <1>4, <2>1 DEF Early, IInv, FreshInv, AckedOnce, Types, HostTypes
  <2>2. CASE m # n
    BY <1>3, <1>4, <2>2 DEF IInv, AckedOnce, Traps
  <2> QED
    BY <2>1, <2>2
<1> QED
  BY <1>2, <1>6, <1>7, <1>8, <1>9, <1>10, <1>11 DEF IInv, ThreadInv

(* The trap the worker is at is not in its pipe.                           *)
LEMMA NotInPipe ==
  ASSUME IInv, Busy(Worker)
  PROVE  /\ host[Worker].trap \in Traps
         /\ \A i \in DOMAIN pipe[Worker] : pipe[Worker][i] # host[Worker].trap
  BY SlotFacts, PlaceTypes DEF IInv, OnceInv, Alike

LEMMA CompletesStep ==
  ASSUME IInv, WorkerCompletes
  PROVE  IInv'
<1> DEFINE n == host[Worker].trap
<1>1. /\ Worker \in Hosts /\ host[Worker].at = "handler" /\ Busy(Worker)
      /\ n \in Traps /\ Handed(n) /\ ctx[n].background = 1
      /\ \A i \in DOMAIN pipe[Worker] : pipe[Worker][i] # n
  BY SlotFacts, NotInPipe DEF WorkerCompletes, At, Busy, IInv, WorkerInv
<1>2. Types'
  BY <1>1, WorkerTypes DEF IInv
<1>3. /\ ctx'[n].used = ctx[n].used /\ ctx'[n].given = ctx[n].given /\ ctx'[n].done = ctx[n].done
      /\ ctx'[n].freed = ctx[n].freed
      /\ \A m \in Traps : m # n => ctx'[m] = ctx[m]
  BY <1>1 DEF WorkerCompletes, IInv, Types, HostTypes, Contexts
<1>4. /\ UNCHANGED <<pipe, acks, raced>> /\ host'[Worker].at = "spin" /\ host'[Worker].trap = n
      /\ \A g \in Hosts : g # Worker => host'[g] = host[g]
  BY <1>1 DEF WorkerCompletes, Go, IInv, Types, HostTypes
<1>5. OnceInv'
  <2>1. \A g \in Hosts : Busy(g)' => Busy(g) /\ host'[g].trap = host[g].trap
    BY <1>1, <1>4 DEF Busy
  <2> QED
    BY <1>4, <2>1, OnceStays DEF IInv
<1>6. UsedInv'
  BY <1>1, <1>3, UsedStays DEF IInv
<1>7. \A m \in Traps :
        /\ Early(m) <=> EarlyNext(m)
        /\ Handed(m) <=> HandedNext(m)
        /\ ctx'[m].given = ctx[m].given
  BY <1>1, <1>3, <1>4 DEF Early, EarlyNext, Handed, HandedNext
<1>8. ASSUME NEW v \in Threads PROVE ThreadOK(v)'
  <2>1. v \in Hosts /\ pipe'[v] = pipe[v] /\ host'[v] = host[v] /\ ThreadOK(v)
    BY <1>4, SlotFacts DEF IInv, ThreadInv
  <2>2. /\ \A i \in DOMAIN pipe[v] : pipe[v][i] # NULL => pipe[v][i] \in Traps
        /\ Busy(v) => host[v].trap \in Traps
    BY <2>1, PlaceTypes
  <2> QED
    BY <1>7, <2>1, <2>2 DEF ThreadOK, Early, EarlyNext, Busy
<1>9. WorkerInv'
  <2>1. \A i \in DOMAIN pipe[Worker] : pipe[Worker][i] # NULL =>
          HandedNext(pipe[Worker][i]) /\ ctx'[pipe[Worker][i]].background = 1
    BY <1>1, <1>3, <1>7, PlaceTypes DEF IInv, WorkerInv
  <2> QED
    BY <1>1, <1>4, <1>7, <2>1 DEF WorkerInv, Handed, HandedNext
<1>10. FreshInv' /\ AckedOnce'
  BY <1>1, <1>3, <1>4 DEF IInv, FreshInv, AckedOnce, Handed, Traps
<1> QED
  BY <1>2, <1>5, <1>6, <1>8, <1>9, <1>10 DEF IInv, ThreadInv

(* The worker acks what the thread left to it, or a context that is freed. *)
LEMMA WorkerAcksStep ==
  ASSUME IInv, WorkerAcks
  PROVE  IInv'
<1> DEFINE n == host[Worker].trap
<1>1. /\ Worker \in Hosts /\ host[Worker].at = "spin" /\ Busy(Worker)
      /\ n \in Traps /\ Handed(n) /\ ~ Early(n)
      /\ \A i \in DOMAIN pipe[Worker] : pipe[Worker][i] # n
  BY SlotFacts, NotInPipe DEF WorkerAcks, At, Busy, Early, IInv, WorkerInv
<1>2. Types'
  BY <1>1, WorkerTypes DEF IInv, At
<1>3. /\ ctx'[n].used = ctx[n].used /\ ctx'[n].given = ctx[n].given
      /\ ctx'[n].background = ctx[n].background
      /\ \A m \in Traps : m # n => ctx'[m] = ctx[m] /\ acks'[m] = acks[m]
  BY <1>1 DEF WorkerAcks, Ack, IInv, Types, HostTypes, Contexts
<1>4. /\ UNCHANGED <<pipe, raced>> /\ acks'[n] = acks[n] + 1 /\ host'[Worker].at = "read"
      /\ \A g \in Hosts : g # Worker => host'[g] = host[g]
  BY <1>1 DEF WorkerAcks, Ack, Idle, IInv, Types, HostTypes
<1>5. OnceInv'
  <2>1. \A g \in Hosts : Busy(g)' => Busy(g) /\ host'[g].trap = host[g].trap
    BY <1>1, <1>4 DEF Busy
  <2> QED
    BY <1>4, <2>1, OnceStays DEF IInv
<1>6. UsedInv'
  BY <1>1, <1>3, UsedStays DEF IInv
<1>8. ASSUME NEW v \in Threads PROVE ThreadOK(v)'
  <2>1. v \in Hosts /\ v # Worker /\ pipe'[v] = pipe[v] /\ host'[v] = host[v] /\ ThreadOK(v)
    BY <1>4, SlotFacts DEF IInv, ThreadInv
  <2>2. \A i \in DOMAIN pipe[v] : pipe[v][i] # n
    BY <1>1, <2>1, TrapsAssumption DEF ThreadOK, Traps, NULL
  <2>3. Busy(v) => host[v].trap # n
    BY <1>1, <2>1 DEF ThreadOK, Busy
  <2> QED
    BY <1>1, <1>3, <2>1, <2>2, <2>3, ThreadKeeps
<1>9. WorkerInv'
  <2>1. \A i \in DOMAIN pipe[Worker] : pipe[Worker][i] # NULL =>
          HandedNext(pipe[Worker][i]) /\ ctx'[pipe[Worker][i]].background = 1
    BY <1>1, <1>3, <1>4, PlaceTypes DEF IInv, WorkerInv, Handed, HandedNext
  <2> QED
    BY <1>4, <2>1 DEF WorkerInv, Handed, HandedNext
<1>10. FreshInv'
  BY <1>1, <1>3, <1>4 DEF IInv, FreshInv, Handed
<1>11. AckedOnce'
  <2> SUFFICES ASSUME NEW m \in Traps, acks'[m] > 1 PROVE m \in raced'
    BY DEF AckedOnce, Traps
  <2>1. CASE m = n
    BY <1>1, <1>3, <1>4, <2>1 DEF Handed, IInv, FreshInv, AckedOnce, Types, HostTypes
  <2>2. CASE m # n
    BY <1>3, <1>4, <2>2 DEF IInv, AckedOnce, Traps
  <2> QED
    BY <2>1, <2>2
<1> QED
  BY <1>2, <1>5, <1>6, <1>8, <1>9, <1>10, <1>11 DEF IInv, ThreadInv

-----------------------------------------------------------------------------
(* The handlers' and the worker's dealings with the 68k, the 68k and the   *)
(* reset are quiet.                                                        *)
LEMMA CallBackStep ==
  ASSUME IInv, NEW h \in Hosts,
         CallBack(h) \/ CallBackReturns(h) \/ CallBackKilled(h) \/ (h \in Threads /\ HandlerReturns(h))
  PROVE  IInv'
<1>1. host[h].at \in {"handler", "callback"} /\ Busy(h) /\ host[h].trap \in Traps
  BY PlaceTypes DEF CallBack, CallBackReturns, CallBackKilled, HandlerReturns, At, Busy
<1>2. ~ HandsOver(h) \/ ctx[host[h].trap].background = 0
  BY <1>1, SlotFacts DEF HandsOver, At, CallBack, CallBackReturns, CallBackKilled, HandlerReturns,
     Go, IInv, Types, HostTypes
<1>3. Types'
  BY <1>1, <1>2, ContextTypes DEF IInv
<1>4. UNCHANGED <<pipe, ctx, acks, raced>>
  BY DEF CallBack, CallBackReturns, CallBackKilled, HandlerReturns
<1>5. /\ \A g \in Hosts : g # h => host'[g] = host[g]
      /\ host'[h].trap = host[h].trap
      /\ host'[h].at \in {"handler", "callback"} \/ (h \in Threads /\ host'[h].at = "return")
  <2>1. CASE CallBack(h)
    BY <1>1, <2>1 DEF CallBack, IInv, Types, HostTypes
  <2>2. CASE CallBackReturns(h) \/ CallBackKilled(h) \/ (h \in Threads /\ HandlerReturns(h))
    BY <2>2 DEF CallBackReturns, CallBackKilled, HandlerReturns, Go, IInv, Types, HostTypes
  <2> QED
    BY <2>1, <2>2
<1> QED
  BY <1>1, <1>3, <1>4, <1>5, QuietStep

LEMMA MachineStep ==
  ASSUME IInv,
         (\E t \in Tasks : TaskStep(t)) \/ ResetBegin \/ (\E t \in Threads : ResetNext(t)) \/ ResetOver
  PROVE  IInv'
<1>1. Types'
  BY TaskStepTypes, ResetTypes DEF IInv, ResetStep
<1>2. UNCHANGED <<pipe, ctx, acks, raced>>
  BY DEF TaskStep, TaskCommand, TaskCommandDone, TaskResumes, ResetBegin, ResetNext, ResetOver, hosts
<1>3. \A h \in Hosts : host'[h] = host[h] \/ host'[h].at = "read"
  BY DEF TaskStep, TaskCommand, TaskCommandDone, TaskResumes, ResetBegin, ResetNext, ResetOver, hosts,
     Idle, IInv, Types, HostTypes
<1> QED
  BY <1>1, <1>2, <1>3, QuietStep

LEMMA Inductive == IInv /\ [Next]_vars => IInv'
<1> SUFFICES ASSUME IInv, [Next]_vars PROVE IInv'
  OBVIOUS
<1>1. ASSUME NEW t \in Tasks, Trap(t) PROVE IInv'
  BY <1>1, TrapStep
<1>2. CASE (\E t \in Tasks : TaskStep(t)) \/ ResetBegin \/ (\E t \in Threads : ResetNext(t)) \/ ResetOver
  BY <1>2, MachineStep
<1>3. ASSUME NEW t \in Threads, ThreadStep(t) PROVE IInv'
  <2>0. t \in Hosts
    BY SlotFacts
  <2>1. CASE ThreadRead(t)
    <3>1. Head(pipe[t]) # NULL /\ pipe[t] # <<>> /\ host[t].at = "read"
      BY <2>1 DEF ThreadRead, At
    <3>2. Head(pipe[t]) \in Traps
      BY <2>0, <3>1, PlaceTypes, TailPositions
    <3>3. Types'
      BY <2>1, <3>2, ReadTypes DEF IInv
    <3>4. /\ pipe' = [pipe EXCEPT ![t] = Tail(pipe[t])]
          /\ host' = [host EXCEPT ![t] =
               [at |-> IF Head(pipe[t]) = NULL THEN "off" ELSE "handler", trap |-> Head(pipe[t]),
                calls |-> 0]]
          /\ UNCHANGED <<ctx, acks, raced>>
      BY <2>0, <2>1, <3>1 DEF ThreadRead, IInv, Types, HostTypes
    <3> QED
      BY <2>0, <3>1, <3>3, <3>4, ReadStep
  <2>2. CASE ThreadDrains(t)
    BY <2>2, DrainStep, ReadTypes DEF IInv, ThreadDrains
  <2>3. CASE CallBack(t) \/ CallBackReturns(t) \/ CallBackKilled(t) \/ HandlerReturns(t)
    BY <2>0, <2>3, CallBackStep
  <2>4. CASE HandsOver(t)
    BY <2>4, HandsStep
  <2>5. CASE ThreadAcks(t) \/ ThreadLeaves(t)
    BY <2>5, ReturnStep
  <2> QED
    BY <1>3, <2>1, <2>2, <2>3, <2>4, <2>5 DEF ThreadStep
<1>4. CASE WorkerStep
  <2>0. Worker \in Hosts /\ Worker \notin Threads
    BY SlotFacts
  <2>1. CASE WorkerRead
    <3>1. pipe[Worker] # <<>> /\ host[Worker].at = "read"
      BY <2>1 DEF WorkerRead, At
    <3>2. Types'
      BY <2>1, <3>1, WorkerTypes DEF IInv, At, Busy
    <3>3. /\ pipe' = [pipe EXCEPT ![Worker] = Tail(pipe[Worker])]
          /\ host' = [host EXCEPT ![Worker] =
               [at |-> IF Head(pipe[Worker]) = NULL THEN "off" ELSE "handler",
                trap |-> Head(pipe[Worker]), calls |-> 0]]
          /\ UNCHANGED <<ctx, acks, raced>>
      BY <2>0, <2>1 DEF WorkerRead, Quit, IInv, Types, HostTypes
    <3> QED
      BY <2>0, <3>1, <3>2, <3>3, ReadStep
  <2>2. CASE CallBack(Worker) \/ CallBackReturns(Worker) \/ CallBackKilled(Worker)
    BY <2>0, <2>2, CallBackStep
  <2>3. CASE WorkerCompletes
    BY <2>3, CompletesStep
  <2>4. CASE WorkerAcks
    BY <2>4, WorkerAcksStep
  <2> QED
    BY <1>4, <2>1, <2>2, <2>3, <2>4 DEF WorkerStep
<1>5. ASSUME NEW t \in Threads, ResetKills(t) PROVE IInv'
  <2>1. t \in Hosts /\ Types'
    BY <1>5, SlotFacts, ResetTypes DEF IInv, ResetStep
  <2>2. UNCHANGED <<host, ctx, acks, raced>> /\ pipe' = [pipe EXCEPT ![t] = Append(pipe[t], NULL)]
    BY <1>5, <2>1 DEF ResetKills, IInv, Types, HostTypes
  <2> QED
    BY <2>1, <2>2, NullStep
<1>6. CASE ResetQuits
  <2>1. Worker \in Hosts /\ Types'
    BY <1>6, SlotFacts, ResetTypes DEF IInv, ResetStep
  <2>2. /\ UNCHANGED <<host, ctx, acks, raced>>
        /\ pipe' = [pipe EXCEPT ![Worker] = Append(pipe[Worker], NULL)]
    BY <1>6, <2>1 DEF ResetQuits, Quit, IInv, Types, HostTypes
  <2> QED
    BY <2>1, <2>2, NullStep
<1>7. CASE UNCHANGED vars
  <2>1. Types'
    BY <1>7 DEF vars, slots, hosts, control, IInv, Types, TaskTypes, SlotTypes, HostTypes, ControlTypes
  <2>2. UNCHANGED <<pipe, ctx, acks, raced, host>>
    BY <1>7 DEF vars, hosts
  <2> QED
    BY <2>1, <2>2, QuietStep
<1> QED
  BY <1>1, <1>2, <1>3, <1>4, <1>5, <1>6, <1>7 DEF Next, ResetStep

LEMMA Invariance == Spec => []IInv
<1>1. Init => IInv
  BY Initial
<1> QED
  BY <1>1, Inductive, PTL DEF Spec

-----------------------------------------------------------------------------
(* The types. *)
THEOREM TypeCorrect == Spec => []TypeOK
<1>1. IInv => TypeOK
  BY DEF IInv, Types, TaskTypes, SlotTypes, HostTypes, ControlTypes, TypeOK, Contexts, Traps
<1> QED
  BY Invariance, <1>1, PTL

(* A trap is acked once, by its trap thread or by the worker it was handed *)
(* to, in whatever slots and threads it was and however often the machine  *)
(* was reset, unless the worker completed it before its thread looked.     *)
THEOREM AckedOnceAlways == Spec => []AckedOnce
<1>1. IInv => AckedOnce
  BY DEF IInv
<1> QED
  BY Invariance, <1>1, PTL

-----------------------------------------------------------------------------
(* A slot serves the task that took it.                                    *)
(*                                                                         *)
(* A trap that a host still has: in a pipe, or in a handler.               *)
With(h, n) ==
  \/ \E i \in DOMAIN pipe[h] : pipe[h][i] = n
  \/ Busy(h) /\ host[h].trap = n
Live(n) == \E h \in Hosts : With(h, n)
Waits(t) == task[t].at # "run"

(* A task that polls has its slot to itself, and its trap is the slot's. *)
TaskInv ==
  /\ \A t \in Tasks : Waits(t) =>
       /\ emu.at = "run" /\ lock[task[t].slot]
       /\ task[t].trap \in Traps /\ ctx[task[t].trap].used
       /\ ctx[task[t].trap].slot = task[t].slot
       /\ acked[task[t].slot] => acks[task[t].trap] > 0
  /\ \A t, u \in Tasks : Waits(t) /\ Waits(u) /\ task[t].slot = task[u].slot => t = u

(* A task waits for every trap that a host has, unless the machine is      *)
(* being reset; and they have different slots, even then.                  *)
LiveInv ==
  /\ \A n \in Traps : Live(n) /\ emu.at = "run" => \E t \in Tasks : Waits(t) /\ task[t].trap = n
  /\ \A m, n \in Traps : Live(m) /\ Live(n) /\ ctx[m].slot = ctx[n].slot => m = n

(* Who asks in a slot, and what the task there has taken for a command.    *)
CommandInv ==
  /\ \A s \in Slots \ abandoned :
       second[s] = "asked" => \E h \in Hosts : At(h, "callback") /\ Slot(h) = s
  /\ \A h \in Hosts : At(h, "callback") => asker[Slot(h)] = host[h].trap
  /\ \A t \in Tasks : task[t].at = "command" /\ task[t].slot \notin abandoned =>
       asker[task[t].slot] = task[t].trap

(* What the reset leaves behind: the threads it has gone through are idle, *)
(* and the worker ends with nothing left to do.                            *)
Drained(t) == pipe[t] = <<>> /\ host[t].at = "read"
Due(t) ==
  \/ emu.at \in {"kill", "wait"} /\ t < emu.thread
  \/ emu.at = "wait" /\ t = emu.thread /\ state[t] = 0
  \/ emu.at \in {"quit", "worker"}
QuitInv ==
  IF host[Worker].at = "off" THEN emu.at = "worker" /\ pipe[Worker] = <<>>
  ELSE \A i \in DOMAIN pipe[Worker] :
         pipe[Worker][i] = NULL <=> emu.at = "worker" /\ i = Len(pipe[Worker])
DrainInv == (\A t \in Threads : Due(t) => Drained(t)) /\ QuitInv

ServeInv == TaskInv /\ LiveInv /\ CommandInv
SlotInv == DrainInv /\ (raced = {} => ServeInv)

(* What does not change but in a step that takes a trap. *)
SlotsStay == \A n \in Traps : ctx'[n].slot = ctx[n].slot /\ ctx'[n].used = ctx[n].used
LiveShrinks == \A n \in Traps : Live(n)' => Live(n)

(* A trap that a host has is in use and not acked.                         *)
LEMMA LiveFacts ==
  ASSUME IInv, raced = {}, NEW h \in Hosts, NEW n \in Traps, With(h, n)
  PROVE  ctx[n].used /\ acks[n] = 0 /\ Live(n)
<1>0. n # NULL
  BY TrapsAssumption DEF Traps, NULL
<1>1. CASE h \in Threads
  BY <1>0, <1>1 DEF IInv, ThreadInv, ThreadOK, Early, With, Busy, Live
<1>2. CASE h = Worker
  BY <1>0, <1>2 DEF IInv, WorkerInv, Handed, With, Busy, Live
<1> QED
  BY <1>1, <1>2, SlotFacts

LEMMA BusyFacts ==
  ASSUME IInv, raced = {}, NEW h \in Hosts, Busy(h)
  PROVE  /\ host[h].trap \in Traps /\ Live(host[h].trap) /\ ctx[host[h].trap].used
         /\ Slot(h) = ctx[host[h].trap].slot /\ Slot(h) \in Slots
<1>1. host[h].trap \in Traps /\ With(h, host[h].trap)
  BY PlaceTypes DEF With
<1>2. Live(host[h].trap) /\ ctx[host[h].trap].used
  BY <1>1, LiveFacts
<1>3. Slot(h) = ctx[host[h].trap].slot /\ Slot(h) \in Slots
  BY <1>1 DEF Slot, IInv, Types, HostTypes, Contexts
<1> QED
  BY <1>1, <1>2, <1>3

(* Two hosts whose handlers ask are at different traps. *)
LEMMA AskersApart ==
  ASSUME IInv, NEW g \in Hosts, NEW h \in Hosts, g # h,
         host[g].at \in {"handler", "callback"}, host[h].at \in {"handler", "callback"}
  PROVE  host[g].trap # host[h].trap
<1>1. Busy(g) /\ Busy(h)
  BY DEF Busy
<1>2. CASE Alike(g, h)
  BY <1>1, <1>2 DEF IInv, OnceInv
<1>3. CASE ~ Alike(g, h)
  <2>1. \/ g \in Threads /\ h = Worker
        \/ g = Worker /\ h \in Threads
    BY <1>3, SlotFacts DEF Alike
  <2>2. \A t \in Threads : host[t].at \in {"handler", "callback"} => ~ ctx[host[t].trap].given
    BY DEF IInv, ThreadInv, ThreadOK
  <2>3. host[Worker].at \in {"handler", "callback"} => ctx[host[Worker].trap].given
    BY DEF IInv, WorkerInv, Handed
  <2> QED
    BY <2>1, <2>2, <2>3
<1> QED
  BY <1>2, <1>3

(* The task of a trap that a host has is the one in its slot. *)
LEMMA TaskOfTrap ==
  ASSUME IInv, raced = {}, TaskInv, LiveInv, NEW n \in Traps, Live(n),
         NEW t \in Tasks, Waits(t), task[t].slot = ctx[n].slot
  PROVE  task[t].trap = n
<1>1. emu.at = "run"
  BY DEF TaskInv
<1>2. PICK u \in Tasks : Waits(u) /\ task[u].trap = n
  BY <1>1 DEF LiveInv
<1>3. task[u].slot = task[t].slot
  BY <1>2 DEF TaskInv
<1> QED
  BY <1>2, <1>3 DEF TaskInv

LEMMA TasksGoOn ==
  ASSUME TaskInv, UNCHANGED <<task, lock, acked, acks, emu>>, SlotsStay
  PROVE  TaskInv'
  BY DEF TaskInv, Waits, SlotsStay

LEMMA LivesGoOn ==
  ASSUME LiveInv, UNCHANGED <<task, emu>>, SlotsStay, LiveShrinks
  PROVE  LiveInv'
<1>1. \A n \in Traps : Live(n)' /\ emu'.at = "run" => \E t \in Tasks : Waits(t)' /\ task'[t].trap = n
  BY DEF LiveInv, LiveShrinks, Waits
<1>2. \A m, n \in Traps : Live(m)' /\ Live(n)' /\ ctx'[m].slot = ctx'[n].slot => m = n
  BY DEF LiveInv, LiveShrinks, SlotsStay
<1> QED
  BY <1>1, <1>2 DEF LiveInv

LEMMA CommandsGoOn ==
  ASSUME IInv, CommandInv, UNCHANGED <<task, second, asker, abandoned>>, SlotsStay,
         \A h \in Hosts : host'[h].at = "callback" <=> host[h].at = "callback",
         \A h \in Hosts : host[h].at = "callback" => host'[h].trap = host[h].trap
  PROVE  CommandInv'
<1>1. \A h \in Hosts : At(h, "callback") => host[h].trap \in Traps /\ Slot(h)' = Slot(h)
  <2> SUFFICES ASSUME NEW h \in Hosts, At(h, "callback")
               PROVE  host[h].trap \in Traps /\ Slot(h)' = Slot(h)
    OBVIOUS
  <2>1. host[h].trap \in Traps
    BY PlaceTypes DEF At, Busy
  <2> QED
    BY <2>1 DEF At, Slot, SlotsStay
<1>2. \A h \in Hosts : At(h, "callback")' <=> At(h, "callback")
  BY DEF At
<1> QED
  BY <1>1, <1>2 DEF CommandInv, At
-----------------------------------------------------------------------------
(* What the hosts have after a step that fills no pipe, after one that     *)
(* takes from a pipe, and after one that puts there what a host had.       *)
LEMMA LiveLeft ==
  ASSUME pipe' = pipe, \A h \in Hosts : Busy(h)' => Busy(h) /\ host'[h].trap = host[h].trap
  PROVE  LiveShrinks
  BY DEF LiveShrinks, Live, With

LEMMA LiveTaken ==
  ASSUME IInv, NEW h \in Hosts, pipe[h] # <<>>,
         pipe' = [pipe EXCEPT ![h] = Tail(pipe[h])],
         \A g \in Hosts \ {h} : host'[g] = host[g],
         host'[h].trap = Head(pipe[h])
  PROVE  LiveShrinks
<1>1. /\ 1 \in DOMAIN pipe[h] /\ Head(pipe[h]) = pipe[h][1]
      /\ \A i \in DOMAIN pipe'[h] : i + 1 \in DOMAIN pipe[h] /\ pipe'[h][i] = pipe[h][i + 1]
  <2>1. pipe'[h] = Tail(pipe[h]) /\ pipe[h] \in Seq(0 .. MaxTraps)
    BY PlaceTypes DEF IInv, Types, HostTypes
  <2>2. /\ 1 \in DOMAIN pipe[h] /\ Head(pipe[h]) = pipe[h][1]
        /\ \A i \in DOMAIN Tail(pipe[h]) : i + 1 \in DOMAIN pipe[h] /\ Tail(pipe[h])[i] = pipe[h][i + 1]
    BY <2>1, TailPositions
  <2> QED
    BY <2>1, <2>2
<1>2. \A g \in Hosts \ {h} : pipe'[g] = pipe[g] /\ host'[g] = host[g]
  BY DEF IInv, Types, HostTypes
<1>3. \A n \in Traps : With(h, n)' => With(h, n)
  BY <1>1 DEF With
<1>4. \A g \in Hosts \ {h} : \A n \in Traps : With(g, n)' => With(g, n)
  BY <1>2 DEF With, Busy
<1> QED
  BY <1>3, <1>4 DEF LiveShrinks, Live

LEMMA LivePut ==
  ASSUME IInv, NEW h \in Hosts, NEW e \in 0 .. MaxTraps, e \in Traps => Live(e),
         pipe' = [pipe EXCEPT ![h] = Append(pipe[h], e)],
         \A g \in Hosts : Busy(g)' => Busy(g) /\ host'[g].trap = host[g].trap
  PROVE  LiveShrinks
<1>1. \A i \in DOMAIN pipe'[h] :
        (i \in DOMAIN pipe[h] /\ pipe'[h][i] = pipe[h][i]) \/ pipe'[h][i] = e
  <2>1. pipe'[h] = Append(pipe[h], e) /\ pipe[h] \in Seq(0 .. MaxTraps)
    BY PlaceTypes DEF IInv, Types, HostTypes
  <2> QED
    BY <2>1, AppendPositions
<1>2. \A g \in Hosts \ {h} : pipe'[g] = pipe[g]
  BY DEF IInv, Types, HostTypes
<1>3. \A n \in Traps : With(h, n)' => With(h, n) \/ n = e
  BY <1>1 DEF With
<1>4. \A g \in Hosts \ {h} : \A n \in Traps : With(g, n)' => With(g, n)
  BY <1>2 DEF With
<1> QED
  BY <1>3, <1>4 DEF LiveShrinks, Live

(* Nobody waits in a reset. *)
LEMMA TasksInReset ==
  ASSUME TaskInv, emu.at # "run", task' = task
  PROVE  TaskInv'
  BY DEF TaskInv, Waits

LEMMA LivesInReset ==
  ASSUME LiveInv, emu'.at # "run", SlotsStay, LiveShrinks
  PROVE  LiveInv'
  BY DEF LiveInv, LiveShrinks, SlotsStay

-----------------------------------------------------------------------------
(* The host steps that touch neither the slots nor what others ask there.  *)
LEMMA ReturnServes ==
  ASSUME IInv, ServeInv, NEW t \in Threads, HandlerReturns(t) \/ ThreadLeaves(t)
  PROVE  ServeInv'
<1>1. t \in Hosts /\ (At(t, "return") => Busy(t) /\ host[t].trap \in Traps)
  BY SlotFacts, PlaceTypes DEF At, Busy
<1>2. UNCHANGED <<task, lock, acked, second, asker, pipe, acks, emu, abandoned>>
  BY DEF HandlerReturns, ThreadLeaves, slots, control
<1>3. SlotsStay
  <2>1. CASE HandlerReturns(t)
    BY <2>1 DEF HandlerReturns, SlotsStay
  <2>2. CASE ThreadLeaves(t)
    BY <1>1, <2>2 DEF ThreadLeaves, SlotsStay, IInv, Types, HostTypes, Contexts
  <2> QED
    BY <2>1, <2>2
<1>4. \A h \in Hosts : \/ host'[h] = host[h]
                       \/ h = t /\ host[t].at \in {"handler", "return"} /\ host'[t].at = "read"
                       \/ h = t /\ host[t].at \in {"handler", "return"} /\ host'[t].at = "return"
                          /\ host'[t].trap = host[t].trap
  BY <1>1 DEF HandlerReturns, ThreadLeaves, Go, At, Idle, IInv, Types, HostTypes
<1>5. \A h \in Hosts : Busy(h)' => Busy(h) /\ host'[h].trap = host[h].trap
  BY <1>4 DEF Busy
<1>6. LiveShrinks
  BY <1>2, <1>5, LiveLeft
<1>7. /\ \A h \in Hosts : host'[h].at = "callback" <=> host[h].at = "callback"
      /\ \A h \in Hosts : host[h].at = "callback" => host'[h].trap = host[h].trap
  BY <1>4
<1> QED
  BY <1>2, <1>3, <1>6, <1>7, TasksGoOn, LivesGoOn, CommandsGoOn DEF ServeInv

LEMMA HandsServes ==
  ASSUME IInv, ServeInv, raced = {}, NEW t \in Threads, HandsOver(t)
  PROVE  ServeInv'
<1>1. t \in Hosts /\ Worker \in Hosts /\ host[t].at = "handler" /\ host[t].trap \in Traps
      /\ Live(host[t].trap) /\ host[t].trap \in 0 .. MaxTraps
  <2>1. t \in Hosts /\ Worker \in Hosts /\ host[t].at = "handler" /\ Busy(t)
    BY SlotFacts DEF HandsOver, At, Busy
  <2> QED
    BY <2>1, BusyFacts, TrapsAssumption DEF Traps
<1>2. UNCHANGED <<task, lock, acked, second, asker, acks, emu, abandoned>>
  BY DEF HandsOver, slots, control
<1>3. SlotsStay
  BY <1>1 DEF HandsOver, SlotsStay, IInv, Types, HostTypes, Contexts
<1>4. \A h \in Hosts : \/ host'[h] = host[h]
                       \/ h = t /\ host'[t].at = "return" /\ host'[t].trap = host[t].trap
  BY <1>1 DEF HandsOver, Go, IInv, Types, HostTypes
<1>5. \A h \in Hosts : Busy(h)' => Busy(h) /\ host'[h].trap = host[h].trap
  BY <1>1, <1>4 DEF Busy
<1>6. LiveShrinks
  <2>1. pipe' = [pipe EXCEPT ![Worker] = Append(pipe[Worker], host[t].trap)]
    BY DEF HandsOver
  <2> QED
    BY <1>1, <1>5, <2>1, LivePut
<1>7. /\ \A h \in Hosts : host'[h].at = "callback" <=> host[h].at = "callback"
      /\ \A h \in Hosts : host[h].at = "callback" => host'[h].trap = host[h].trap
  BY <1>1, <1>4
<1> QED
  BY <1>2, <1>3, <1>6, <1>7, TasksGoOn, LivesGoOn, CommandsGoOn DEF ServeInv

LEMMA DrainServes ==
  ASSUME IInv, ServeInv, NEW t \in Threads, ThreadDrains(t)
  PROVE  ServeInv'
<1>1. t \in Hosts /\ pipe'[t] = <<>> /\ DOMAIN pipe'[t] = {}
      /\ \A g \in Hosts : g # t => pipe'[g] = pipe[g]
  BY SlotFacts DEF ThreadDrains, IInv, Types, HostTypes
<1>2. UNCHANGED <<task, lock, acked, second, asker, host, ctx, acks, emu, abandoned>>
  BY DEF ThreadDrains, slots
<1>3. SlotsStay
  BY <1>2 DEF SlotsStay
<1>4. LiveShrinks
  BY <1>1, <1>2 DEF LiveShrinks, Live, With, Busy
<1> QED
  BY <1>2, <1>3, <1>4, TasksGoOn, LivesGoOn, CommandsGoOn DEF ServeInv

LEMMA WorkerReadServes ==
  ASSUME IInv, ServeInv, WorkerRead
  PROVE  ServeInv'
<1>1. Worker \in Hosts /\ host[Worker].at = "read" /\ pipe[Worker] # <<>>
  BY SlotFacts DEF WorkerRead, At
<1>2. UNCHANGED <<task, lock, acked, second, asker, ctx, acks, emu, abandoned>>
  BY DEF WorkerRead, slots, control
<1>3. SlotsStay
  BY <1>2 DEF SlotsStay
<1>4. /\ \A h \in Hosts \ {Worker} : host'[h] = host[h]
      /\ host'[Worker].trap = Head(pipe[Worker])
      /\ host'[Worker].at \in {"off", "handler"}
      /\ pipe' = [pipe EXCEPT ![Worker] = Tail(pipe[Worker])]
  BY <1>1 DEF WorkerRead, IInv, Types, HostTypes
<1>5. LiveShrinks
  BY <1>1, <1>4, LiveTaken
<1>6. /\ \A h \in Hosts : host'[h].at = "callback" <=> host[h].at = "callback"
      /\ \A h \in Hosts : host[h].at = "callback" => host'[h].trap = host[h].trap
  BY <1>1, <1>4
<1> QED
  BY <1>2, <1>3, <1>5, <1>6, TasksGoOn, LivesGoOn, CommandsGoOn DEF ServeInv

LEMMA CompletesServes ==
  ASSUME IInv, ServeInv, WorkerCompletes
  PROVE  ServeInv'
<1>1. Worker \in Hosts /\ host[Worker].at = "handler" /\ Busy(Worker) /\ host[Worker].trap \in Traps
  BY SlotFacts, PlaceTypes DEF WorkerCompletes, At, Busy
<1>2. UNCHANGED <<task, lock, acked, second, asker, pipe, acks, emu, abandoned>>
  BY DEF WorkerCompletes, slots, control
<1>3. SlotsStay
  BY <1>1 DEF WorkerCompletes, SlotsStay, IInv, Types, HostTypes, Contexts
<1>4. /\ \A h \in Hosts \ {Worker} : host'[h] = host[h]
      /\ host'[Worker].trap = host[Worker].trap /\ host'[Worker].at \in {"spin", "read"}
  BY <1>1 DEF WorkerCompletes, Go, IInv, Types, HostTypes
<1>5. \A h \in Hosts : Busy(h)' => Busy(h) /\ host'[h].trap = host[h].trap
  BY <1>1, <1>4 DEF Busy
<1>6. LiveShrinks
  BY <1>2, <1>5, LiveLeft
<1>7. /\ \A h \in Hosts : host'[h].at = "callback" <=> host[h].at = "callback"
      /\ \A h \in Hosts : host[h].at = "callback" => host'[h].trap = host[h].trap
  BY <1>1, <1>4
<1> QED
  BY <1>2, <1>3, <1>6, <1>7, TasksGoOn, LivesGoOn, CommandsGoOn DEF ServeInv
-----------------------------------------------------------------------------
(* The ack of a trap releases its task, the one that polls its slot.       *)
LEMMA AckServes ==
  ASSUME IInv, ServeInv, raced = {}, NEW h \in Hosts, host[h].at \in {"return", "spin"},
         Ack(h), UNCHANGED <<task, lock, second, asker, pipe, emu, abandoned>>
  PROVE  ServeInv'
<1> DEFINE n == host[h].trap
<1>1. /\ Busy(h) /\ n \in Traps /\ Live(n) /\ Slot(h) = ctx[n].slot /\ Slot(h) \in Slots
  BY BusyFacts DEF Busy
<1>2. SlotsStay
  BY <1>1 DEF Ack, SlotsStay, IInv, Types, HostTypes, Contexts
<1>3. \A g \in Hosts : host'[g] = host[g] \/ (g = h /\ host'[g].at = "read")
  BY DEF Ack, Idle, IInv, Types, HostTypes
<1>4. LiveShrinks
  <2>1. \A g \in Hosts : Busy(g)' => Busy(g) /\ host'[g].trap = host[g].trap
    BY <1>3 DEF Busy
  <2> QED
    BY <2>1, LiveLeft
<1>5. LiveInv'
  BY <1>2, <1>4, LivesGoOn DEF ServeInv
<1>6. CommandInv'
  <2>1. /\ \A g \in Hosts : host'[g].at = "callback" <=> host[g].at = "callback"
        /\ \A g \in Hosts : host[g].at = "callback" => host'[g].trap = host[g].trap
    BY <1>3
  <2> QED
    BY <1>2, <2>1, CommandsGoOn DEF ServeInv
<1>7. TaskInv'
  <2>1. \A t \in Tasks : Waits(t)' <=> Waits(t)
    BY DEF Waits
  <2>2. ASSUME NEW t \in Tasks, Waits(t), acked'[task[t].slot] PROVE acks'[task[t].trap] > 0
    <3>1. task[t].trap \in Traps /\ task[t].slot \in Slots
      BY <2>2 DEF ServeInv, TaskInv, IInv, Types, TaskTypes
    <3>2. CASE task[t].slot = ctx[n].slot
      <4>1. task[t].trap = n
        BY <1>1, <2>2, <3>2, TaskOfTrap DEF ServeInv
      <4>2. acks'[n] = acks[n] + 1 /\ acks[n] \in Nat
        BY <1>1 DEF Ack, IInv, Types, HostTypes
      <4> QED
        BY <4>1, <4>2
    <3>3. CASE task[t].slot # ctx[n].slot
      <4>1. acked[task[t].slot]
        BY <1>1, <2>2, <3>1, <3>3 DEF Ack, IInv, Types, SlotTypes
      <4>2. acks[task[t].trap] > 0 /\ acks[task[t].trap] \in Nat
        BY <2>2, <3>1, <4>1 DEF ServeInv, TaskInv, IInv, Types, HostTypes
      <4>3. acks'[task[t].trap] >= acks[task[t].trap] /\ acks'[task[t].trap] \in Nat
        BY <1>1, <3>1, <4>2 DEF Ack, IInv, Types, HostTypes
      <4> QED
        BY <4>2, <4>3
    <3> QED
      BY <3>2, <3>3
  <2>3. \A t \in Tasks : Waits(t)' =>
          /\ emu'.at = "run" /\ lock'[task'[t].slot]
          /\ task'[t].trap \in Traps /\ ctx'[task'[t].trap].used
          /\ ctx'[task'[t].trap].slot = task'[t].slot
          /\ acked'[task'[t].slot] => acks'[task'[t].trap] > 0
    BY <1>2, <2>1, <2>2 DEF ServeInv, TaskInv, SlotsStay
  <2>4. \A t, u \in Tasks : Waits(t)' /\ Waits(u)' /\ task'[t].slot = task'[u].slot => t = u
    BY <2>1 DEF ServeInv, TaskInv
  <2> QED
    BY <2>3, <2>4 DEF TaskInv
<1> QED
  BY <1>5, <1>6, <1>7 DEF ServeInv

-----------------------------------------------------------------------------
(* A command is asked for, done, or cut off by a reset. *)
LEMMA HostsGoOn ==
  ASSUME UNCHANGED <<task, lock, acked, pipe, ctx, acks, emu>>, TaskInv, LiveInv,
         \A h \in Hosts : Busy(h)' => Busy(h) /\ host'[h].trap = host[h].trap
  PROVE  TaskInv' /\ LiveInv'
<1>1. SlotsStay
  BY DEF SlotsStay
<1>2. LiveShrinks
  BY LiveLeft
<1> QED
  BY <1>1, <1>2, TasksGoOn, LivesGoOn

LEMMA SameSlot ==
  ASSUME IInv, LiveInv, raced = {}, NEW g \in Hosts, NEW h \in Hosts, g # h,
         host[g].at \in {"handler", "callback"}, host[h].at \in {"handler", "callback"}
  PROVE  Slot(g) # Slot(h)
<1>1. Busy(g) /\ Busy(h)
  BY DEF Busy
<1>2. host[g].trap # host[h].trap
  BY AskersApart
<1> QED
  BY <1>1, <1>2, BusyFacts DEF LiveInv

LEMMA CallBackServes ==
  ASSUME IInv, ServeInv, raced = {}, NEW h \in Hosts, CallBack(h)
  PROVE  ServeInv'
<1>1. /\ host[h].at = "handler" /\ Busy(h) /\ host[h].trap \in Traps /\ Live(host[h].trap)
      /\ Slot(h) = ctx[host[h].trap].slot /\ Slot(h) \in Slots
  BY BusyFacts DEF CallBack, At, Busy
<1>2. UNCHANGED <<task, lock, acked, pipe, ctx, acks, emu, abandoned>>
  BY DEF CallBack, control
<1>3. /\ \A g \in Hosts \ {h} : host'[g] = host[g]
      /\ host'[h].trap = host[h].trap
      /\ host'[h].at = IF kill[Slot(h)] = 1 THEN "callback" ELSE "handler"
  BY <1>1 DEF CallBack, IInv, Types, HostTypes
<1>4. TaskInv' /\ LiveInv'
  <2>1. \A g \in Hosts : Busy(g)' => Busy(g) /\ host'[g].trap = host[g].trap
    BY <1>1, <1>3 DEF Busy
  <2> QED
    BY <1>2, <2>1, HostsGoOn DEF ServeInv
<1>5. \A g \in Hosts : Slot(g)' = Slot(g)
  BY <1>2, <1>3 DEF Slot
<1>6. CASE kill[Slot(h)] # 1
  <2>1. UNCHANGED <<task, second, asker, abandoned>> /\ SlotsStay
    BY <1>2, <1>6 DEF CallBack, SlotsStay
  <2>2. /\ \A g \in Hosts : host'[g].at = "callback" <=> host[g].at = "callback"
        /\ \A g \in Hosts : host[g].at = "callback" => host'[g].trap = host[g].trap
    BY <1>1, <1>3, <1>6
  <2> QED
    BY <1>4, <2>1, <2>2, CommandsGoOn DEF ServeInv
<1>7. CASE kill[Slot(h)] = 1
  <2>1. /\ second'[Slot(h)] = "asked" /\ asker'[Slot(h)] = host[h].trap /\ At(h, "callback")'
        /\ \A s \in Slots \ {Slot(h)} : second'[s] = second[s] /\ asker'[s] = asker[s]
        /\ \A g \in Hosts \ {h} : At(g, "callback")' <=> At(g, "callback")
    BY <1>1, <1>3, <1>7 DEF CallBack, At, IInv, Types, SlotTypes
  <2>2. ASSUME NEW s \in Slots \ abandoned', second'[s] = "asked"
        PROVE  \E g \in Hosts : At(g, "callback")' /\ Slot(g)' = s
    <3>1. CASE s = Slot(h)
      BY <1>5, <2>1, <3>1
    <3>2. CASE s # Slot(h)
      <4>1. PICK g \in Hosts : At(g, "callback") /\ Slot(g) = s
        BY <1>2, <2>1, <2>2, <3>2 DEF ServeInv, CommandInv
      <4> QED
        BY <1>5, <2>1, <3>2, <4>1
    <3> QED
      BY <3>1, <3>2
  <2>3. ASSUME NEW g \in Hosts, At(g, "callback")'
        PROVE  asker'[Slot(g)'] = host'[g].trap
    <3>1. CASE g = h
      BY <1>3, <1>5, <2>1, <3>1
    <3>2. CASE g # h
      <4>1. At(g, "callback") /\ Busy(g)
        BY <2>1, <2>3, <3>2 DEF At, Busy
      <4>2. Slot(g) # Slot(h) /\ Slot(g) \in Slots
        BY <1>1, <3>2, <4>1, SameSlot, BusyFacts DEF At, ServeInv
      <4> QED
        BY <1>3, <1>5, <2>1, <3>2, <4>1, <4>2 DEF ServeInv, CommandInv
    <3> QED
      BY <3>1, <3>2
  <2>4. ASSUME NEW t \in Tasks, task[t].at = "command", task[t].slot \notin abandoned
        PROVE  asker'[task[t].slot] = task[t].trap
    <3>1. task[t].slot \in Slots /\ Waits(t)
      BY <2>4 DEF Waits, IInv, Types, TaskTypes
    <3>2. task[t].slot = Slot(h) => task[t].trap = host[h].trap
      BY <1>1, <3>1, TaskOfTrap DEF ServeInv
    <3>3. asker[task[t].slot] = task[t].trap
      BY <2>4 DEF ServeInv, CommandInv
    <3> QED
      BY <2>1, <3>1, <3>2, <3>3
  <2>5. CommandInv'
    BY <1>2, <2>2, <2>3, <2>4 DEF CommandInv
  <2> QED
    BY <1>4, <2>5 DEF ServeInv
<1> QED
  BY <1>6, <1>7

LEMMA BackServes ==
  ASSUME IInv, ServeInv, raced = {}, NEW h \in Hosts, CallBackReturns(h) \/ CallBackKilled(h)
  PROVE  ServeInv'
<1>1. /\ host[h].at = "callback" /\ Busy(h) /\ host[h].trap \in Traps /\ Slot(h) \in Slots
  BY BusyFacts DEF CallBackReturns, CallBackKilled, At, Busy
<1>2. UNCHANGED <<task, lock, acked, asker, pipe, ctx, acks, emu>>
  BY DEF CallBackReturns, CallBackKilled, control, slots
<1>3. /\ \A g \in Hosts \ {h} : host'[g] = host[g]
      /\ host'[h].trap = host[h].trap /\ host'[h].at = "handler"
  BY <1>1 DEF CallBackReturns, CallBackKilled, Go, IInv, Types, HostTypes
<1>4. TaskInv' /\ LiveInv'
  <2>1. \A g \in Hosts : Busy(g)' => Busy(g) /\ host'[g].trap = host[g].trap
    BY <1>1, <1>3 DEF Busy
  <2> QED
    BY <1>2, <2>1, HostsGoOn DEF ServeInv
<1>5. \A g \in Hosts : Slot(g)' = Slot(g)
  BY <1>2, <1>3 DEF Slot
<1>6. \A g \in Hosts : At(g, "callback")' <=> At(g, "callback") /\ g # h
  BY <1>1, <1>3 DEF At
<1>7. /\ abandoned \subseteq abandoned'
      /\ \A s \in Slots \ abandoned' : second'[s] = "asked" => second[s] = "asked" /\ s # Slot(h)
  <2>1. CASE CallBackReturns(h)
    BY <1>1, <2>1 DEF CallBackReturns, IInv, Types, SlotTypes
  <2>2. CASE CallBackKilled(h)
    BY <2>2 DEF CallBackKilled, slots
  <2> QED
    BY <2>1, <2>2
<1>8. ASSUME NEW s \in Slots \ abandoned', second'[s] = "asked"
      PROVE  \E g \in Hosts : At(g, "callback")' /\ Slot(g)' = s
  <2>1. s \in Slots \ abandoned /\ second[s] = "asked" /\ s # Slot(h)
    BY <1>7, <1>8
  <2>2. PICK g \in Hosts : At(g, "callback") /\ Slot(g) = s
    BY <2>1 DEF ServeInv, CommandInv
  <2> QED
    BY <1>5, <1>6, <2>1, <2>2
<1>9. \A g \in Hosts : At(g, "callback")' => asker'[Slot(g)'] = host'[g].trap
  BY <1>2, <1>3, <1>5, <1>6 DEF ServeInv, CommandInv
<1>10. \A t \in Tasks : task'[t].at = "command" /\ task'[t].slot \notin abandoned' =>
         asker'[task'[t].slot] = task'[t].trap
  BY <1>2, <1>7 DEF ServeInv, CommandInv
<1> QED
  BY <1>4, <1>8, <1>9, <1>10 DEF ServeInv, CommandInv

LEMMA ReadServes ==
  ASSUME IInv, ServeInv, NEW t \in Threads, ThreadRead(t)
  PROVE  ServeInv'
<1> DEFINE n == Head(pipe[t])
<1>1. /\ t \in Hosts /\ host[t].at = "read" /\ pipe[t] # <<>> /\ n \in Traps /\ ctx[n].slot \in Slots
  <2>1. t \in Hosts /\ host[t].at = "read" /\ pipe[t] # <<>> /\ n # NULL
    BY SlotFacts DEF ThreadRead, At
  <2>2. n \in Traps
    BY <2>1, PlaceTypes, TailPositions
  <2> QED
    BY <2>1, <2>2 DEF IInv, Types, HostTypes, Contexts
<1>2. UNCHANGED <<task, lock, acked, asker, ctx, acks, emu, abandoned>>
  BY DEF ThreadRead, control
<1>3. SlotsStay
  BY <1>2 DEF SlotsStay
<1>4. /\ \A h \in Hosts \ {t} : host'[h] = host[h]
      /\ host'[t].trap = n /\ host'[t].at = "handler"
      /\ pipe' = [pipe EXCEPT ![t] = Tail(pipe[t])]
  BY <1>1 DEF ThreadRead, IInv, Types, HostTypes
<1>5. TaskInv' /\ LiveInv'
  BY <1>1, <1>2, <1>3, <1>4, LiveTaken, TasksGoOn, LivesGoOn DEF ServeInv
<1>6. /\ \A h \in Hosts : At(h, "callback")' <=> At(h, "callback")
      /\ \A h \in Hosts : At(h, "callback") => h # t /\ Slot(h)' = Slot(h)
  BY <1>1, <1>2, <1>4 DEF At, Slot
<1>7. \A s \in Slots : second'[s] = "asked" => second[s] = "asked"
  BY <1>1 DEF ThreadRead, IInv, Types, SlotTypes
<1>8. ASSUME NEW s \in Slots \ abandoned', second'[s] = "asked"
      PROVE  \E g \in Hosts : At(g, "callback")' /\ Slot(g)' = s
  <2>1. s \in Slots \ abandoned /\ second[s] = "asked"
    BY <1>2, <1>7, <1>8
  <2>2. PICK g \in Hosts : At(g, "callback") /\ Slot(g) = s
    BY <2>1 DEF ServeInv, CommandInv
  <2> QED
    BY <1>6, <2>1, <2>2
<1>9. \A g \in Hosts : At(g, "callback")' => asker'[Slot(g)'] = host'[g].trap
  BY <1>2, <1>4, <1>6 DEF ServeInv, CommandInv
<1>10. \A u \in Tasks : task'[u].at = "command" /\ task'[u].slot \notin abandoned' =>
         asker'[task'[u].slot] = task'[u].trap
  BY <1>2 DEF ServeInv, CommandInv
<1> QED
  BY <1>5, <1>8, <1>9, <1>10 DEF ServeInv, CommandInv

-----------------------------------------------------------------------------
(* The 68k: a command, and the task that goes on. *)
LEMMA CommandServes ==
  ASSUME IInv, ServeInv, raced = {}, NEW t \in Tasks, TaskCommand(t) \/ TaskCommandDone(t)
  PROVE  ServeInv'
<1>1. UNCHANGED <<lock, acked, asker, pipe, host, ctx, acks, emu, abandoned>>
  BY DEF TaskCommand, TaskCommandDone, hosts, control
<1>2. /\ \A u \in Tasks : Waits(u)' <=> Waits(u)
      /\ \A u \in Tasks : task'[u].slot = task[u].slot /\ task'[u].trap = task[u].trap
      /\ \A u \in Tasks \ {t} : task'[u] = task[u]
  BY DEF TaskCommand, TaskCommandDone, Waits, IInv, Types, TaskTypes
<1>3. TaskInv'
  BY <1>1, <1>2 DEF ServeInv, TaskInv
<1>4. LiveInv'
  <2>1. \A n \in Traps : Live(n)' <=> Live(n)
    BY <1>1 DEF Live, With, Busy
  <2>2. \A n \in Traps : Live(n)' /\ emu'.at = "run" => \E u \in Tasks : Waits(u)' /\ task'[u].trap = n
    BY <1>1, <1>2, <2>1 DEF ServeInv, LiveInv
  <2>3. \A m, n \in Traps : Live(m)' /\ Live(n)' /\ ctx'[m].slot = ctx'[n].slot => m = n
    BY <1>1, <2>1 DEF ServeInv, LiveInv
  <2> QED
    BY <2>2, <2>3 DEF LiveInv
<1>5. \A s \in Slots : second'[s] = "asked" => second[s] = "asked"
  BY DEF TaskCommand, TaskCommandDone, IInv, Types, TaskTypes, SlotTypes
<1>6. \A h \in Hosts : Slot(h)' = Slot(h) /\ (At(h, "callback")' <=> At(h, "callback"))
  BY <1>1 DEF Slot, At
<1>7. /\ \A s \in Slots \ abandoned' :
           second'[s] = "asked" => \E h \in Hosts : At(h, "callback")' /\ Slot(h)' = s
      /\ \A h \in Hosts : At(h, "callback")' => asker'[Slot(h)'] = host'[h].trap
  BY <1>1, <1>5, <1>6 DEF ServeInv, CommandInv
<1>8. ASSUME NEW u \in Tasks, task'[u].at = "command", task[u].slot \notin abandoned
      PROVE  asker[task[u].slot] = task[u].trap
  <2>1. CASE task[u].at = "command"
    BY <1>8, <2>1 DEF ServeInv, CommandInv
  <2>2. CASE task[u].at # "command"
    <3>1. u = t /\ TaskCommand(t)
      BY <1>2, <1>8, <2>2 DEF TaskCommandDone, IInv, Types, TaskTypes
    <3>2. /\ task[t].slot \in Slots \ abandoned /\ second[task[t].slot] = "asked" /\ Waits(t)
      BY <1>8, <3>1 DEF TaskCommand, Waits, IInv, Types, TaskTypes
    <3>3. PICK h \in Hosts : At(h, "callback") /\ Slot(h) = task[t].slot
      BY <3>2 DEF ServeInv, CommandInv
    <3>4. /\ host[h].trap \in Traps /\ Live(host[h].trap)
          /\ ctx[host[h].trap].slot = task[t].slot
      BY <3>3, BusyFacts DEF At, Busy
    <3>5. task[t].trap = host[h].trap
      BY <3>2, <3>4, TaskOfTrap DEF ServeInv
    <3> QED
      BY <3>1, <3>3, <3>5 DEF ServeInv, CommandInv
  <2> QED
    BY <2>1, <2>2
<1>9. CommandInv'
  BY <1>1, <1>2, <1>7, <1>8 DEF CommandInv
<1> QED
  BY <1>3, <1>4, <1>9 DEF ServeInv

LEMMA ResumeServes ==
  ASSUME IInv, ServeInv, raced = {}, NEW t \in Tasks, TaskResumes(t)
  PROVE  ServeInv'
<1>1. /\ Waits(t) /\ acked[task[t].slot] /\ task[t].slot \in Slots
      /\ acks[task[t].trap] > 0
  BY DEF TaskResumes, Waits, ServeInv, TaskInv, IInv, Types, TaskTypes
<1>2. UNCHANGED <<second, asker, pipe, host, ctx, acks, emu, abandoned>>
  BY DEF TaskResumes, hosts, control
<1>3. /\ ~ Waits(t)' /\ task'[t].at = "run"
      /\ \A u \in Tasks \ {t} : task'[u] = task[u]
      /\ \A u \in Tasks : Waits(u)' => u # t /\ Waits(u)
  BY DEF TaskResumes, Waits, Running, IInv, Types, TaskTypes
<1>4. /\ \A s \in Slots \ {task[t].slot} : lock'[s] = lock[s] /\ acked'[s] = acked[s]
  BY DEF TaskResumes, IInv, Types, SlotTypes
<1>5. TaskInv'
  <2>1. \A u \in Tasks : Waits(u)' => task[u].slot \in Slots \ {task[t].slot}
    BY <1>1, <1>3 DEF ServeInv, TaskInv, IInv, Types, TaskTypes
  <2> QED
    BY <1>2, <1>3, <1>4, <2>1 DEF ServeInv, TaskInv
<1>6. LiveInv'
  <2>1. \A n \in Traps : Live(n)' <=> Live(n)
    BY <1>2 DEF Live, With, Busy
  <2>2. ASSUME NEW n \in Traps, Live(n), emu.at = "run"
        PROVE  \E u \in Tasks : Waits(u)' /\ task'[u].trap = n
    <3>1. PICK u \in Tasks : Waits(u) /\ task[u].trap = n
      BY <2>2 DEF ServeInv, LiveInv
    <3>2. acks[n] = 0
      BY <2>2, LiveFacts DEF Live
    <3>3. u # t
      BY <1>1, <3>1, <3>2
    <3>4. task'[u] = task[u]
      BY <1>3, <3>3
    <3> QED
      BY <3>1, <3>4 DEF Waits
  <2>3. \A m, n \in Traps : Live(m)' /\ Live(n)' /\ ctx'[m].slot = ctx'[n].slot => m = n
    BY <1>2, <2>1 DEF ServeInv, LiveInv
  <2> QED
    BY <1>2, <2>1, <2>2, <2>3 DEF LiveInv
<1>7. CommandInv'
  <2>1. \A h \in Hosts : Slot(h)' = Slot(h) /\ (At(h, "callback")' <=> At(h, "callback"))
    BY <1>2 DEF Slot, At
  <2>2. \A u \in Tasks : task'[u].at = "command" => task'[u] = task[u]
    BY <1>3
  <2> QED
    BY <1>2, <2>1, <2>2 DEF ServeInv, CommandInv
<1> QED
  BY <1>5, <1>6, <1>7 DEF ServeInv

(* A task takes a slot that no task that polls and no trap left has. *)
LEMMA TrapServes ==
  ASSUME IInv, ServeInv, raced = {}, NEW t \in Tasks, Trap(t)
  PROVE  ServeInv'
<1>1. PICK n \in Nat : n = Taken + 1
  BY TakenFacts DEF IInv, Types
<1>2. n \in Traps /\ n \in 0 .. MaxTraps /\ ~ ctx[n].used
  <2>1. Taken \in 0 .. MaxTraps /\ Taken < MaxTraps
    BY TakenFacts DEF Trap, IInv, Types
  <2>2. n \in Traps /\ n \in 0 .. MaxTraps /\ ~ (n <= Taken)
    BY <1>1, <2>1, TrapsAssumption DEF Traps
  <2> QED
    BY <2>2 DEF IInv, UsedInv
<1>3. PICK s \in Slots :
        /\ ~ lock[s] /\ lock' = [lock EXCEPT ![s] = TRUE] /\ acked' = [acked EXCEPT ![s] = FALSE]
        /\ task' = [task EXCEPT ![t] = [at |-> "wait", slot |-> s, trap |-> n]]
        /\ ctx' = [ctx EXCEPT ![n] = [@ EXCEPT !.used = TRUE, !.slot = s]]
        /\ pipe' = [pipe EXCEPT ![trap_thread_index] = Append(@, n)]
  BY <1>1 DEF Trap
<1>4. /\ UNCHANGED <<second, asker, host, acks, raced, emu, abandoned>>
      /\ emu.at = "run" /\ task[t].at = "run" /\ trap_thread_index \in Hosts
  BY SlotFacts DEF Trap, control, IInv, Types, HostTypes
<1>5. /\ lock'[s] /\ ~ acked'[s]
      /\ \A r \in Slots \ {s} : lock'[r] = lock[r] /\ acked'[r] = acked[r]
  BY <1>3 DEF IInv, Types, SlotTypes
<1>6. /\ ctx'[n].used /\ ctx'[n].slot = s
      /\ \A m \in Traps \ {n} : ctx'[m] = ctx[m]
  BY <1>2, <1>3 DEF IInv, Types, HostTypes, Contexts
<1>7. /\ task'[t] = [at |-> "wait", slot |-> s, trap |-> n]
      /\ \A u \in Tasks \ {t} : task'[u] = task[u]
  BY <1>3 DEF IInv, Types, TaskTypes
<1>8. /\ Waits(t)' /\ ~ Waits(t) /\ task'[t].slot = s /\ task'[t].trap = n /\ task'[t].at = "wait"
      /\ \A u \in Tasks \ {t} : Waits(u)' <=> Waits(u)
  BY <1>4, <1>7 DEF Waits
<1>9. \A u \in Tasks : Waits(u) => task[u].slot \in Slots \ {s} /\ task[u].trap \in Traps \ {n}
  BY <1>2, <1>3 DEF ServeInv, TaskInv, IInv, Types, TaskTypes
<1>10. TaskInv'
  <2>1. ASSUME NEW u \in Tasks, Waits(u)'
        PROVE  /\ emu'.at = "run" /\ lock'[task'[u].slot]
               /\ task'[u].trap \in Traps /\ ctx'[task'[u].trap].used
               /\ ctx'[task'[u].trap].slot = task'[u].slot
               /\ acked'[task'[u].slot] => acks'[task'[u].trap] > 0
    <3>1. CASE u = t
      BY <1>2, <1>4, <1>5, <1>6, <1>8, <3>1
    <3>2. CASE u # t
      <4>1. Waits(u) /\ task'[u] = task[u]
        BY <1>7, <1>8, <2>1, <3>2
      <4>2. task[u].slot \in Slots \ {s} /\ task[u].trap \in Traps \ {n}
        BY <1>9, <4>1
      <4> QED
        BY <1>4, <1>5, <1>6, <4>1, <4>2 DEF ServeInv, TaskInv
    <3> QED
      BY <3>1, <3>2
  <2>2. ASSUME NEW u \in Tasks, NEW v \in Tasks, Waits(u)', Waits(v)', task'[u].slot = task'[v].slot
        PROVE  u = v
    BY <1>7, <1>8, <1>9, <2>2 DEF ServeInv, TaskInv
  <2> QED
    BY <2>1, <2>2 DEF TaskInv
<1>11. \A m \in Traps : Live(m) => m # n
  BY <1>2, LiveFacts DEF Live
<1>12. \A m \in Traps : Live(m)' => Live(m) \/ m = n
  <2>1. \A h \in Hosts : \A i \in DOMAIN pipe'[h] :
          (i \in DOMAIN pipe[h] /\ pipe'[h][i] = pipe[h][i]) \/ pipe'[h][i] = n
    <3>1. /\ pipe'[trap_thread_index] = Append(pipe[trap_thread_index], n)
          /\ pipe[trap_thread_index] \in Seq(0 .. MaxTraps)
      BY <1>3, <1>4, PlaceTypes DEF IInv, Types, HostTypes
    <3>2. \A h \in Hosts \ {trap_thread_index} : pipe'[h] = pipe[h]
      BY <1>3 DEF IInv, Types, HostTypes
    <3>3. \A i \in DOMAIN pipe'[trap_thread_index] :
            \/ i \in DOMAIN pipe[trap_thread_index]
               /\ pipe'[trap_thread_index][i] = pipe[trap_thread_index][i]
            \/ pipe'[trap_thread_index][i] = n
      BY <1>2, <3>1, AppendPositions
    <3> QED
      BY <3>2, <3>3
  <2>2. \A h \in Hosts : \A m \in Traps : With(h, m)' => With(h, m) \/ m = n
    BY <1>4, <2>1 DEF With, Busy
  <2> QED
    BY <2>2 DEF Live
<1>13. LiveInv'
  <2>1. \A m \in Traps : Live(m) =>
          /\ m # n /\ \E u \in Tasks \ {t} : Waits(u) /\ task[u].trap = m
          /\ ctx[m].slot # s /\ ctx'[m].slot = ctx[m].slot
    <3>1. \A m \in Traps : Live(m) => \E u \in Tasks \ {t} : Waits(u) /\ task[u].trap = m
      BY <1>4, <1>8 DEF ServeInv, LiveInv
    <3>2. \A u \in Tasks : Waits(u) => ctx[task[u].trap].slot # s
      BY <1>9 DEF ServeInv, TaskInv
    <3> QED
      BY <1>6, <1>11, <3>1, <3>2
  <2>2. \A m \in Traps : Live(m)' => \E u \in Tasks : Waits(u)' /\ task'[u].trap = m
    BY <1>7, <1>8, <1>12, <2>1
  <2>3. \A l, m \in Traps : Live(l)' /\ Live(m)' /\ ctx'[l].slot = ctx'[m].slot => l = m
    BY <1>6, <1>12, <2>1 DEF ServeInv, LiveInv
  <2> QED
    BY <2>2, <2>3 DEF LiveInv
<1>14. CommandInv'
  <2>1. \A h \in Hosts : At(h, "callback") => Slot(h)' = Slot(h)
    <3> SUFFICES ASSUME NEW h \in Hosts, At(h, "callback") PROVE Slot(h)' = Slot(h)
      OBVIOUS
    <3>1. host[h].trap \in Traps /\ ctx[host[h].trap].used
      BY BusyFacts DEF At, Busy
    <3> QED
      BY <1>2, <1>4, <1>6, <3>1 DEF Slot
  <2>2. \A h \in Hosts : At(h, "callback")' <=> At(h, "callback")
    BY <1>4 DEF At
  <2>3. \A u \in Tasks : task'[u].at = "command" => task'[u] = task[u]
    BY <1>7
  <2> QED
    BY <1>4, <2>1, <2>2, <2>3 DEF ServeInv, CommandInv
<1> QED
  BY <1>10, <1>13, <1>14 DEF ServeInv

(* The reset: nobody waits, and at its end nothing is left of the traps.   *)
LEMMA BeginServes ==
  ASSUME IInv, ServeInv, ResetBegin
  PROVE  ServeInv'
<1>1. /\ UNCHANGED <<asker, pipe, host, ctx, acks, abandoned>> /\ emu'.at = "kill"
      /\ \A t \in Tasks : task'[t].at = "run" /\ ~ Waits(t)'
      /\ \A s \in Slots : second'[s] = "none"
  BY DEF ResetBegin, hosts, Emu, Running, Waits
<1>2. TaskInv'
  BY <1>1 DEF TaskInv
<1>3. SlotsStay
  BY <1>1 DEF SlotsStay
<1>4. LiveShrinks
  <2>1. \A h \in Hosts : Busy(h)' => Busy(h) /\ host'[h].trap = host[h].trap
    BY <1>1 DEF Busy
  <2> QED
    BY <1>1, <2>1, LiveLeft
<1>5. LiveInv'
  BY <1>1, <1>3, <1>4, LivesInReset DEF ServeInv
<1>6. CommandInv'
  <2>1. \A h \in Hosts : Slot(h)' = Slot(h) /\ (At(h, "callback")' <=> At(h, "callback"))
    BY <1>1 DEF Slot, At
  <2> QED
    BY <1>1, <2>1 DEF ServeInv, CommandInv
<1> QED
  BY <1>2, <1>5, <1>6 DEF ServeInv

LEMMA ResetServes ==
  ASSUME IInv, ServeInv,
         (\E t \in Threads : ResetKills(t) \/ ResetNext(t)) \/ ResetQuits
  PROVE  ServeInv'
<1>1. /\ UNCHANGED <<task, second, asker, host, ctx, abandoned>>
      /\ emu.at # "run" /\ emu'.at # "run"
  BY DEF ResetKills, ResetNext, ResetQuits, slots, hosts, Emu
<1>2. SlotsStay
  BY <1>1 DEF SlotsStay
<1>3. \A h \in Hosts : Busy(h)' => Busy(h) /\ host'[h].trap = host[h].trap
  BY <1>1 DEF Busy
<1>4. LiveShrinks
  <2>1. NULL \in 0 .. MaxTraps /\ NULL \notin Traps /\ Threads \subseteq Hosts /\ Worker \in Hosts
    BY SlotFacts, TrapsAssumption DEF NULL, Traps
  <2>2. ASSUME NEW t \in Threads, ResetKills(t) PROVE LiveShrinks
    <3>1. t \in Hosts /\ pipe' = [pipe EXCEPT ![t] = Append(pipe[t], NULL)]
      BY <2>1, <2>2 DEF ResetKills
    <3> QED
      BY <1>3, <2>1, <3>1, LivePut
  <2>3. ASSUME NEW t \in Threads, ResetNext(t) PROVE LiveShrinks
    <3>1. pipe' = pipe
      BY <2>3 DEF ResetNext, hosts
    <3> QED
      BY <1>3, <3>1, LiveLeft
  <2>4. ASSUME ResetQuits PROVE LiveShrinks
    <3>1. pipe' = [pipe EXCEPT ![Worker] = Append(pipe[Worker], NULL)]
      BY <2>4 DEF ResetQuits, Quit
    <3> QED
      BY <1>3, <2>1, <3>1, LivePut
  <2> QED
    BY <2>2, <2>3, <2>4
<1>5. TaskInv' /\ LiveInv'
  BY <1>1, <1>2, <1>4, TasksInReset, LivesInReset DEF ServeInv
<1>6. CommandInv'
  BY <1>1, <1>2, CommandsGoOn DEF ServeInv
<1> QED
  BY <1>5, <1>6 DEF ServeInv

LEMMA OverServes ==
  ASSUME IInv, ServeInv, DrainInv, ResetOver
  PROVE  ServeInv'
<1>1. /\ UNCHANGED <<task, second, asker, pipe, ctx, abandoned>> /\ emu.at = "worker"
      /\ host[Worker].at = "off" /\ Worker \in Hosts
  BY SlotFacts DEF ResetOver, slots, At, Emu
<1>2. \A h \in Hosts : host'[h] = host[h] \/ (h = Worker /\ host'[h].at = "read")
  BY <1>1 DEF ResetOver, Idle, IInv, Types, HostTypes
<1>3. \A h \in Hosts : pipe'[h] = <<>> /\ ~ Busy(h)'
  <2>1. \A t \in Threads : pipe[t] = <<>> /\ host[t].at = "read"
    BY <1>1 DEF DrainInv, Due, Drained
  <2>2. pipe[Worker] = <<>>
    BY <1>1 DEF DrainInv, QuitInv
  <2> QED
    BY <1>1, <1>2, <2>1, <2>2, SlotFacts DEF Busy
<1>4. \A n \in Traps : ~ Live(n)'
  <2>1. DOMAIN <<>> = {}
    OBVIOUS
  <2> QED
    BY <1>3, <2>1 DEF Live, With
<1>5. LiveInv'
  BY <1>4 DEF LiveInv
<1>6. TaskInv'
  BY <1>1, TasksInReset DEF ServeInv
<1>7. CommandInv'
  <2>1. SlotsStay
    BY <1>1 DEF SlotsStay
  <2>2. /\ \A h \in Hosts : host'[h].at = "callback" <=> host[h].at = "callback"
        /\ \A h \in Hosts : host[h].at = "callback" => host'[h].trap = host[h].trap
    BY <1>1, <1>2
  <2> QED
    BY <1>1, <2>1, <2>2, CommandsGoOn DEF ServeInv
<1> QED
  BY <1>5, <1>6, <1>7 DEF ServeInv

-----------------------------------------------------------------------------
(* The reset goes through the threads: a thread it has gone through stays  *)
(* idle, as nothing but a trap wakes it up.                                *)
LEMMA DrainKeeps ==
  ASSUME DrainInv, UNCHANGED <<emu, state>>, QuitInv',
         \A t \in Threads : \/ ~ Drained(t)
                            \/ pipe'[t] = pipe[t] /\ host'[t] = host[t]
                            \/ emu.at = "run"
  PROVE  DrainInv'
<1> SUFFICES ASSUME NEW t \in Threads, Due(t)' PROVE Drained(t)'
  BY DEF DrainInv
<1>1. Due(t) /\ emu.at # "run"
  BY DEF Due
<1>2. Drained(t)
  BY <1>1 DEF DrainInv
<1> QED
  BY <1>1, <1>2 DEF Drained

LEMMA QuitKeeps ==
  ASSUME QuitInv, UNCHANGED emu, pipe'[Worker] = pipe[Worker],
         host'[Worker].at = "off" <=> host[Worker].at = "off"
  PROVE  QuitInv'
  BY DEF QuitInv

LEMMA QuietDrains ==
  ASSUME IInv, DrainInv,
         \/ \E t \in Tasks : Trap(t) \/ TaskStep(t)
         \/ \E t \in Threads : ThreadRead(t) \/ CallBack(t) \/ CallBackReturns(t) \/ CallBackKilled(t)
                               \/ HandlerReturns(t) \/ ThreadAcks(t) \/ ThreadLeaves(t)
         \/ CallBack(Worker) \/ CallBackReturns(Worker) \/ CallBackKilled(Worker)
         \/ WorkerCompletes \/ WorkerAcks
         \/ UNCHANGED vars
  PROVE  DrainInv'
<1>0. Worker \in Hosts /\ Worker \notin Threads /\ Threads \subseteq Hosts
      /\ QuitInv
  BY SlotFacts DEF DrainInv
<1>1. ASSUME NEW t \in Tasks, Trap(t) \/ TaskStep(t) PROVE DrainInv'
  <2>1. /\ emu.at = "run" /\ UNCHANGED <<emu, state, host>> /\ trap_thread_index # Worker
        /\ pipe'[Worker] = pipe[Worker]
    BY <1>0, <1>1 DEF Trap, TaskStep, TaskCommand, TaskCommandDone, TaskResumes, control, hosts,
       IInv, Types, HostTypes
  <2> QED
    BY <1>0, <2>1, QuitKeeps, DrainKeeps
<1>2. ASSUME NEW t \in Threads,
             ThreadRead(t) \/ CallBack(t) \/ CallBackReturns(t) \/ CallBackKilled(t)
             \/ HandlerReturns(t) \/ ThreadAcks(t) \/ ThreadLeaves(t)
      PROVE  DrainInv'
  <2>1. ~ Drained(t)
    BY <1>2 DEF Drained, ThreadRead, CallBack, CallBackReturns, CallBackKilled, HandlerReturns,
       ThreadAcks, ThreadLeaves, At
  <2>2. UNCHANGED <<emu, state>>
    BY <1>2 DEF ThreadRead, CallBack, CallBackReturns, CallBackKilled, HandlerReturns,
       ThreadAcks, ThreadLeaves, control
  <2>3. \A g \in Hosts \ {t} : pipe'[g] = pipe[g]
    BY <1>2 DEF ThreadRead, CallBack, CallBackReturns, CallBackKilled, HandlerReturns,
       ThreadAcks, ThreadLeaves, IInv, Types, HostTypes
  <2>4. \A g \in Hosts \ {t} : host'[g] = host[g]
    BY <1>2 DEF ThreadRead, CallBack, CallBackReturns, CallBackKilled, HandlerReturns,
       ThreadAcks, ThreadLeaves, Ack, Go, IInv, Types, HostTypes
  <2>5. QuitInv'
    BY <1>0, <2>2, <2>3, <2>4, QuitKeeps
  <2> QED
    BY <1>0, <2>1, <2>2, <2>3, <2>4, <2>5, DrainKeeps
<1>3. ASSUME \/ CallBack(Worker) \/ CallBackReturns(Worker) \/ CallBackKilled(Worker)
             \/ WorkerCompletes \/ WorkerAcks
      PROVE  DrainInv'
  <2>1. UNCHANGED <<emu, state, pipe>>
    BY <1>3 DEF CallBack, CallBackReturns, CallBackKilled, WorkerCompletes, WorkerAcks, control
  <2>2. \A g \in Hosts \ {Worker} : host'[g] = host[g]
    BY <1>3 DEF CallBack, CallBackReturns, CallBackKilled, WorkerCompletes, WorkerAcks, Ack, Go,
       IInv, Types, HostTypes
  <2>3. host[Worker].at # "off" /\ host'[Worker].at # "off"
    <3>1. CASE CallBack(Worker)
      BY <1>0, <3>1 DEF CallBack, At, IInv, Types, HostTypes
    <3>2. CASE CallBackReturns(Worker) \/ CallBackKilled(Worker) \/ WorkerCompletes \/ WorkerAcks
      BY <1>0, <3>2 DEF CallBackReturns, CallBackKilled, WorkerCompletes, WorkerAcks, Ack, Go, Idle, At,
         IInv, Types, HostTypes
    <3> QED
      BY <1>3, <3>1, <3>2
  <2> QED
    BY <1>0, <2>1, <2>2, <2>3, QuitKeeps, DrainKeeps
<1>4. CASE UNCHANGED vars
  BY <1>0, <1>4, QuitKeeps, DrainKeeps DEF vars, hosts, control
<1> QED
  BY <1>1, <1>2, <1>3, <1>4

LEMMA ThreadDrainsDrains ==
  ASSUME IInv, DrainInv, NEW t \in Threads, ThreadDrains(t)
  PROVE  DrainInv'
<1>1. t \in Hosts /\ t # Worker /\ Worker \in Hosts /\ Threads \subseteq Hosts
  BY SlotFacts
<1>2. /\ UNCHANGED <<emu, host>> /\ host[t].at = "read" /\ pipe'[t] = <<>>
      /\ \A g \in Hosts \ {t} : pipe'[g] = pipe[g]
      /\ \A g \in Threads \ {t} : state'[g] = state[g]
  BY <1>1 DEF ThreadDrains, At, IInv, Types, HostTypes, ControlTypes
<1>3. QuitInv'
  BY <1>1, <1>2, QuitKeeps DEF DrainInv
<1>4. ASSUME NEW u \in Threads, Due(u)' PROVE Drained(u)'
  <2>1. CASE u = t
    BY <1>2, <2>1 DEF Drained
  <2>2. CASE u # t
    <3>1. Due(u)
      BY <1>2, <1>4, <2>2 DEF Due
    <3> QED
      BY <1>1, <1>2, <2>2, <3>1 DEF DrainInv, Drained
  <2> QED
    BY <2>1, <2>2
<1> QED
  BY <1>3, <1>4 DEF DrainInv

LEMMA HandsDrains ==
  ASSUME IInv, DrainInv, NEW t \in Threads, HandsOver(t)
  PROVE  DrainInv'
<1>1. /\ t \in Hosts /\ t # Worker /\ Worker \in Hosts /\ Threads \subseteq Hosts
      /\ host[t].at = "handler" /\ host[t].trap # NULL /\ host[t].trap \in 0 .. MaxTraps
  <2>1. t \in Hosts /\ t # Worker /\ Worker \in Hosts /\ Threads \subseteq Hosts
        /\ host[t].at = "handler" /\ Busy(t)
    BY SlotFacts DEF HandsOver, At, Busy
  <2>2. host[t].trap \in Traps
    BY <2>1, PlaceTypes
  <2> QED
    BY <2>1, <2>2, TrapsAssumption DEF Traps, NULL
<1>2. /\ UNCHANGED <<emu, state>>
      /\ \A g \in Hosts \ {t} : host'[g] = host[g]
      /\ \A g \in Hosts \ {Worker} : pipe'[g] = pipe[g]
      /\ pipe'[Worker] = Append(pipe[Worker], host[t].trap)
  BY <1>1 DEF HandsOver, Go, control, IInv, Types, HostTypes
<1>3. ~ Drained(t) /\ emu.at # "worker"
  BY <1>1 DEF DrainInv, Due, Drained
<1>4. QuitInv'
  <2>1. \A i \in DOMAIN pipe[Worker] : pipe[Worker][i] # NULL
    BY <1>3 DEF DrainInv, QuitInv
  <2>2. \A i \in DOMAIN pipe'[Worker] : pipe'[Worker][i] # NULL
    BY <1>1, <1>2, <2>1, PlaceTypes, AppendPositions
  <2>3. host'[Worker].at # "off"
    BY <1>1, <1>2, <1>3 DEF DrainInv, QuitInv
  <2> QED
    BY <1>2, <1>3, <2>2, <2>3 DEF QuitInv
<1>5. \A u \in Threads : ~ Drained(u) \/ (pipe'[u] = pipe[u] /\ host'[u] = host[u])
  <2>1. \A u \in Threads \ {t} : u \in Hosts \ {t} /\ u \in Hosts \ {Worker}
    BY <1>1, SlotFacts
  <2> QED
    BY <1>2, <1>3, <2>1
<1> QED
  BY <1>2, <1>4, <1>5, DrainKeeps

LEMMA WorkerReadDrains ==
  ASSUME IInv, DrainInv, WorkerRead
  PROVE  DrainInv'
<1>1. /\ Worker \in Hosts /\ Worker \notin Threads /\ Threads \subseteq Hosts
      /\ host[Worker].at = "read" /\ pipe[Worker] # <<>> /\ pipe[Worker] \in Seq(0 .. MaxTraps)
  BY SlotFacts, PlaceTypes DEF WorkerRead, At
<1>2. /\ UNCHANGED <<emu, state>>
      /\ \A g \in Hosts \ {Worker} : host'[g] = host[g] /\ pipe'[g] = pipe[g]
      /\ pipe'[Worker] = Tail(pipe[Worker])
      /\ host'[Worker].at = IF Head(pipe[Worker]) = NULL THEN "off" ELSE "handler"
  BY <1>1 DEF WorkerRead, Quit, control, IInv, Types, HostTypes
<1>3. \A i \in DOMAIN pipe[Worker] :
        pipe[Worker][i] = NULL <=> emu.at = "worker" /\ i = Len(pipe[Worker])
  BY <1>1 DEF DrainInv, QuitInv
<1>4. /\ 1 \in DOMAIN pipe[Worker] /\ Head(pipe[Worker]) = pipe[Worker][1]
      /\ \A i \in DOMAIN Tail(pipe[Worker]) :
           /\ i \in Nat /\ i + 1 \in DOMAIN pipe[Worker]
           /\ Tail(pipe[Worker])[i] = pipe[Worker][i + 1]
  BY <1>1, TailPositions
<1>5. /\ Tail(pipe[Worker]) \in Seq(0 .. MaxTraps)
      /\ Len(Tail(pipe[Worker])) = Len(pipe[Worker]) - 1 /\ Len(pipe[Worker]) \in Nat
  BY <1>1, HeadTailProperties, LenProperties
<1>6. QuitInv'
  <2>1. CASE Head(pipe[Worker]) = NULL
    <3>1. emu.at = "worker" /\ Len(pipe[Worker]) = 1
      BY <1>3, <1>4, <2>1
    <3>2. Tail(pipe[Worker]) = <<>>
      <4>1. Len(Tail(pipe[Worker])) = 0
        BY <1>5, <3>1
      <4> QED
        BY <1>5, <4>1, EmptySeq
    <3> QED
      BY <1>2, <2>1, <3>1, <3>2 DEF QuitInv
  <2>2. CASE Head(pipe[Worker]) # NULL
    <3>1. \A i \in DOMAIN pipe'[Worker] :
            pipe'[Worker][i] = NULL <=> emu'.at = "worker" /\ i = Len(pipe'[Worker])
      BY <1>2, <1>3, <1>4, <1>5
    <3> QED
      BY <1>2, <2>2, <3>1 DEF QuitInv
  <2> QED
    BY <2>1, <2>2
<1> QED
  BY <1>1, <1>2, <1>6, DrainKeeps

LEMMA ResetDrains ==
  ASSUME IInv, DrainInv, ResetBegin \/ ResetStep
  PROVE  DrainInv'
<1>0. /\ Worker \in Hosts /\ Worker \notin Threads /\ Threads \subseteq Hosts
      /\ Threads = 0 .. NumSlots - 1 /\ NumSlots \in Nat /\ QuitInv
  BY SlotFacts DEF DrainInv
<1>1. CASE ResetBegin
  <2>1. /\ UNCHANGED <<pipe, host>> /\ emu.at = "run" /\ emu'.at = "kill" /\ emu'.thread = 0
    BY <1>1 DEF ResetBegin, hosts, Emu
  <2>2. \A t \in Threads : ~ Due(t)'
    BY <1>0, <2>1 DEF Due
  <2>3. QuitInv'
    BY <1>0, <2>1 DEF QuitInv
  <2> QED
    BY <2>2, <2>3 DEF DrainInv
<1>2. ASSUME NEW t \in Threads, ResetKills(t) PROVE DrainInv'
  <2>1. /\ UNCHANGED host /\ emu.at = "kill" /\ emu.thread = t /\ emu'.at = "wait" /\ emu'.thread = t
        /\ state'[t] = 1 /\ \A g \in Hosts \ {t} : pipe'[g] = pipe[g]
    BY <1>2 DEF ResetKills, Emu, IInv, Types, HostTypes, ControlTypes
  <2>2. ASSUME NEW u \in Threads, Due(u)' PROVE Drained(u)'
    <3>1. u < t /\ u # t
      BY <1>0, <2>1, <2>2 DEF Due
    <3>2. Drained(u)
      BY <2>1, <3>1 DEF DrainInv, Due
    <3> QED
      BY <1>0, <2>1, <3>1, <3>2 DEF Drained
  <2>3. QuitInv'
    BY <1>0, <2>1 DEF QuitInv
  <2> QED
    BY <2>2, <2>3 DEF DrainInv
<1>3. ASSUME NEW t \in Threads, ResetNext(t) PROVE DrainInv'
  <2>1. /\ UNCHANGED <<host, pipe>> /\ emu.at = "wait" /\ emu.thread = t /\ state[t] = 0
        /\ \/ emu'.at = "kill" /\ emu'.thread = t + 1
           \/ emu'.at = "quit" /\ t + 1 >= NumSlots
    BY <1>0, <1>3 DEF ResetNext, hosts, Emu
  <2>2. ASSUME NEW u \in Threads, Due(u)' PROVE Drained(u)'
    <3>1. u <= t
      BY <1>0, <2>1, <2>2 DEF Due
    <3>2. Drained(u)
      BY <1>0, <2>1, <3>1 DEF DrainInv, Due
    <3> QED
      BY <2>1, <3>2 DEF Drained
  <2>3. QuitInv'
    BY <1>0, <2>1 DEF QuitInv
  <2> QED
    BY <2>2, <2>3 DEF DrainInv
<1>4. CASE ResetQuits
  <2>1. /\ UNCHANGED host /\ emu.at = "quit" /\ emu'.at = "worker"
        /\ pipe'[Worker] = Append(pipe[Worker], NULL)
        /\ \A g \in Hosts \ {Worker} : pipe'[g] = pipe[g]
    BY <1>0, <1>4 DEF ResetQuits, Quit, Emu, IInv, Types, HostTypes
  <2>2. \A u \in Threads : Drained(u)'
    <3>1. \A u \in Threads : Drained(u)
      BY <2>1 DEF DrainInv, Due
    <3> QED
      BY <1>0, <2>1, <3>1 DEF Drained
  <2>3. pipe[Worker] \in Seq(0 .. MaxTraps) /\ NULL \in 0 .. MaxTraps
    BY <1>0, PlaceTypes, TrapsAssumption DEF NULL
  <2>4. /\ \A i \in DOMAIN pipe'[Worker] :
             \/ i \in DOMAIN pipe[Worker] /\ pipe'[Worker][i] = pipe[Worker][i]
             \/ i = Len(pipe[Worker]) + 1 /\ pipe'[Worker][i] = NULL
        /\ Len(pipe[Worker]) + 1 \notin DOMAIN pipe[Worker]
    BY <2>1, <2>3, AppendPositions
  <2>5. Len(pipe'[Worker]) = Len(pipe[Worker]) + 1
    BY <2>1, <2>3, AppendProperties
  <2>6. host[Worker].at # "off" /\ \A i \in DOMAIN pipe[Worker] : pipe[Worker][i] # NULL
    BY <1>0, <2>1 DEF QuitInv
  <2>7. \A i \in DOMAIN pipe'[Worker] :
          pipe'[Worker][i] = NULL <=> emu'.at = "worker" /\ i = Len(pipe'[Worker])
    BY <2>1, <2>4, <2>5, <2>6
  <2> QED
    BY <2>1, <2>2, <2>6, <2>7 DEF DrainInv, QuitInv
<1>5. CASE ResetOver
  <2>1. /\ UNCHANGED pipe /\ emu'.at = "run" /\ host[Worker].at = "off" /\ host'[Worker].at = "read"
    BY <1>0, <1>5 DEF ResetOver, At, Idle, Emu, IInv, Types, HostTypes
  <2>2. \A u \in Threads : ~ Due(u)'
    BY <2>1 DEF Due
  <2>3. pipe'[Worker] = <<>> /\ DOMAIN <<>> = {}
    BY <1>0, <2>1 DEF QuitInv
  <2> QED
    BY <2>1, <2>2, <2>3 DEF DrainInv, QuitInv
<1> QED
  BY <1>1, <1>2, <1>3, <1>4, <1>5 DEF ResetStep

LEMMA SlotInitial == ASSUME Init PROVE SlotInv
<1> USE DEF Init
<1>1. \A h \in Hosts : pipe[h] = <<>> /\ host[h].at = "read"
  BY DEF Idle
<1>2. /\ \A t \in Tasks : ~ Waits(t) /\ task[t].at = "run"
      /\ \A s \in Slots : second[s] = "none"
      /\ \A h \in Hosts : ~ At(h, "callback")
      /\ emu.at = "run" /\ Worker \in Hosts
  BY <1>1, SlotFacts DEF Waits, Running, At, Emu
<1>3. DOMAIN <<>> = {}
  OBVIOUS
<1>4. \A n \in Traps : ~ Live(n)
  BY <1>1, <1>3 DEF Live, With, Busy
<1>5. DrainInv
  BY <1>1, <1>2, <1>3 DEF DrainInv, Due, QuitInv
<1>6. TaskInv /\ LiveInv /\ CommandInv
  BY <1>2, <1>4 DEF TaskInv, LiveInv, CommandInv
<1> QED
  BY <1>5, <1>6 DEF SlotInv, ServeInv

LEMMA SlotInductive == IInv /\ SlotInv /\ [Next]_vars => SlotInv'
<1> SUFFICES ASSUME IInv, SlotInv, [Next]_vars PROVE DrainInv' /\ (raced' = {} => ServeInv')
  BY DEF SlotInv, ServeInv
<1>0. DrainInv /\ (raced = {} => ServeInv)
  BY DEF SlotInv, ServeInv
<1>1. ASSUME NEW t \in Tasks, Trap(t) \/ TaskStep(t) PROVE DrainInv' /\ (raced' = {} => ServeInv')
  <2>1. raced' = raced
    BY <1>1 DEF Trap, TaskStep, TaskCommand, TaskCommandDone, TaskResumes, hosts
  <2> QED
    BY <1>0, <1>1, <2>1, QuietDrains, TrapServes, CommandServes, ResumeServes DEF TaskStep
<1>2. ASSUME NEW t \in Threads, ThreadStep(t) PROVE DrainInv' /\ (raced' = {} => ServeInv')
  <2>0. t \in Hosts
    BY SlotFacts
  <2>1. CASE ThreadRead(t)
    BY <1>0, <2>1, QuietDrains, ReadServes DEF ThreadRead
  <2>2. CASE ThreadDrains(t)
    BY <1>0, <2>2, ThreadDrainsDrains, DrainServes DEF ThreadDrains
  <2>3. CASE CallBack(t)
    BY <1>0, <2>0, <2>3, QuietDrains, CallBackServes DEF CallBack
  <2>4. CASE CallBackReturns(t) \/ CallBackKilled(t)
    <3>1. raced' = raced
      BY <2>4 DEF CallBackReturns, CallBackKilled
    <3> QED
      BY <1>0, <2>0, <2>4, <3>1, QuietDrains, BackServes
  <2>5. CASE HandsOver(t)
    BY <1>0, <2>5, HandsDrains, HandsServes DEF HandsOver
  <2>6. CASE HandlerReturns(t) \/ ThreadLeaves(t)
    <3>1. raced' = raced
      BY <2>6 DEF HandlerReturns, ThreadLeaves
    <3> QED
      BY <1>0, <2>6, <3>1, QuietDrains, ReturnServes
  <2>7. CASE ThreadAcks(t)
    <3>1. /\ raced' = {} => raced = {}
          /\ host[t].at = "return" /\ Ack(t)
          /\ UNCHANGED <<task, lock, second, asker, pipe, emu, abandoned>>
      BY <2>7 DEF ThreadAcks, At, control
    <3> QED
      BY <1>0, <2>0, <2>7, <3>1, QuietDrains, AckServes
  <2> QED
    BY <1>2, <2>1, <2>2, <2>3, <2>4, <2>5, <2>6, <2>7 DEF ThreadStep
<1>3. CASE WorkerStep
  <2>0. Worker \in Hosts
    BY SlotFacts
  <2>1. CASE WorkerRead
    BY <1>0, <2>1, WorkerReadDrains, WorkerReadServes DEF WorkerRead
  <2>2. CASE CallBack(Worker)
    BY <1>0, <2>0, <2>2, QuietDrains, CallBackServes DEF CallBack
  <2>3. CASE CallBackReturns(Worker) \/ CallBackKilled(Worker)
    <3>1. raced' = raced
      BY <2>3 DEF CallBackReturns, CallBackKilled
    <3> QED
      BY <1>0, <2>0, <2>3, <3>1, QuietDrains, BackServes
  <2>4. CASE WorkerCompletes
    BY <1>0, <2>4, QuietDrains, CompletesServes DEF WorkerCompletes
  <2>5. CASE WorkerAcks
    <3>1. /\ raced' = raced /\ host[Worker].at = "spin" /\ Ack(Worker)
          /\ UNCHANGED <<task, lock, second, asker, pipe, emu, abandoned>>
      BY <2>5 DEF WorkerAcks, At, control
    <3> QED
      BY <1>0, <2>0, <2>5, <3>1, QuietDrains, AckServes
  <2> QED
    BY <1>3, <2>1, <2>2, <2>3, <2>4, <2>5 DEF WorkerStep
<1>4. CASE ResetBegin \/ ResetStep
  <2>1. raced' = raced
    BY <1>4 DEF ResetBegin, ResetStep, ResetKills, ResetNext, ResetQuits, ResetOver, hosts
  <2>2. DrainInv'
    BY <1>0, <1>4, ResetDrains
  <2>3. raced = {} => ServeInv'
    BY <1>0, <1>4, BeginServes, ResetServes, OverServes DEF ResetStep
  <2> QED
    BY <2>1, <2>2, <2>3
<1>5. CASE UNCHANGED vars
  <2>1. UNCHANGED <<task, lock, acked, second, asker, pipe, host, ctx, acks, raced, emu, abandoned>>
    BY <1>5 DEF vars, slots, hosts, control
  <2>2. SlotsStay /\ LiveShrinks
    BY <2>1 DEF SlotsStay, LiveShrinks, Live, With, Busy
  <2>3. ServeInv => ServeInv'
    BY <2>1, <2>2, TasksGoOn, LivesGoOn, CommandsGoOn DEF ServeInv
  <2> QED
    BY <1>0, <1>5, <2>1, <2>3, QuietDrains
<1> QED
  BY <1>1, <1>2, <1>3, <1>4, <1>5 DEF Next

(* A slot serves the trap of the task that took it, for any tasks, traps,  *)
(* commands and resets: it is released by its own ack, executes its own    *)
(* handler's commands, and no two hosts ask in one slot.                   *)
THEOREM SlotServesItsTaskAlways == Spec => []SlotServesItsTask
<1>1. Init => IInv /\ SlotInv
  BY Initial, SlotInitial
<1>2. IInv /\ SlotInv /\ [Next]_vars => (IInv /\ SlotInv)'
  BY Inductive, SlotInductive
<1>3. IInv /\ SlotInv => SlotServesItsTask
  <2> SUFFICES ASSUME IInv, SlotInv, raced = {} PROVE SlotServesItsTask
    BY DEF SlotServesItsTask
  <2>1. TaskInv /\ LiveInv /\ CommandInv
    BY DEF SlotInv, ServeInv
  <2>2. \A g, h \in Hosts : At(g, "callback") /\ At(h, "callback") /\ g # h => Slot(g) # Slot(h)
    BY <2>1, SameSlot DEF At
  <2> QED
    BY <2>1, <2>2 DEF SlotServesItsTask, TaskInv, CommandInv, Waits
<1> QED
  BY <1>1, <1>2, <1>3, PTL DEF Spec
-----------------------------------------------------------------------------
(* Nobody waits in vain.                                                   *)
(*                                                                         *)
(* The NULL of a reset is in no pipe but that of the thread it waits for,  *)
(* and no slot but that thread's is killed.                                *)
NullInv ==
  \A t \in Threads : \A i \in DOMAIN pipe[t] :
    pipe[t][i] = NULL => emu.at = "wait" /\ emu.thread = t /\ state[t] = 1
KillInv == \A s \in Slots : kill[s] # 1 => emu.at = "wait" /\ emu.thread = s

(* The reset's NULL is on its way to the thread or worker it waits for. *)
Told(h) == \E i \in DOMAIN pipe[h] : pipe[h][i] = NULL
SentInv ==
  /\ emu.at = "wait" /\ state[emu.thread] = 1 => Told(emu.thread)
  /\ emu.at = "worker" => Told(Worker) \/ At(Worker, "off")

(* A trap in the background is with the worker; one that the worker is not *)
(* told of yet is still with its thread.                                   *)
Working(n) ==
  \/ \E i \in DOMAIN pipe[Worker] : pipe[Worker][i] = n
  \/ host[Worker].at \in {"handler", "callback"} /\ host[Worker].trap = n
Returning(n) == \E t \in Threads : At(t, "return") /\ host[t].trap = n
GivenInv ==
  \A n \in Traps :
    /\ ctx[n].background = 1 => Working(n)
    /\ ctx[n].given /\ ~ ctx[n].done /\ ~ ctx[n].freed => Returning(n)
    /\ ctx[n].freed => acks[n] > 0

(* A command that was taken is being executed. *)
TakenInv ==
  \A s \in Slots : second[s] = "taken" => \E t \in Tasks : task[t].at = "command" /\ task[t].slot = s

AnswerInv == \A t \in Tasks : Waits(t) => acked[task[t].slot] \/ Live(task[t].trap)
AskedInv == \A h \in Hosts : At(h, "callback") /\ emu.at = "run" => second[Slot(h)] # "none"
WakeInv ==
  /\ NullInv /\ KillInv /\ GivenInv /\ TakenInv /\ SentInv
  /\ raced = {} => AnswerInv /\ AskedInv

-----------------------------------------------------------------------------
LEMMA NullStays ==
  ASSUME NullInv, UNCHANGED <<emu, state>>, \A t \in Threads : pipe'[t] = pipe[t]
  PROVE  NullInv'
  BY DEF NullInv

LEMMA NullKeeps == IInv /\ NullInv /\ [Next]_vars => NullInv'
<1> SUFFICES ASSUME IInv, NullInv, [Next]_vars PROVE NullInv'
  OBVIOUS
<1>0. /\ Worker \in Hosts /\ Worker \notin Threads /\ Threads \subseteq Hosts
      /\ DOMAIN <<>> = {}
  BY SlotFacts
<1>1. ASSUME NEW t \in Tasks, Trap(t) PROVE NullInv'
  <2>1. PICK n \in Nat : n = Taken + 1
    BY TakenFacts DEF IInv, Types
  <2>2. n \in 0 .. MaxTraps /\ n # NULL
    <3>1. Taken \in 0 .. MaxTraps /\ Taken < MaxTraps
      BY <1>1, TakenFacts DEF Trap, IInv, Types
    <3> QED
      BY <2>1, <3>1, TrapsAssumption DEF NULL
  <2>3. /\ UNCHANGED <<emu, state>> /\ trap_thread_index \in Threads
        /\ pipe' = [pipe EXCEPT ![trap_thread_index] = Append(@, n)]
    BY <1>1, <2>1 DEF Trap, control, IInv, Types, HostTypes
  <2>4. /\ \A u \in Threads \ {trap_thread_index} : pipe'[u] = pipe[u]
        /\ pipe'[trap_thread_index] = Append(pipe[trap_thread_index], n)
        /\ pipe[trap_thread_index] \in Seq(0 .. MaxTraps)
    BY <1>0, <2>3 DEF IInv, Types, HostTypes
  <2>5. \A i \in DOMAIN pipe'[trap_thread_index] :
          \/ i \in DOMAIN pipe[trap_thread_index]
             /\ pipe'[trap_thread_index][i] = pipe[trap_thread_index][i]
          \/ pipe'[trap_thread_index][i] = n
    BY <2>2, <2>4, AppendPositions
  <2> QED
    BY <2>2, <2>3, <2>4, <2>5 DEF NullInv
<1>2. ASSUME NEW t \in Tasks, TaskStep(t) PROVE NullInv'
  BY <1>2, NullStays DEF TaskStep, TaskCommand, TaskCommandDone, TaskResumes, hosts, control
<1>3. ASSUME NEW t \in Threads, ThreadRead(t) PROVE NullInv'
  <2>1. /\ t \in Hosts /\ pipe[t] # <<>> /\ pipe[t] \in Seq(0 .. MaxTraps)
        /\ UNCHANGED <<emu, state>> /\ pipe' = [pipe EXCEPT ![t] = Tail(@)]
    BY <1>0, <1>3, PlaceTypes DEF ThreadRead, control
  <2>2. /\ pipe'[t] = Tail(pipe[t])
        /\ \A u \in Threads \ {t} : pipe'[u] = pipe[u]
    BY <1>0, <2>1 DEF IInv, Types, HostTypes
  <2>3. \A i \in DOMAIN pipe'[t] : i + 1 \in DOMAIN pipe[t] /\ pipe'[t][i] = pipe[t][i + 1]
    <3>1. \A i \in DOMAIN Tail(pipe[t]) : i + 1 \in DOMAIN pipe[t] /\ Tail(pipe[t])[i] = pipe[t][i + 1]
      BY <2>1, TailPositions
    <3> QED
      BY <2>2, <3>1
  <2> QED
    BY <2>1, <2>2, <2>3 DEF NullInv
<1>4. ASSUME NEW t \in Threads, ThreadDrains(t) PROVE NullInv'
  <2>1. /\ pipe'[t] = <<>> /\ UNCHANGED emu
        /\ \A u \in Threads \ {t} : pipe'[u] = pipe[u] /\ state'[u] = state[u]
    BY <1>0, <1>4 DEF ThreadDrains, IInv, Types, HostTypes, ControlTypes
  <2> QED
    BY <1>0, <2>1 DEF NullInv
<1>5. ASSUME NEW t \in Threads, ThreadStep(t), ~ ThreadRead(t), ~ ThreadDrains(t) PROVE NullInv'
  <2>1. UNCHANGED <<emu, state>>
    BY <1>5 DEF ThreadStep, CallBack, CallBackReturns, CallBackKilled, HandsOver, HandlerReturns,
       ThreadAcks, ThreadLeaves, control
  <2>2. \A u \in Threads : pipe'[u] = pipe[u]
    BY <1>0, <1>5 DEF ThreadStep, CallBack, CallBackReturns, CallBackKilled, HandsOver, HandlerReturns,
       ThreadAcks, ThreadLeaves, IInv, Types, HostTypes
  <2> QED
    BY <2>1, <2>2, NullStays
<1>6. CASE WorkerStep
  <2>1. UNCHANGED <<emu, state>>
    BY <1>6 DEF WorkerStep, WorkerRead, CallBack, CallBackReturns, CallBackKilled, WorkerCompletes,
       WorkerAcks, control
  <2>2. \A u \in Threads : pipe'[u] = pipe[u]
    BY <1>0, <1>6 DEF WorkerStep, WorkerRead, CallBack, CallBackReturns, CallBackKilled,
       WorkerCompletes, WorkerAcks, IInv, Types, HostTypes
  <2> QED
    BY <2>1, <2>2, NullStays
<1>7. CASE ResetBegin
  BY <1>7 DEF ResetBegin, NullInv, hosts
<1>8. ASSUME NEW t \in Threads, ResetKills(t) PROVE NullInv'
  <2>1. /\ emu.at = "kill" /\ emu'.at = "wait" /\ emu'.thread = t /\ state'[t] = 1
        /\ \A u \in Threads \ {t} : pipe'[u] = pipe[u]
    BY <1>0, <1>8 DEF ResetKills, Emu, IInv, Types, HostTypes, ControlTypes
  <2> QED
    BY <2>1 DEF NullInv
<1>9. ASSUME NEW t \in Threads, ResetNext(t) PROVE NullInv'
  <2>1. pipe' = pipe /\ emu.at = "wait" /\ emu.thread = t /\ state[t] = 0
    BY <1>9 DEF ResetNext, hosts, Emu
  <2> QED
    BY <2>1 DEF NullInv
<1>10. CASE ResetQuits \/ ResetOver
  <2>1. emu.at # "wait" /\ \A u \in Threads : pipe'[u] = pipe[u]
    BY <1>0, <1>10 DEF ResetQuits, ResetOver, Emu, IInv, Types, HostTypes
  <2> QED
    BY <2>1 DEF NullInv
<1>11. CASE UNCHANGED vars
  BY <1>11, NullStays DEF vars, hosts, control
<1> QED
  BY <1>1, <1>2, <1>3, <1>4, <1>5, <1>6, <1>7, <1>8, <1>9, <1>10, <1>11 DEF Next, ResetStep

LEMMA KillKeeps == IInv /\ KillInv /\ [Next]_vars => KillInv'
<1> SUFFICES ASSUME IInv, KillInv, [Next]_vars PROVE KillInv'
  OBVIOUS
<1>0. Threads = Slots
  BY DEF Threads
<1>1. CASE UNCHANGED <<kill, emu>>
  BY <1>1 DEF KillInv
<1>2. CASE ResetBegin
  BY <1>2 DEF ResetBegin, KillInv
<1>3. ASSUME NEW t \in Threads, ResetKills(t) PROVE KillInv'
  <2>1. /\ emu.at = "kill" /\ emu'.at = "wait" /\ emu'.thread = t
        /\ \A s \in Slots \ {t} : kill'[s] = kill[s]
    BY <1>0, <1>3 DEF ResetKills, Emu, IInv, Types, ControlTypes
  <2> QED
    BY <2>1 DEF KillInv
<1>4. ASSUME NEW t \in Threads, ResetNext(t) PROVE KillInv'
  <2>1. /\ emu.at = "wait" /\ emu.thread = t /\ kill'[t] = 1
        /\ \A s \in Slots \ {t} : kill'[s] = kill[s]
    BY <1>0, <1>4 DEF ResetNext, Emu, IInv, Types, ControlTypes
  <2> QED
    BY <2>1 DEF KillInv
<1>5. CASE ResetQuits \/ ResetOver
  <2>1. emu.at # "wait" /\ kill' = kill
    BY <1>5 DEF ResetQuits, ResetOver, Emu
  <2> QED
    BY <2>1 DEF KillInv
<1>6. ASSUME NEW t \in Tasks, Trap(t) \/ TaskStep(t) PROVE UNCHANGED <<kill, emu>>
  BY <1>6 DEF Trap, TaskStep, TaskCommand, TaskCommandDone, TaskResumes, control
<1>7. ASSUME NEW t \in Threads, ThreadStep(t) PROVE UNCHANGED <<kill, emu>>
  BY <1>7 DEF ThreadStep, ThreadRead, ThreadDrains, CallBack, CallBackReturns, CallBackKilled, HandsOver,
     HandlerReturns, ThreadAcks, ThreadLeaves, control
<1>8. WorkerStep => UNCHANGED <<kill, emu>>
  BY DEF WorkerStep, WorkerRead, CallBack, CallBackReturns, CallBackKilled, WorkerCompletes,
     WorkerAcks, control
<1>9. UNCHANGED vars => UNCHANGED <<kill, emu>>
  BY DEF vars, control
<1> QED
  BY <1>1, <1>2, <1>3, <1>4, <1>5, <1>6, <1>7, <1>8, <1>9 DEF Next, ResetStep

LEMMA TakenKeeps == IInv /\ TakenInv /\ [Next]_vars => TakenInv'
<1> SUFFICES ASSUME IInv, TakenInv, [Next]_vars PROVE TakenInv'
  OBVIOUS
<1>0. ASSUME UNCHANGED task, \A s \in Slots : second'[s] = "taken" => second[s] = "taken"
      PROVE  TakenInv'
  BY <1>0 DEF TakenInv
<1>1. ASSUME NEW t \in Tasks, Trap(t) PROVE TakenInv'
  <2>1. /\ UNCHANGED second /\ task[t].at # "command"
        /\ \A u \in Tasks \ {t} : task'[u] = task[u]
    BY <1>1 DEF Trap, IInv, Types, TaskTypes
  <2> QED
    BY <2>1 DEF TakenInv
<1>2. ASSUME NEW t \in Tasks, TaskStep(t) PROVE TakenInv'
  <2>1. /\ task[t].slot \in Slots
        /\ \A u \in Tasks \ {t} : task'[u] = task[u]
    BY <1>2 DEF TaskStep, TaskCommand, TaskCommandDone, TaskResumes, IInv, Types, TaskTypes
  <2>2. CASE TaskCommand(t)
    <3>1. /\ task'[t].at = "command" /\ task'[t].slot = task[t].slot
          /\ task[t].at # "command"
          /\ \A s \in Slots \ {task[t].slot} : second'[s] = second[s]
      BY <2>2 DEF TaskCommand, IInv, Types, TaskTypes, SlotTypes
    <3> QED
      BY <2>1, <3>1 DEF TakenInv
  <2>3. CASE TaskCommandDone(t)
    <3>1. /\ second'[task[t].slot] = "done"
          /\ \A s \in Slots \ {task[t].slot} : second'[s] = second[s]
      BY <2>1, <2>3 DEF TaskCommandDone, IInv, Types, SlotTypes
    <3> QED
      BY <2>1, <3>1 DEF TakenInv
  <2>4. CASE TaskResumes(t)
    <3>1. UNCHANGED second /\ task[t].at # "command"
      BY <2>4 DEF TaskResumes
    <3> QED
      BY <2>1, <3>1 DEF TakenInv
  <2> QED
    BY <1>2, <2>2, <2>3, <2>4 DEF TaskStep
<1>3. ASSUME NEW t \in Threads, ThreadStep(t) PROVE TakenInv'
  <2>1. UNCHANGED task
    BY <1>3 DEF ThreadStep, ThreadRead, ThreadDrains, CallBack, CallBackReturns, CallBackKilled, HandsOver,
       HandlerReturns, ThreadAcks, ThreadLeaves
  <2>2. \A s \in Slots : second'[s] = "taken" => second[s] = "taken"
    BY <1>3 DEF ThreadStep, ThreadRead, ThreadDrains, CallBack, CallBackReturns, CallBackKilled, HandsOver,
       HandlerReturns, ThreadAcks, ThreadLeaves, slots, IInv, Types, SlotTypes
  <2> QED
    BY <1>0, <2>1, <2>2
<1>4. CASE WorkerStep
  <2>1. UNCHANGED task
    BY <1>4 DEF WorkerStep, WorkerRead, CallBack, CallBackReturns, CallBackKilled, WorkerCompletes,
       WorkerAcks
  <2>2. \A s \in Slots : second'[s] = "taken" => second[s] = "taken"
    BY <1>4 DEF WorkerStep, WorkerRead, CallBack, CallBackReturns, CallBackKilled, WorkerCompletes,
       WorkerAcks, slots, IInv, Types, SlotTypes
  <2> QED
    BY <1>0, <2>1, <2>2
<1>5. CASE ResetBegin
  BY <1>5 DEF ResetBegin, TakenInv
<1>6. CASE ResetStep
  BY <1>0, <1>6 DEF ResetStep, ResetKills, ResetNext, ResetQuits, ResetOver, slots
<1>7. CASE UNCHANGED vars
  BY <1>0, <1>7 DEF vars, slots
<1> QED
  BY <1>1, <1>2, <1>3, <1>4, <1>5, <1>6, <1>7 DEF Next

-----------------------------------------------------------------------------
(* What was in a pipe is still there after a write, and after a read, but  *)
(* for what was read.                                                      *)
LEMMA AppendKeeps ==
  ASSUME NEW S, NEW q \in Seq(S), NEW e \in S
  PROVE  /\ Len(q) + 1 \in DOMAIN Append(q, e) /\ Append(q, e)[Len(q) + 1] = e
         /\ \A i \in DOMAIN q : i \in DOMAIN Append(q, e) /\ Append(q, e)[i] = q[i]
<1>1. /\ Append(q, e) \in Seq(S) /\ Len(Append(q, e)) = Len(q) + 1
      /\ \A i \in 1 .. Len(q) : Append(q, e)[i] = q[i]
      /\ Append(q, e)[Len(q) + 1] = e
  BY AppendProperties
<1>2. DOMAIN q = 1 .. Len(q) /\ Len(q) \in Nat /\ DOMAIN Append(q, e) = 1 .. Len(q) + 1
  BY <1>1, LenProperties
<1> QED
  BY <1>1, <1>2

LEMMA TailKeeps ==
  ASSUME NEW S, NEW q \in Seq(S), q # <<>>
  PROVE  /\ Head(q) = q[1]
         /\ \A i \in DOMAIN q : i # 1 => i - 1 \in DOMAIN Tail(q) /\ Tail(q)[i - 1] = q[i]
<1>1. Tail(q) \in Seq(S) /\ Len(Tail(q)) = Len(q) - 1 /\ Head(q) = q[1]
      /\ \A i \in 1 .. Len(Tail(q)) : Tail(q)[i] = q[i + 1]
  BY HeadTailProperties
<1>2. DOMAIN q = 1 .. Len(q) /\ Len(q) \in Nat /\ DOMAIN Tail(q) = 1 .. Len(q) - 1
  BY <1>1, LenProperties
<1>3. ASSUME NEW i \in DOMAIN q, i # 1
      PROVE  i - 1 \in DOMAIN Tail(q) /\ Tail(q)[i - 1] = q[i]
  <2>1. i - 1 \in 1 .. Len(q) - 1 /\ (i - 1) + 1 = i
    BY <1>2, <1>3
  <2> QED
    BY <1>1, <1>2, <2>1
<1> QED
  BY <1>1, <1>3

(* What the worker has, and what it waits for. *)
LEMMA GivenStays ==
  ASSUME GivenInv, UNCHANGED <<ctx, acks>>,
         \A n \in Traps : (Working(n) => Working(n)') /\ (Returning(n) => Returning(n)')
  PROVE  GivenInv'
  BY DEF GivenInv

LEMMA ReturningStays ==
  ASSUME \A t \in Threads : At(t, "return") => host'[t] = host[t], NEW n \in Traps, Returning(n)
  PROVE  Returning(n)'
  BY DEF Returning, At

LEMMA WorkingStays ==
  ASSUME pipe'[Worker] = pipe[Worker],
         host[Worker].at \in {"handler", "callback"} =>
           host'[Worker].at \in {"handler", "callback"} /\ host'[Worker].trap = host[Worker].trap,
         NEW n \in Traps, Working(n)
  PROVE  Working(n)'
  BY DEF Working

LEMMA TrapGiven ==
  ASSUME IInv, GivenInv, NEW t \in Tasks, Trap(t)
  PROVE  GivenInv'
<1>0. Worker \in Hosts /\ Worker \notin Threads
  BY SlotFacts
<1>1. UNCHANGED <<host, acks>>
  BY DEF Trap
<1>2. pipe'[Worker] = pipe[Worker]
  BY <1>0 DEF Trap, IInv, Types, HostTypes
<1>3. \A n \in Traps : /\ ctx'[n].background = ctx[n].background /\ ctx'[n].given = ctx[n].given
                       /\ ctx'[n].done = ctx[n].done /\ ctx'[n].freed = ctx[n].freed
  BY DEF Trap, IInv, Types, HostTypes, Contexts
<1> QED
  BY <1>1, <1>2, <1>3, WorkingStays, ReturningStays DEF GivenInv

LEMMA CallBackMoves ==
  ASSUME IInv, NEW h \in Hosts, CallBack(h) \/ CallBackReturns(h) \/ CallBackKilled(h)
  PROVE  /\ \A g \in Hosts \ {h} : host'[g] = host[g]
         /\ host'[h].trap = host[h].trap
         /\ host[h].at \in {"handler", "callback"} /\ host'[h].at \in {"handler", "callback"}
<1>1. CASE CallBack(h)
  BY <1>1 DEF CallBack, At, IInv, Types, HostTypes
<1>2. CASE CallBackReturns(h) \/ CallBackKilled(h)
  BY <1>2 DEF CallBackReturns, CallBackKilled, Go, At, IInv, Types, HostTypes
<1> QED
  BY <1>1, <1>2

LEMMA CallBackGiven ==
  ASSUME IInv, GivenInv, NEW h \in Hosts, CallBack(h) \/ CallBackReturns(h) \/ CallBackKilled(h)
  PROVE  GivenInv'
<1>1. UNCHANGED <<pipe, ctx, acks>>
  BY DEF CallBack, CallBackReturns, CallBackKilled
<1>2. /\ \A g \in Hosts \ {h} : host'[g] = host[g]
      /\ host'[h].trap = host[h].trap
      /\ host[h].at \in {"handler", "callback"} /\ host'[h].at \in {"handler", "callback"}
  BY CallBackMoves
<1>3. Worker \in Hosts /\ Threads \subseteq Hosts
  BY SlotFacts
<1>4. \A n \in Traps : Working(n) => Working(n)'
  BY <1>1, <1>2, <1>3, WorkingStays
<1>5. \A n \in Traps : Returning(n) => Returning(n)'
  BY <1>2, <1>3, ReturningStays DEF At
<1> QED
  BY <1>1, <1>4, <1>5, GivenStays

LEMMA HandsGiven ==
  ASSUME IInv, GivenInv, NEW t \in Threads, HandsOver(t)
  PROVE  GivenInv'
<1>0. /\ Worker \in Hosts /\ t \in Hosts /\ t # Worker /\ Threads \subseteq Hosts
      /\ host[t].at = "handler" /\ host[t].trap \in Traps
  <2>1. Worker \in Hosts /\ t \in Hosts /\ t # Worker /\ Threads \subseteq Hosts /\ Busy(t)
        /\ host[t].at = "handler"
    BY SlotFacts DEF HandsOver, At, Busy
  <2> QED
    BY <2>1, PlaceTypes
<1>1. PICK n \in Traps : n = host[t].trap /\ n \in 0 .. MaxTraps
  BY <1>0, TrapsAssumption DEF Traps
<1>2. /\ UNCHANGED acks
      /\ \A g \in Hosts \ {t} : host'[g] = host[g]
      /\ host'[t].at = "return" /\ host'[t].trap = n
      /\ pipe'[Worker] = Append(pipe[Worker], n)
      /\ pipe[Worker] \in Seq(0 .. MaxTraps)
  BY <1>0, <1>1 DEF HandsOver, Go, IInv, Types, HostTypes
<1>3. /\ \A m \in Traps \ {n} : ctx'[m] = ctx[m]
      /\ ctx'[n].freed = ctx[n].freed
  BY <1>0, <1>1 DEF HandsOver, IInv, Types, HostTypes, Contexts
<1>4. /\ Len(pipe[Worker]) + 1 \in DOMAIN pipe'[Worker] /\ pipe'[Worker][Len(pipe[Worker]) + 1] = n
      /\ \A i \in DOMAIN pipe[Worker] : i \in DOMAIN pipe'[Worker] /\ pipe'[Worker][i] = pipe[Worker][i]
  <2>1. /\ Len(pipe[Worker]) + 1 \in DOMAIN Append(pipe[Worker], n)
        /\ Append(pipe[Worker], n)[Len(pipe[Worker]) + 1] = n
        /\ \A i \in DOMAIN pipe[Worker] :
             i \in DOMAIN Append(pipe[Worker], n) /\ Append(pipe[Worker], n)[i] = pipe[Worker][i]
    BY <1>1, <1>2, AppendKeeps
  <2> QED
    BY <1>2, <2>1
<1>5. Working(n)' /\ \A m \in Traps : Working(m) => Working(m)'
  <2>1. host'[Worker] = host[Worker]
    BY <1>0, <1>2
  <2> QED
    BY <1>4, <2>1 DEF Working
<1>6. Returning(n)' /\ \A m \in Traps : Returning(m) => Returning(m)'
  <2>1. Returning(n)'
    BY <1>2 DEF Returning, At
  <2>2. \A u \in Threads : At(u, "return") => host'[u] = host[u]
    BY <1>0, <1>2 DEF At
  <2> QED
    BY <2>1, <2>2, ReturningStays
<1> QED
  BY <1>0, <1>2, <1>3, <1>5, <1>6 DEF GivenInv

LEMMA AckGiven ==
  ASSUME IInv, GivenInv, NEW h \in Hosts, Busy(h), host[h].at \in {"return", "spin"}, Ack(h), pipe' = pipe
  PROVE  GivenInv'
<1> DEFINE n == host[h].trap
<1>0. Worker \in Hosts /\ Threads \subseteq Hosts /\ n \in Traps
  BY SlotFacts, PlaceTypes
<1>1. /\ \A g \in Hosts \ {h} : host'[g] = host[g]
      /\ \A m \in Traps \ {n} : ctx'[m] = ctx[m] /\ acks'[m] = acks[m]
      /\ ctx'[n].freed /\ ctx'[n].background = ctx[n].background /\ acks'[n] > 0
  BY <1>0 DEF Ack, IInv, Types, HostTypes, Contexts
<1>2. \A m \in Traps : Working(m) => Working(m)'
  <2>1. host[Worker].at \in {"handler", "callback"} => host'[Worker] = host[Worker]
    BY <1>0, <1>1
  <2> QED
    BY <2>1, WorkingStays
<1>3. \A m \in Traps \ {n} : Returning(m) => Returning(m)'
  BY <1>0, <1>1 DEF Returning, At
<1> QED
  BY <1>0, <1>1, <1>2, <1>3 DEF GivenInv

LEMMA LeavesGiven ==
  ASSUME IInv, GivenInv, NEW t \in Threads, ThreadLeaves(t)
  PROVE  GivenInv'
<1> DEFINE n == host[t].trap
<1>0. /\ Worker \in Hosts /\ Threads \subseteq Hosts /\ t \in Hosts /\ t # Worker
      /\ n \in Traps
  BY SlotFacts, PlaceTypes DEF ThreadLeaves, At, Busy
<1>1. /\ UNCHANGED <<pipe, acks>>
      /\ \A g \in Hosts \ {t} : host'[g] = host[g]
      /\ \A m \in Traps \ {n} : ctx'[m] = ctx[m]
      /\ ctx'[n].done /\ ctx'[n].background = ctx[n].background /\ ctx'[n].freed = ctx[n].freed
  BY <1>0 DEF ThreadLeaves, IInv, Types, HostTypes, Contexts
<1>2. \A m \in Traps : Working(m) => Working(m)'
  BY <1>0, <1>1, WorkingStays
<1>3. \A m \in Traps \ {n} : Returning(m) => Returning(m)'
  BY <1>0, <1>1 DEF Returning, At
<1> QED
  BY <1>0, <1>1, <1>2, <1>3 DEF GivenInv

LEMMA WorkerReadGiven ==
  ASSUME IInv, GivenInv, WorkerRead
  PROVE  GivenInv'
<1>0. /\ Worker \in Hosts /\ Worker \notin Threads /\ Threads \subseteq Hosts
      /\ host[Worker].at = "read" /\ pipe[Worker] # <<>> /\ pipe[Worker] \in Seq(0 .. MaxTraps)
  BY SlotFacts, PlaceTypes DEF WorkerRead, At
<1>1. /\ UNCHANGED <<ctx, acks>>
      /\ \A g \in Hosts \ {Worker} : host'[g] = host[g]
      /\ pipe'[Worker] = Tail(pipe[Worker]) /\ host'[Worker].trap = Head(pipe[Worker])
      /\ Head(pipe[Worker]) # NULL => host'[Worker].at = "handler"
  BY <1>0 DEF WorkerRead, Quit, IInv, Types, HostTypes
<1>2. /\ Head(pipe[Worker]) = pipe[Worker][1]
      /\ \A i \in DOMAIN pipe[Worker] :
           i # 1 => i - 1 \in DOMAIN Tail(pipe[Worker]) /\ Tail(pipe[Worker])[i - 1] = pipe[Worker][i]
  BY <1>0, TailKeeps
<1>3. ASSUME NEW n \in Traps, Working(n) PROVE Working(n)'
  <2>1. n # NULL
    BY TrapsAssumption DEF Traps, NULL
  <2>2. PICK i \in DOMAIN pipe[Worker] : pipe[Worker][i] = n
    BY <1>0, <1>3 DEF Working
  <2>3. CASE i = 1
    BY <1>1, <1>2, <2>1, <2>2, <2>3 DEF Working
  <2>4. CASE i # 1
    <3>1. i - 1 \in DOMAIN pipe'[Worker] /\ pipe'[Worker][i - 1] = n
      BY <1>1, <1>2, <2>2, <2>4
    <3> QED
      BY <3>1 DEF Working
  <2> QED
    BY <2>3, <2>4
<1>4. \A n \in Traps : Returning(n) => Returning(n)'
  BY <1>0, <1>1, ReturningStays
<1> QED
  BY <1>1, <1>3, <1>4, GivenStays

LEMMA CompletesGiven ==
  ASSUME IInv, GivenInv, WorkerCompletes
  PROVE  GivenInv'
<1> DEFINE n == host[Worker].trap
<1>0. /\ Worker \in Hosts /\ Worker \notin Threads /\ Threads \subseteq Hosts
      /\ host[Worker].at = "handler" /\ n \in Traps /\ ctx[n].background = 1
  BY SlotFacts, PlaceTypes DEF WorkerCompletes, At, Busy, IInv, WorkerInv
<1>1. /\ UNCHANGED <<pipe, acks>>
      /\ \A g \in Hosts \ {Worker} : host'[g] = host[g]
      /\ \A m \in Traps \ {n} : ctx'[m] = ctx[m]
      /\ ctx'[n].background = 0 /\ ctx'[n].given = ctx[n].given
      /\ ctx'[n].done = ctx[n].done /\ ctx'[n].freed = ctx[n].freed
  BY <1>0 DEF WorkerCompletes, Go, IInv, Types, HostTypes, Contexts
<1>2. \A m \in Traps \ {n} : Working(m) => Working(m)'
  BY <1>1 DEF Working
<1>3. \A m \in Traps : Returning(m) => Returning(m)'
  BY <1>0, <1>1, ReturningStays
<1> QED
  BY <1>0, <1>1, <1>2, <1>3 DEF GivenInv

LEMMA GivenKeeps == IInv /\ DrainInv /\ GivenInv /\ [Next]_vars => GivenInv'
<1> SUFFICES ASSUME IInv, DrainInv, GivenInv, [Next]_vars PROVE GivenInv'
  OBVIOUS
<1>0. /\ Worker \in Hosts /\ Worker \notin Threads /\ Threads \subseteq Hosts
  BY SlotFacts
<1>1. ASSUME NEW t \in Tasks, TaskStep(t) PROVE GivenInv'
  BY <1>1 DEF TaskStep, TaskCommand, TaskCommandDone, TaskResumes, hosts, GivenInv, Working, Returning, At
<1>2. ASSUME NEW t \in Threads, ThreadRead(t) \/ ThreadDrains(t) \/ HandlerReturns(t) PROVE GivenInv'
  <2>1. /\ UNCHANGED <<ctx, acks>> /\ pipe'[Worker] = pipe[Worker] /\ host'[Worker] = host[Worker]
        /\ \A u \in Threads : At(u, "return") => host'[u] = host[u]
    BY <1>0, <1>2 DEF ThreadRead, ThreadDrains, HandlerReturns, Go, At, IInv, Types, HostTypes
  <2> QED
    BY <2>1, WorkingStays, ReturningStays, GivenStays
<1>3. ASSUME NEW t \in Threads, ThreadAcks(t) PROVE GivenInv'
  <2>1. t \in Hosts /\ Busy(t) /\ host[t].at = "return" /\ Ack(t) /\ pipe' = pipe
    BY <1>0, <1>3 DEF ThreadAcks, At, Busy
  <2> QED
    BY <2>1, AckGiven
<1>4. CASE WorkerAcks
  <2>1. Busy(Worker) /\ host[Worker].at = "spin" /\ Ack(Worker) /\ pipe' = pipe
    BY <1>4 DEF WorkerAcks, At, Busy
  <2> QED
    BY <1>0, <2>1, AckGiven
<1>5. CASE ResetBegin
  BY <1>5 DEF ResetBegin, hosts, GivenInv, Working, Returning, At
<1>6. ASSUME NEW t \in Threads, ResetKills(t) \/ ResetNext(t) PROVE GivenInv'
  <2>1. UNCHANGED <<ctx, acks, host>> /\ pipe'[Worker] = pipe[Worker]
    BY <1>0, <1>6 DEF ResetKills, ResetNext, hosts, IInv, Types, HostTypes
  <2> QED
    BY <2>1 DEF GivenInv, Working, Returning, At
<1>7. CASE ResetQuits
  <2>1. /\ UNCHANGED <<ctx, acks, host>> /\ pipe'[Worker] = Append(pipe[Worker], NULL)
        /\ pipe[Worker] \in Seq(0 .. MaxTraps) /\ NULL \in 0 .. MaxTraps
    BY <1>0, <1>7, TrapsAssumption DEF ResetQuits, Quit, NULL, IInv, Types, HostTypes
  <2>2. \A i \in DOMAIN pipe[Worker] : i \in DOMAIN pipe'[Worker] /\ pipe'[Worker][i] = pipe[Worker][i]
    <3>1. \A i \in DOMAIN pipe[Worker] : i \in DOMAIN Append(pipe[Worker], NULL)
                                            /\ Append(pipe[Worker], NULL)[i] = pipe[Worker][i]
      BY <2>1, AppendKeeps
    <3> QED
      BY <2>1, <3>1
  <2> QED
    BY <2>1, <2>2 DEF GivenInv, Working, Returning, At
<1>8. CASE ResetOver
  <2>1. /\ UNCHANGED <<ctx, acks, pipe>> /\ host[Worker].at = "off"
        /\ \A g \in Hosts \ {Worker} : host'[g] = host[g]
    BY <1>0, <1>8 DEF ResetOver, At, IInv, Types, HostTypes
  <2> QED
    BY <1>0, <2>1, WorkingStays, ReturningStays, GivenStays
<1>9. CASE UNCHANGED vars
  BY <1>9 DEF vars, hosts, GivenInv, Working, Returning, At
<1>10. ASSUME NEW t \in Threads, ThreadStep(t) PROVE GivenInv'
  BY <1>0, <1>2, <1>3, <1>10, CallBackGiven, HandsGiven, LeavesGiven DEF ThreadStep
<1>11. CASE WorkerStep
  BY <1>0, <1>4, <1>11, CallBackGiven, WorkerReadGiven, CompletesGiven DEF WorkerStep
<1> QED
  BY <1>1, <1>5, <1>6, <1>7, <1>8, <1>9, <1>10, <1>11, TrapGiven DEF Next, ResetStep

-----------------------------------------------------------------------------
(* What the hosts have they still have after a step that moves no trap,    *)
(* and after a read.                                                       *)
LiveGrows == \A n \in Traps : Live(n) => Live(n)'

LEMMA LiveStays ==
  ASSUME pipe' = pipe, \A h \in Hosts : Busy(h) => Busy(h)' /\ host'[h].trap = host[h].trap
  PROVE  LiveGrows
  BY DEF LiveGrows, Live, With

LEMMA LiveRead ==
  ASSUME IInv, NEW h \in Hosts, host[h].at = "read", pipe[h] # <<>>,
         pipe' = [pipe EXCEPT ![h] = Tail(pipe[h])],
         \A g \in Hosts \ {h} : host'[g] = host[g],
         host'[h].trap = Head(pipe[h]), Head(pipe[h]) # NULL => host'[h].at = "handler"
  PROVE  LiveGrows
<1>1. /\ pipe[h] \in Seq(0 .. MaxTraps) /\ pipe'[h] = Tail(pipe[h])
      /\ \A g \in Hosts \ {h} : pipe'[g] = pipe[g]
  BY PlaceTypes DEF IInv, Types, HostTypes
<1>2. /\ Head(pipe[h]) = pipe[h][1]
      /\ \A i \in DOMAIN pipe[h] :
           i # 1 => i - 1 \in DOMAIN Tail(pipe[h]) /\ Tail(pipe[h])[i - 1] = pipe[h][i]
  BY <1>1, TailKeeps
<1>3. ASSUME NEW n \in Traps, With(h, n) PROVE With(h, n)'
  <2>1. n # NULL
    BY TrapsAssumption DEF Traps, NULL
  <2>2. PICK i \in DOMAIN pipe[h] : pipe[h][i] = n
    BY <1>3 DEF With, Busy
  <2>3. CASE i = 1
    BY <1>2, <2>1, <2>2, <2>3 DEF With, Busy
  <2>4. CASE i # 1
    <3>1. i - 1 \in DOMAIN pipe'[h] /\ pipe'[h][i - 1] = n
      BY <1>1, <1>2, <2>2, <2>4
    <3> QED
      BY <3>1 DEF With
  <2> QED
    BY <2>3, <2>4
<1>4. \A g \in Hosts \ {h} : \A n \in Traps : With(g, n) => With(g, n)'
  BY <1>1 DEF With, Busy
<1> QED
  BY <1>3, <1>4 DEF LiveGrows, Live

LEMMA LiveWritten ==
  ASSUME IInv, NEW h \in Hosts, NEW e \in 0 .. MaxTraps,
         pipe' = [pipe EXCEPT ![h] = Append(pipe[h], e)],
         \A g \in Hosts : Busy(g) => Busy(g)' /\ host'[g].trap = host[g].trap
  PROVE  LiveGrows /\ (e \in Traps => Live(e)')
<1>1. /\ pipe[h] \in Seq(0 .. MaxTraps) /\ pipe'[h] = Append(pipe[h], e)
      /\ \A g \in Hosts \ {h} : pipe'[g] = pipe[g]
  BY PlaceTypes DEF IInv, Types, HostTypes
<1>2. /\ Len(pipe[h]) + 1 \in DOMAIN pipe'[h] /\ pipe'[h][Len(pipe[h]) + 1] = e
      /\ \A i \in DOMAIN pipe[h] : i \in DOMAIN pipe'[h] /\ pipe'[h][i] = pipe[h][i]
  <2>1. /\ Len(pipe[h]) + 1 \in DOMAIN Append(pipe[h], e) /\ Append(pipe[h], e)[Len(pipe[h]) + 1] = e
        /\ \A i \in DOMAIN pipe[h] : i \in DOMAIN Append(pipe[h], e) /\ Append(pipe[h], e)[i] = pipe[h][i]
    BY <1>1, AppendKeeps
  <2> QED
    BY <1>1, <2>1
<1>3. With(h, e)'
  BY <1>2 DEF With
<1>4. \A g \in Hosts : \A n \in Traps : With(g, n) => With(g, n)'
  BY <1>1, <1>2 DEF With
<1> QED
  BY <1>3, <1>4 DEF LiveGrows, Live

(* A waiting task is answered, or a host has its trap. *)
LEMMA AnswersGoOn ==
  ASSUME TaskInv, AnswerInv, LiveGrows, UNCHANGED <<task, acked>>
  PROVE  AnswerInv'
  BY DEF AnswerInv, TaskInv, LiveGrows, Waits

LEMMA NobodyToAnswer ==
  ASSUME TaskInv, emu.at # "run", UNCHANGED task
  PROVE  AnswerInv'
  BY DEF AnswerInv, TaskInv, Waits

LEMMA TrapAnswers ==
  ASSUME IInv, TaskInv, AnswerInv, NEW t \in Tasks, Trap(t)
  PROVE  AnswerInv'
<1>1. PICK n \in Nat : n = Taken + 1
  BY TakenFacts DEF IInv, Types
<1>2. n \in 0 .. MaxTraps /\ n \in Traps
  <2>1. Taken \in 0 .. MaxTraps /\ Taken < MaxTraps
    BY TakenFacts DEF Trap, IInv, Types
  <2> QED
    BY <1>1, <2>1, TrapsAssumption DEF Traps
<1>3. PICK s \in Slots :
        /\ ~ lock[s] /\ acked' = [acked EXCEPT ![s] = FALSE]
        /\ task' = [task EXCEPT ![t] = [at |-> "wait", slot |-> s, trap |-> n]]
        /\ pipe' = [pipe EXCEPT ![trap_thread_index] = Append(@, n)]
  BY <1>1 DEF Trap
<1>4. LiveGrows /\ Live(n)'
  <2>1. /\ trap_thread_index \in Hosts /\ host' = host
        /\ pipe' = [pipe EXCEPT ![trap_thread_index] = Append(pipe[trap_thread_index], n)]
    BY <1>3, SlotFacts DEF Trap, IInv, Types, HostTypes
  <2>2. \A g \in Hosts : Busy(g) => Busy(g)' /\ host'[g].trap = host[g].trap
    BY <2>1 DEF Busy
  <2> QED
    BY <1>2, <2>1, <2>2, LiveWritten
<1>5. ASSUME NEW u \in Tasks, Waits(u)' PROVE (acked[task[u].slot] \/ Live(task[u].trap))'
  <2>1. CASE u = t
    <3>1. task'[u].trap = n
      BY <1>3, <2>1 DEF IInv, Types, TaskTypes
    <3> QED
      BY <1>4, <3>1
  <2>2. CASE u # t
    <3>1. task'[u] = task[u] /\ Waits(u)
      BY <1>3, <1>5, <2>2 DEF Waits, IInv, Types, TaskTypes
    <3>2. task[u].slot \in Slots \ {s} /\ task[u].trap \in Traps
      BY <1>3, <3>1 DEF TaskInv, IInv, Types, TaskTypes
    <3>3. acked'[task[u].slot] = acked[task[u].slot]
      BY <1>3, <3>2 DEF IInv, Types, SlotTypes
    <3> QED
      BY <1>4, <3>1, <3>2, <3>3 DEF AnswerInv, LiveGrows
  <2> QED
    BY <2>1, <2>2
<1> QED
  BY <1>5 DEF AnswerInv

LEMMA ResumeAnswers ==
  ASSUME IInv, TaskInv, AnswerInv, NEW t \in Tasks, TaskResumes(t)
  PROVE  AnswerInv'
<1>1. /\ Waits(t) /\ task[t].slot \in Slots /\ ~ Waits(t)'
      /\ \A u \in Tasks \ {t} : task'[u] = task[u]
      /\ \A s \in Slots \ {task[t].slot} : acked'[s] = acked[s]
      /\ UNCHANGED <<pipe, host>>
  BY DEF TaskResumes, Waits, Running, hosts, IInv, Types, TaskTypes, SlotTypes
<1>2. LiveGrows
  BY <1>1, LiveStays DEF Busy
<1>3. ASSUME NEW u \in Tasks \ {t}, Waits(u)
      PROVE  task[u].slot \in Slots \ {task[t].slot} /\ task[u].trap \in Traps
  BY <1>1, <1>3 DEF TaskInv, IInv, Types, TaskTypes
<1>4. \A u \in Tasks : Waits(u)' => u # t /\ Waits(u)
  BY <1>1 DEF Waits
<1> QED
  BY <1>1, <1>2, <1>3, <1>4 DEF AnswerInv, LiveGrows

LEMMA CommandAnswers ==
  ASSUME IInv, TaskInv, AnswerInv, NEW t \in Tasks, TaskCommand(t) \/ TaskCommandDone(t)
  PROVE  AnswerInv'
<1>1. /\ \A u \in Tasks : task'[u].slot = task[u].slot /\ task'[u].trap = task[u].trap
      /\ \A u \in Tasks : Waits(u)' => Waits(u)
      /\ UNCHANGED <<pipe, host, acked>>
  BY DEF TaskCommand, TaskCommandDone, Waits, hosts, IInv, Types, TaskTypes
<1>2. LiveGrows
  BY <1>1, LiveStays DEF Busy
<1> QED
  BY <1>1, <1>2 DEF AnswerInv, LiveGrows, TaskInv

(* An ack answers the task in the slot, and takes only its trap away.      *)
LEMMA AckAnswers ==
  ASSUME IInv, raced = {}, TaskInv, AnswerInv, NEW h \in Hosts, Busy(h), Ack(h), UNCHANGED <<task, pipe>>
  PROVE  AnswerInv'
<1>1. PICK n \in Traps : n = host[h].trap
  BY BusyFacts
<1>2. Slot(h) = ctx[n].slot /\ Slot(h) \in Slots
  BY <1>1, BusyFacts
<1>3. /\ acked'[Slot(h)] /\ \A s \in Slots : acked[s] => acked'[s]
      /\ \A g \in Hosts \ {h} : host'[g] = host[g]
  BY <1>2 DEF Ack, IInv, Types, SlotTypes, HostTypes
<1>4. \A m \in Traps \ {n} : Live(m) => Live(m)'
  BY <1>1, <1>3 DEF Live, With, Busy
<1>5. ASSUME NEW u \in Tasks, Waits(u) PROVE (acked[task[u].slot] \/ Live(task[u].trap))'
  <2>1. task[u].slot \in Slots /\ task[u].trap \in Traps /\ ctx[task[u].trap].slot = task[u].slot
    BY <1>5 DEF TaskInv, IInv, Types, TaskTypes
  <2>2. CASE task[u].trap = n
    BY <1>2, <1>3, <2>1, <2>2
  <2>3. CASE task[u].trap # n
    BY <1>3, <1>4, <1>5, <2>1, <2>3 DEF AnswerInv
  <2> QED
    BY <2>2, <2>3
<1> QED
  BY <1>5 DEF AnswerInv, Waits

LEMMA ThreadAnswers ==
  ASSUME IInv, raced = {}, TaskInv, AnswerInv, NullInv, GivenInv, NEW t \in Threads, ThreadStep(t)
  PROVE  AnswerInv'
<1>0. t \in Hosts /\ Worker \in Hosts /\ t # Worker /\ Threads \subseteq Hosts
  BY SlotFacts
<1>1. CASE ThreadRead(t)
  <2>1. /\ host[t].at = "read" /\ pipe[t] # <<>> /\ pipe' = [pipe EXCEPT ![t] = Tail(pipe[t])]
        /\ \A g \in Hosts \ {t} : host'[g] = host[g]
        /\ host'[t].trap = Head(pipe[t]) /\ host'[t].at = "handler"
        /\ UNCHANGED <<task, acked>>
    BY <1>0, <1>1 DEF ThreadRead, At, IInv, Types, HostTypes
  <2> QED
    BY <1>0, <2>1, LiveRead, AnswersGoOn
<1>2. CASE ThreadDrains(t)
  <2>1. UNCHANGED task /\ pipe[t] # <<>> /\ Head(pipe[t]) = NULL /\ pipe[t] \in Seq(0 .. MaxTraps)
    BY <1>0, <1>2, PlaceTypes DEF ThreadDrains
  <2>2. 1 \in DOMAIN pipe[t] /\ pipe[t][1] = NULL
    BY <2>1, TailPositions
  <2>3. emu.at # "run"
    BY <2>2 DEF NullInv
  <2> QED
    BY <2>1, <2>3, NobodyToAnswer
<1>3. CASE CallBack(t) \/ CallBackReturns(t) \/ CallBackKilled(t) \/ HandlerReturns(t)
  <2>1. UNCHANGED <<task, acked, pipe>>
    BY <1>3 DEF CallBack, CallBackReturns, CallBackKilled, HandlerReturns, slots
  <2>2. \A h \in Hosts : Busy(h) => Busy(h)' /\ host'[h].trap = host[h].trap
    <3>1. CASE HandlerReturns(t)
      BY <1>0, <3>1 DEF HandlerReturns, Go, Busy, IInv, Types, HostTypes
    <3> QED
      BY <1>0, <1>3, <3>1, CallBackMoves DEF Busy
  <2> QED
    BY <2>1, <2>2, LiveStays, AnswersGoOn
<1>4. CASE HandsOver(t)
  <2>1. /\ UNCHANGED <<task, acked>> /\ host[t].trap \in 0 .. MaxTraps
        /\ pipe' = [pipe EXCEPT ![Worker] = Append(pipe[Worker], host[t].trap)]
    BY <1>0, <1>4 DEF HandsOver, slots, IInv, Types, HostTypes
  <2>2. \A h \in Hosts : Busy(h) => Busy(h)' /\ host'[h].trap = host[h].trap
    BY <1>0, <1>4 DEF HandsOver, Go, Busy, IInv, Types, HostTypes
  <2>3. PICK e \in 0 .. MaxTraps : e = host[t].trap
    BY <2>1
  <2>4. LiveGrows
    BY <1>0, <2>1, <2>2, <2>3, LiveWritten
  <2> QED
    BY <2>1, <2>4, AnswersGoOn
<1>5. CASE ThreadAcks(t)
  BY <1>0, <1>5, AckAnswers DEF ThreadAcks, At, Busy
<1>6. CASE ThreadLeaves(t)
  <2>1. PICK n \in Traps : n = host[t].trap
    BY <1>0, <1>6, PlaceTypes DEF ThreadLeaves, At, Busy
  <2>2. ctx[n].background = 1
    BY <1>6, <2>1 DEF ThreadLeaves, IInv, Types, HostTypes, Contexts
  <2>3. /\ UNCHANGED <<task, acked, pipe>> /\ host'[Worker] = host[Worker]
        /\ \A g \in Hosts \ {t} : host'[g] = host[g]
    BY <1>0, <1>6 DEF ThreadLeaves, slots, IInv, Types, HostTypes
  <2>4. With(Worker, n)'
    <3>1. With(Worker, n)
      BY <2>2 DEF GivenInv, Working, With, Busy
    <3> QED
      BY <2>3, <3>1 DEF With, Busy, Worker
  <2>5. \A m \in Traps \ {n} : Live(m) => Live(m)'
    BY <2>1, <2>3 DEF Live, With, Busy
  <2>6. LiveGrows
    <3>1. Live(n)'
      BY <1>0, <2>4 DEF Live, Hosts, Threads, Slots, Worker
    <3> QED
      BY <2>5, <3>1 DEF LiveGrows
  <2> QED
    BY <2>3, <2>6, AnswersGoOn
<1> QED
  BY <1>1, <1>2, <1>3, <1>4, <1>5, <1>6 DEF ThreadStep

LEMMA WorkerAnswers ==
  ASSUME IInv, raced = {}, TaskInv, AnswerInv, WorkerStep
  PROVE  AnswerInv'
<1>0. Worker \in Hosts
  BY SlotFacts
<1>1. CASE WorkerRead
  <2>1. /\ host[Worker].at = "read" /\ pipe[Worker] # <<>>
        /\ pipe' = [pipe EXCEPT ![Worker] = Tail(pipe[Worker])]
        /\ \A g \in Hosts \ {Worker} : host'[g] = host[g]
        /\ host'[Worker].trap = Head(pipe[Worker])
        /\ Head(pipe[Worker]) # NULL => host'[Worker].at = "handler"
        /\ UNCHANGED <<task, acked>>
    BY <1>0, <1>1 DEF WorkerRead, Quit, slots, At, IInv, Types, HostTypes
  <2> QED
    BY <1>0, <2>1, LiveRead, AnswersGoOn
<1>2. CASE CallBack(Worker) \/ CallBackReturns(Worker) \/ CallBackKilled(Worker)
  <2>1. UNCHANGED <<task, acked, pipe>>
    BY <1>2 DEF CallBack, CallBackReturns, CallBackKilled, slots
  <2>2. \A h \in Hosts : Busy(h) => Busy(h)' /\ host'[h].trap = host[h].trap
    BY <1>0, <1>2, CallBackMoves DEF Busy
  <2> QED
    BY <2>1, <2>2, LiveStays, AnswersGoOn
<1>3. CASE WorkerCompletes
  <2>1. UNCHANGED <<task, acked, pipe>>
    BY <1>3 DEF WorkerCompletes, slots
  <2>2. ctx[host[Worker].trap].background = 1
    BY <1>3 DEF WorkerCompletes, At, IInv, WorkerInv
  <2>3. \A h \in Hosts : Busy(h) => Busy(h)' /\ host'[h].trap = host[h].trap
    BY <1>0, <1>3, <2>2 DEF WorkerCompletes, Go, Busy, IInv, Types, HostTypes
  <2> QED
    BY <2>1, <2>3, LiveStays, AnswersGoOn
<1>4. CASE WorkerAcks
  BY <1>0, <1>4, AckAnswers DEF WorkerAcks, At, Busy
<1> QED
  BY <1>1, <1>2, <1>3, <1>4 DEF WorkerStep

LEMMA AnswerKeeps ==
  IInv /\ raced = {} /\ TaskInv /\ AnswerInv /\ NullInv /\ GivenInv /\ [Next]_vars => AnswerInv'
<1> SUFFICES ASSUME IInv, raced = {}, TaskInv, AnswerInv, NullInv, GivenInv, [Next]_vars PROVE AnswerInv'
  OBVIOUS
<1>1. CASE ResetBegin
  BY <1>1 DEF ResetBegin, AnswerInv, Waits, Running
<1>2. CASE ResetStep
  <2>1. UNCHANGED task /\ emu.at # "run"
    BY <1>2 DEF ResetStep, ResetKills, ResetNext, ResetQuits, ResetOver, Emu
  <2> QED
    BY <2>1, NobodyToAnswer
<1>3. CASE UNCHANGED vars
  BY <1>3, LiveStays, AnswersGoOn DEF vars, slots, hosts, Busy
<1> QED
  BY <1>1, <1>2, <1>3, TrapAnswers, CommandAnswers, ResumeAnswers, ThreadAnswers, WorkerAnswers
     DEF Next, TaskStep

-----------------------------------------------------------------------------
(* A command stands in its slot until its handler has seen it done. *)
LEMMA AskedStays ==
  ASSUME AskedInv, emu'.at = "run" => emu.at = "run",
         \A h \in Hosts : At(h, "callback")' =>
           /\ At(h, "callback") /\ Slot(h)' = Slot(h)
           /\ second[Slot(h)] # "none" => second'[Slot(h)] # "none"
  PROVE  AskedInv'
  BY DEF AskedInv

(* The slot of a handler that asks. *)
LEMMA AskerSlot ==
  ASSUME IInv, raced = {}, NEW h \in Hosts, At(h, "callback")
  PROVE  /\ Slot(h) = ctx[host[h].trap].slot /\ Slot(h) \in Slots
         /\ host[h].trap \in Traps /\ Live(host[h].trap)
  BY BusyFacts DEF At, Busy

LEMMA CallBackAsks ==
  ASSUME IInv, raced = {}, LiveInv, AskedInv, NEW h \in Hosts,
         CallBack(h) \/ CallBackReturns(h) \/ CallBackKilled(h)
  PROVE  AskedInv'
<1>1. /\ \A g \in Hosts \ {h} : host'[g] = host[g]
      /\ host'[h].trap = host[h].trap /\ host[h].at \in {"handler", "callback"}
      /\ UNCHANGED <<ctx, emu>>
  BY CallBackMoves DEF CallBack, CallBackReturns, CallBackKilled, control
<1>2. /\ \A g \in Hosts : Slot(g)' = Slot(g)
      /\ \A g \in Hosts \ {h} : At(g, "callback")' <=> At(g, "callback")
  BY <1>1 DEF Slot, At
<1>3. Slot(h) \in Slots /\ \A g \in Hosts \ {h} : At(g, "callback") => Slot(g) \in Slots \ {Slot(h)}
  BY <1>1, BusyFacts, SameSlot DEF At, Busy
<1>4. \A s \in Slots \ {Slot(h)} : second'[s] = second[s]
  BY <1>3 DEF CallBack, CallBackReturns, CallBackKilled, slots, IInv, Types, SlotTypes
<1>5. At(h, "callback")' => second'[Slot(h)] # "none"
  <2>1. CASE CallBack(h)
    BY <1>3, <2>1 DEF CallBack, At, IInv, Types, SlotTypes, HostTypes
  <2>2. CASE CallBackReturns(h) \/ CallBackKilled(h)
    BY <2>2 DEF CallBackReturns, CallBackKilled, Go, At, IInv, Types, HostTypes
  <2> QED
    BY <2>1, <2>2
<1> QED
  BY <1>1, <1>2, <1>3, <1>4, <1>5 DEF AskedInv

LEMMA ReadAsks ==
  ASSUME IInv, raced = {}, LiveInv, AskedInv, NEW t \in Threads, ThreadRead(t)
  PROVE  AskedInv'
<1>1. /\ t \in Hosts /\ Threads \subseteq Hosts /\ host[t].at = "read" /\ pipe[t] # <<>>
      /\ pipe[t] \in Seq(0 .. MaxTraps)
  BY SlotFacts, PlaceTypes DEF ThreadRead, At
<1>2. 1 \in DOMAIN pipe[t] /\ Head(pipe[t]) = pipe[t][1]
  BY <1>1, TailPositions
<1>3. PICK n \in Traps : n = pipe[t][1]
  BY <1>1, <1>2, PlaceTypes DEF ThreadRead
<1>4. /\ UNCHANGED <<ctx, emu>> /\ \A g \in Hosts \ {t} : host'[g] = host[g]
      /\ host'[t].at = "handler" /\ ctx[n].slot \in Slots
      /\ \A s \in Slots \ {ctx[n].slot} : second'[s] = second[s]
  BY <1>1, <1>2, <1>3 DEF ThreadRead, control, IInv, Types, HostTypes, SlotTypes, Contexts
<1>5. Live(n) /\ ~ ctx[n].given
  <2>1. n # NULL
    BY TrapsAssumption DEF Traps, NULL
  <2> QED
    BY <1>1, <1>2, <1>3, <2>1 DEF Live, With, IInv, ThreadInv, ThreadOK
<1>6. ASSUME NEW h \in Hosts, At(h, "callback")
      PROVE  h # t /\ Slot(h) \in Slots \ {ctx[n].slot}
  <2>1. h # t /\ Busy(h)
    BY <1>1, <1>6 DEF At, Busy
  <2>2. host[h].trap # n
    <3>1. CASE h \in Threads
      <4>1. Alike(h, t)
        BY <3>1, SlotFacts DEF Alike
      <4> QED
        BY <1>1, <1>2, <1>3, <2>1, <4>1 DEF IInv, OnceInv
    <3>2. CASE h = Worker
      BY <1>5, <1>6, <3>2 DEF At, IInv, WorkerInv, Handed
    <3> QED
      BY <3>1, <3>2, SlotFacts
  <2>3. /\ Slot(h) = ctx[host[h].trap].slot /\ Slot(h) \in Slots
        /\ host[h].trap \in Traps /\ Live(host[h].trap)
    BY <1>6, AskerSlot
  <2> QED
    BY <1>5, <2>1, <2>2, <2>3 DEF LiveInv
<1>7. \A h \in Hosts : At(h, "callback")' => At(h, "callback") /\ Slot(h)' = Slot(h)
  BY <1>4 DEF At, Slot
<1> QED
  BY <1>4, <1>6, <1>7, AskedStays

LEMMA AskedKeeps ==
  IInv /\ raced = {} /\ DrainInv /\ LiveInv /\ AskedInv /\ [Next]_vars => AskedInv'
<1> SUFFICES ASSUME IInv, raced = {}, DrainInv, LiveInv, AskedInv, [Next]_vars PROVE AskedInv'
  OBVIOUS
<1>0. Worker \in Hosts /\ Threads \subseteq Hosts /\ Hosts = Threads \cup {Worker}
  BY SlotFacts
<1>1. ASSUME NEW t \in Tasks, Trap(t) PROVE AskedInv'
  <2>1. UNCHANGED <<second, host, emu>>
    BY <1>1 DEF Trap, control
  <2>2. ASSUME NEW h \in Hosts, At(h, "callback") PROVE Slot(h)' = Slot(h)
    <3>1. host[h].trap \in Traps /\ ctx[host[h].trap].used
      BY <2>2, BusyFacts DEF At, Busy
    <3>2. PICK n \in Nat : n = Taken + 1
      BY TakenFacts DEF IInv, Types
    <3>3. Taken \in 0 .. MaxTraps /\ host[h].trap <= Taken
      BY <3>1, TakenFacts DEF IInv, Types, UsedInv
    <3>4. host[h].trap # n
      BY <3>1, <3>2, <3>3, TrapsAssumption DEF Traps
    <3> QED
      BY <1>1, <2>1, <3>1, <3>2, <3>4 DEF Trap, Slot, IInv, Types, HostTypes
  <2> QED
    BY <2>1, <2>2, AskedStays DEF At
<1>2. ASSUME NEW t \in Tasks, TaskStep(t) PROVE AskedInv'
  <2>1. UNCHANGED <<host, ctx, emu>> /\ task[t].slot \in Slots
    BY <1>2 DEF TaskStep, TaskCommand, TaskCommandDone, TaskResumes, hosts, control, IInv, Types, TaskTypes
  <2>2. \A s \in Slots : second[s] # "none" => second'[s] # "none"
    BY <1>2, <2>1 DEF TaskStep, TaskCommand, TaskCommandDone, TaskResumes, IInv, Types, SlotTypes
  <2>3. \A h \in Hosts : At(h, "callback") => Slot(h) \in Slots
    BY AskerSlot
  <2> QED
    BY <2>1, <2>2, <2>3, AskedStays DEF At, Slot
<1>3. ASSUME NEW h \in Hosts, UNCHANGED <<second, emu>>, \A g \in Hosts \ {h} : host'[g] = host[g],
             ~ At(h, "callback")', \A n \in Traps : ctx'[n].slot = ctx[n].slot
      PROVE  AskedInv'
  <2>1. \A g \in Hosts : At(g, "callback")' => At(g, "callback") /\ Slot(g)' = Slot(g)
    <3>1. \A g \in Hosts : At(g, "callback") => host[g].trap \in Traps
      BY AskerSlot
    <3> QED
      BY <1>3, <3>1 DEF At, Slot
  <2> QED
    BY <1>3, <2>1, AskedStays
<1>4. ASSUME NEW t \in Threads, ThreadStep(t) PROVE AskedInv'
  <2>0. t \in Hosts
    BY <1>0
  <2>1. CASE HandsOver(t) \/ HandlerReturns(t) \/ ThreadAcks(t) \/ ThreadLeaves(t) \/ ThreadDrains(t)
    <3>1. UNCHANGED <<second, emu>>
      BY <2>1 DEF HandsOver, HandlerReturns, ThreadAcks, ThreadLeaves, ThreadDrains, slots, control
    <3>2. \A g \in Hosts \ {t} : host'[g] = host[g]
      BY <2>1 DEF HandsOver, HandlerReturns, ThreadAcks, ThreadLeaves, ThreadDrains, Ack, Go,
         IInv, Types, HostTypes
    <3>3. ~ At(t, "callback")'
      BY <2>0, <2>1 DEF HandsOver, HandlerReturns, ThreadAcks, ThreadLeaves, ThreadDrains, Ack, Go,
         At, Idle, IInv, Types, HostTypes
    <3>4. \A n \in Traps : ctx'[n].slot = ctx[n].slot
      <4>1. CASE HandsOver(t)
        BY <4>1 DEF HandsOver, IInv, Types, HostTypes, Contexts
      <4>2. CASE HandlerReturns(t) \/ ThreadDrains(t)
        BY <4>2 DEF HandlerReturns, ThreadDrains
      <4>3. CASE ThreadAcks(t)
        BY <4>3 DEF ThreadAcks, Ack, IInv, Types, HostTypes, Contexts
      <4>4. CASE ThreadLeaves(t)
        BY <4>4 DEF ThreadLeaves, IInv, Types, HostTypes, Contexts
      <4> QED
        BY <2>1, <4>1, <4>2, <4>3, <4>4
    <3> QED
      BY <1>3, <2>0, <3>1, <3>2, <3>3, <3>4
  <2> QED
    BY <1>4, <2>0, <2>1, ReadAsks, CallBackAsks DEF ThreadStep
<1>5. CASE WorkerStep
  <2>1. CASE WorkerRead \/ WorkerCompletes \/ WorkerAcks
    <3>1. UNCHANGED <<second, emu>>
      BY <2>1 DEF WorkerRead, WorkerCompletes, WorkerAcks, slots, control
    <3>2. \A g \in Hosts \ {Worker} : host'[g] = host[g]
      BY <2>1 DEF WorkerRead, WorkerCompletes, WorkerAcks, Ack, Go, IInv, Types, HostTypes
    <3>3. ~ At(Worker, "callback")'
      BY <1>0, <2>1 DEF WorkerRead, WorkerCompletes, WorkerAcks, Ack, Go, At, Idle, IInv, Types, HostTypes
    <3>4. \A n \in Traps : ctx'[n].slot = ctx[n].slot
      <4>1. CASE WorkerRead
        BY <4>1 DEF WorkerRead
      <4>2. CASE WorkerCompletes
        BY <4>2 DEF WorkerCompletes, IInv, Types, HostTypes, Contexts
      <4>3. CASE WorkerAcks
        BY <4>3 DEF WorkerAcks, Ack, IInv, Types, HostTypes, Contexts
      <4> QED
        BY <2>1, <4>1, <4>2, <4>3
    <3> QED
      BY <1>0, <1>3, <3>1, <3>2, <3>3, <3>4
  <2> QED
    BY <1>0, <1>5, <2>1, CallBackAsks DEF WorkerStep
<1>6. CASE ResetBegin
  BY <1>6 DEF ResetBegin, AskedInv, Emu
<1>7. ASSUME (\E t \in Threads : ResetKills(t) \/ ResetNext(t)) \/ ResetQuits PROVE AskedInv'
  BY <1>7 DEF ResetKills, ResetNext, ResetQuits, AskedInv, Emu
<1>8. CASE ResetOver
  <2>1. \A t \in Threads : host[t].at = "read"
    BY <1>8 DEF ResetOver, Emu, DrainInv, Due, Drained
  <2>2. \A h \in Hosts : ~ At(h, "callback")'
    BY <1>0, <1>8, <2>1 DEF ResetOver, At, Idle, IInv, Types, HostTypes
  <2> QED
    BY <2>2 DEF AskedInv
<1>9. CASE UNCHANGED vars
  BY <1>9, AskedStays DEF vars, slots, hosts, control, At, Slot
<1> QED
  BY <1>1, <1>2, <1>4, <1>5, <1>6, <1>7, <1>8, <1>9 DEF Next, ResetStep

-----------------------------------------------------------------------------

LEMMA ToldStays ==
  ASSUME IInv, NEW h \in Hosts, Told(h),
         \/ pipe'[h] = pipe[h]
         \/ \E n \in 0 .. MaxTraps : pipe'[h] = Append(pipe[h], n)
         \/ pipe[h] # <<>> /\ Head(pipe[h]) # NULL /\ pipe'[h] = Tail(pipe[h])
  PROVE  \E i \in DOMAIN pipe'[h] : pipe'[h][i] = NULL
<1>1. pipe[h] \in Seq(0 .. MaxTraps)
  BY PlaceTypes
<1>2. PICK i \in DOMAIN pipe[h] : pipe[h][i] = NULL
  BY DEF Told
<1>3. ASSUME NEW n \in 0 .. MaxTraps, pipe'[h] = Append(pipe[h], n)
      PROVE  i \in DOMAIN pipe'[h] /\ pipe'[h][i] = NULL
  <2>1. i \in DOMAIN Append(pipe[h], n) /\ Append(pipe[h], n)[i] = pipe[h][i]
    BY <1>1, AppendKeeps
  <2> QED
    BY <1>2, <1>3, <2>1
<1>4. ASSUME pipe[h] # <<>>, Head(pipe[h]) # NULL, pipe'[h] = Tail(pipe[h])
      PROVE  i - 1 \in DOMAIN pipe'[h] /\ pipe'[h][i - 1] = NULL
  <2>1. /\ Head(pipe[h]) = pipe[h][1]
        /\ i # 1 => i - 1 \in DOMAIN Tail(pipe[h]) /\ Tail(pipe[h])[i - 1] = pipe[h][i]
    BY <1>1, <1>4, TailKeeps
  <2> QED
    BY <1>2, <1>4, <2>1
<1> QED
  BY <1>2, <1>3, <1>4

LEMMA SentKeeps == IInv /\ SentInv /\ [Next]_vars => SentInv'
<1> SUFFICES ASSUME IInv, SentInv, [Next]_vars PROVE SentInv'
  OBVIOUS
<1>0. /\ Worker \in Hosts /\ Worker \notin Threads /\ Threads \subseteq Hosts
      /\ emu.thread \in Threads
  BY SlotFacts DEF Threads, IInv, Types, ControlTypes
<1>1. ASSUME UNCHANGED <<emu, state>>, host'[Worker] = host[Worker],
             \A h \in Hosts : \/ pipe'[h] = pipe[h]
                              \/ \E n \in 0 .. MaxTraps : pipe'[h] = Append(pipe[h], n)
                              \/ pipe[h] # <<>> /\ Head(pipe[h]) # NULL /\ pipe'[h] = Tail(pipe[h])
      PROVE  SentInv'
  <2>1. \A h \in Hosts : Told(h) => \E i \in DOMAIN pipe'[h] : pipe'[h][i] = NULL
    BY <1>1, ToldStays
  <2> QED
    BY <1>0, <1>1, <2>1 DEF SentInv, Told, At, Worker
<1>2. ASSUME NEW t \in Tasks, Trap(t) \/ TaskStep(t) PROVE SentInv'
  <2>1. emu.at = "run" /\ emu' = emu
    BY <1>2 DEF Trap, TaskStep, TaskCommand, TaskCommandDone, TaskResumes, control
  <2> QED
    BY <2>1 DEF SentInv
<1>3. ASSUME NEW t \in Threads, ThreadStep(t), ~ ThreadDrains(t) PROVE SentInv'
  <2>1. UNCHANGED <<emu, state>>
    BY <1>3 DEF ThreadStep, ThreadRead, CallBack, CallBackReturns, CallBackKilled, HandsOver,
       HandlerReturns, ThreadAcks, ThreadLeaves, control
  <2>2. host'[Worker] = host[Worker]
    BY <1>0, <1>3 DEF ThreadStep, ThreadRead, CallBack, CallBackReturns, CallBackKilled, HandsOver,
       HandlerReturns, ThreadAcks, ThreadLeaves, Ack, Go, IInv, Types, HostTypes
  <2>3. ASSUME NEW h \in Hosts
        PROVE  \/ pipe'[h] = pipe[h]
               \/ \E n \in 0 .. MaxTraps : pipe'[h] = Append(pipe[h], n)
               \/ pipe[h] # <<>> /\ Head(pipe[h]) # NULL /\ pipe'[h] = Tail(pipe[h])
    <3>1. CASE ThreadRead(t)
      BY <1>0, <3>1 DEF ThreadRead, IInv, Types, HostTypes
    <3>2. CASE HandsOver(t)
      <4>1. host[t].trap \in 0 .. MaxTraps
        BY <1>0 DEF IInv, Types, HostTypes
      <4>2. pipe'[h] = pipe[h] \/ pipe'[h] = Append(pipe[h], host[t].trap)
        BY <1>0, <3>2 DEF HandsOver, IInv, Types, HostTypes
      <4> QED
        BY <4>1, <4>2
    <3>3. CASE pipe' = pipe
      BY <3>3
    <3> QED
      BY <1>3, <3>1, <3>2, <3>3 DEF ThreadStep, CallBack, CallBackReturns, CallBackKilled,
         HandlerReturns, ThreadAcks, ThreadLeaves
  <2> QED
    BY <1>1, <2>1, <2>2, <2>3
<1>4. ASSUME NEW t \in Threads, ThreadDrains(t) PROVE SentInv'
  <2>1. /\ UNCHANGED <<emu, host>> /\ state'[t] = 0
        /\ \A h \in Hosts \ {t} : pipe'[h] = pipe[h]
        /\ \A u \in Threads \ {t} : state'[u] = state[u]
    BY <1>0, <1>4 DEF ThreadDrains, IInv, Types, HostTypes, ControlTypes
  <2> QED
    BY <1>0, <2>1 DEF SentInv, Told, At, Worker
<1>5. CASE WorkerStep
  <2>1. UNCHANGED <<emu, state>> /\ host[Worker].at # "off"
    BY <1>5 DEF WorkerStep, WorkerRead, CallBack, CallBackReturns, CallBackKilled, WorkerCompletes,
       WorkerAcks, At, control
  <2>2. \A t \in Threads : pipe'[t] = pipe[t]
    BY <1>0, <1>5 DEF WorkerStep, WorkerRead, CallBack, CallBackReturns, CallBackKilled,
       WorkerCompletes, WorkerAcks, IInv, Types, HostTypes
  <2>3. \/ host'[Worker].at = "off"
        \/ pipe'[Worker] = pipe[Worker]
        \/ pipe[Worker] # <<>> /\ Head(pipe[Worker]) # NULL /\ pipe'[Worker] = Tail(pipe[Worker])
    <3>1. CASE WorkerRead
      BY <1>0, <3>1 DEF WorkerRead, Quit, IInv, Types, HostTypes
    <3> QED
      BY <1>5, <3>1 DEF WorkerStep, CallBack, CallBackReturns, CallBackKilled, WorkerCompletes, WorkerAcks
  <2>4. Told(Worker) => host'[Worker].at = "off" \/ \E i \in DOMAIN pipe'[Worker] : pipe'[Worker][i] = NULL
    BY <1>0, <2>3, ToldStays
  <2> QED
    BY <1>0, <2>1, <2>2, <2>4 DEF SentInv, Told, At, Worker
<1>6. CASE ResetBegin
  BY <1>6 DEF ResetBegin, SentInv, Emu
<1>7. ASSUME NEW t \in Threads, ResetKills(t) PROVE SentInv'
  <2>1. /\ emu'.at = "wait" /\ emu'.thread = t /\ pipe'[t] = Append(pipe[t], NULL)
        /\ pipe[t] \in Seq(0 .. MaxTraps) /\ NULL \in 0 .. MaxTraps
    BY <1>0, <1>7, TrapsAssumption DEF ResetKills, Emu, NULL, IInv, Types, HostTypes
  <2>2. Len(pipe[t]) + 1 \in DOMAIN Append(pipe[t], NULL) /\ Append(pipe[t], NULL)[Len(pipe[t]) + 1] = NULL
    BY <2>1, AppendKeeps
  <2> QED
    BY <2>1, <2>2 DEF SentInv, Told
<1>8. ASSUME NEW t \in Threads, ResetNext(t) PROVE SentInv'
  BY <1>8 DEF ResetNext, SentInv, Emu
<1>9. CASE ResetQuits
  <2>1. /\ emu'.at = "worker" /\ pipe'[Worker] = Append(pipe[Worker], NULL)
        /\ pipe[Worker] \in Seq(0 .. MaxTraps) /\ NULL \in 0 .. MaxTraps
    BY <1>0, <1>9, TrapsAssumption DEF ResetQuits, Quit, Emu, NULL, IInv, Types, HostTypes
  <2>2. /\ Len(pipe[Worker]) + 1 \in DOMAIN Append(pipe[Worker], NULL)
        /\ Append(pipe[Worker], NULL)[Len(pipe[Worker]) + 1] = NULL
    BY <2>1, AppendKeeps
  <2> QED
    BY <2>1, <2>2 DEF SentInv, Told, Worker
<1>10. CASE ResetOver
  BY <1>10 DEF ResetOver, SentInv, Emu
<1>11. CASE UNCHANGED vars
  BY <1>11 DEF vars, hosts, control, SentInv, Told, At
<1> QED
  BY <1>2, <1>3, <1>4, <1>5, <1>6, <1>7, <1>8, <1>9, <1>10, <1>11 DEF Next, ResetStep

-----------------------------------------------------------------------------
LEMMA WakeInitial == ASSUME Init PROVE WakeInv
<1>1. /\ \A h \in Hosts : pipe[h] = <<>> /\ host[h].at = "read"
      /\ DOMAIN <<>> = {} /\ Threads \subseteq Hosts
  BY SlotFacts DEF Init, Idle
<1>2. NullInv
  BY <1>1 DEF NullInv
<1>3. KillInv
  BY DEF Init, KillInv
<1>4. GivenInv
  BY DEF Init, GivenInv, Traps
<1>5. TakenInv
  BY DEF Init, TakenInv
<1>6. AnswerInv /\ AskedInv
  BY <1>1 DEF Init, AnswerInv, AskedInv, Waits, Running, At
<1>7. SentInv
  BY DEF Init, SentInv, Emu
<1> QED
  BY <1>2, <1>3, <1>4, <1>5, <1>6, <1>7 DEF WakeInv

LEMMA WakeInductive == IInv /\ SlotInv /\ WakeInv /\ [Next]_vars => WakeInv'
<1> SUFFICES ASSUME IInv, SlotInv, WakeInv, [Next]_vars PROVE WakeInv'
  OBVIOUS
<1>1. raced' = {} => raced = {}
  <2>1. raced \subseteq raced'
    <3>1. ASSUME NEW t \in Tasks, Trap(t) \/ TaskStep(t) PROVE raced' = raced
      BY <3>1 DEF Trap, TaskStep, TaskCommand, TaskCommandDone, TaskResumes, hosts
    <3>2. ASSUME NEW t \in Threads, ThreadStep(t) PROVE raced \subseteq raced'
      BY <3>2 DEF ThreadStep, ThreadRead, ThreadDrains, CallBack, CallBackReturns, CallBackKilled,
         HandsOver, HandlerReturns, ThreadAcks, ThreadLeaves
    <3>3. WorkerStep => raced' = raced
      BY DEF WorkerStep, WorkerRead, CallBack, CallBackReturns, CallBackKilled, WorkerCompletes, WorkerAcks
    <3>4. ResetBegin \/ ResetStep => raced' = raced
      BY DEF ResetBegin, ResetStep, ResetKills, ResetNext, ResetQuits, ResetOver, hosts
    <3>5. UNCHANGED vars => raced' = raced
      BY DEF vars, hosts
    <3> QED
      BY <3>1, <3>2, <3>3, <3>4, <3>5 DEF Next
  <2> QED
    BY <2>1
<1>2. DrainInv /\ (raced = {} => TaskInv /\ LiveInv)
  BY DEF SlotInv, ServeInv
<1>3. NullInv /\ KillInv /\ GivenInv /\ TakenInv /\ SentInv /\ (raced = {} => AnswerInv /\ AskedInv)
  BY DEF WakeInv
<1>4. NullInv' /\ KillInv' /\ GivenInv' /\ TakenInv' /\ SentInv'
  BY <1>2, <1>3, NullKeeps, KillKeeps, GivenKeeps, TakenKeeps, SentKeeps
<1>5. raced' = {} => AnswerInv' /\ AskedInv'
  BY <1>1, <1>2, <1>3, AnswerKeeps, AskedKeeps
<1> QED
  BY <1>4, <1>5 DEF WakeInv

(* What everyone waits for comes: the thread or worker that a reset waits  *)
(* for has its NULL yet to read or has read it; and, unless a trap raced,  *)
(* a task that polls has its ack or a host has its trap, a host that polls *)
(* for its command has the task of its trap there to execute it, or it is  *)
(* done, and the worker that spins on trap_done has it set or the thread   *)
(* that sets it next.  (In a reset a command whose slot is not killed is   *)
(* what Orphaned names.)                                                   *)
Executes(t) == task[t].at = "command" \/ (second[task[t].slot] = "asked" /\ ~ acked[task[t].slot])
ResetIsHeard ==
  /\ emu.at = "wait" => state[emu.thread] = 0 \/ Told(emu.thread)
  /\ emu.at = "worker" => At(Worker, "off") \/ Told(Worker)
TrapsAreServed ==
  /\ \A t \in Tasks : Waits(t) => acked[task[t].slot] \/ Live(task[t].trap)
  /\ \A h \in Hosts : At(h, "callback") /\ emu.at = "run" =>
       /\ kill[Slot(h)] = 1
       /\ \/ second[Slot(h)] = "done"
          \/ \E t \in Tasks : /\ Waits(t) /\ task[t].trap = host[h].trap
                              /\ task[t].slot = Slot(h) /\ Executes(t)
  /\ At(Worker, "spin") => ctx[host[Worker].trap].done \/ Returning(host[Worker].trap)
NobodyWaitsInVain == ResetIsHeard /\ (raced = {} => TrapsAreServed)

(* No task, no handler, no worker and no reset waits for what nobody is    *)
(* left to do: the polling loops of hwtrap_entry, call_hardware_trap_back  *)
(* and trap_background_set_complete, and reset_traps.                      *)
THEOREM NobodyWaitsInVainAlways == Spec => []NobodyWaitsInVain
<1>1. Init => IInv /\ SlotInv /\ WakeInv
  BY Initial, SlotInitial, WakeInitial
<1>2. IInv /\ SlotInv /\ WakeInv /\ [Next]_vars => (IInv /\ SlotInv /\ WakeInv)'
  BY Inductive, SlotInductive, WakeInductive
<1>3. IInv /\ SlotInv /\ WakeInv => NobodyWaitsInVain
  <2> SUFFICES ASSUME IInv, SlotInv, WakeInv, raced = {} PROVE TrapsAreServed
    <3>1. IInv /\ WakeInv => ResetIsHeard
      BY SlotFacts DEF WakeInv, SentInv, ResetIsHeard, IInv, Types, ControlTypes, Threads
    <3> QED
      BY <3>1 DEF NobodyWaitsInVain
  <2>1. TaskInv /\ LiveInv /\ AnswerInv /\ AskedInv /\ KillInv /\ TakenInv /\ GivenInv
    BY DEF SlotInv, ServeInv, WakeInv
  <2>2. ASSUME NEW h \in Hosts, At(h, "callback"), emu.at = "run"
        PROVE  /\ kill[Slot(h)] = 1
               /\ \/ second[Slot(h)] = "done"
                  \/ \E t \in Tasks : /\ Waits(t) /\ task[t].trap = host[h].trap
                                      /\ task[t].slot = Slot(h) /\ Executes(t)
    <3>1. /\ Slot(h) = ctx[host[h].trap].slot /\ Slot(h) \in Slots /\ host[h].trap \in Traps
          /\ Live(host[h].trap)
      BY <2>2, AskerSlot
    <3>2. kill[Slot(h)] = 1
      BY <2>1, <2>2, <3>1 DEF KillInv
    <3>3. PICK t \in Tasks : Waits(t) /\ task[t].trap = host[h].trap
      BY <2>1, <2>2, <3>1 DEF LiveInv
    <3>4. task[t].slot = Slot(h)
      BY <2>1, <3>1, <3>3 DEF TaskInv
    <3>5. acks[host[h].trap] = 0
      BY <2>2, <3>1, LiveFacts DEF With, At, Busy
    <3>6. ~ acked[Slot(h)]
      BY <2>1, <3>3, <3>4, <3>5 DEF TaskInv
    <3>7. second[Slot(h)] \in {"asked", "taken", "done"}
      BY <2>1, <2>2, <3>1 DEF AskedInv, IInv, Types, SlotTypes
    <3>8. second[Slot(h)] = "taken" => task[t].at = "command"
      <4> SUFFICES ASSUME second[Slot(h)] = "taken" PROVE task[t].at = "command"
        OBVIOUS
      <4>1. PICK u \in Tasks : task[u].at = "command" /\ task[u].slot = Slot(h)
        BY <2>1, <3>1 DEF TakenInv
      <4>2. u = t
        BY <2>1, <3>3, <3>4, <4>1 DEF TaskInv, Waits
      <4> QED
        BY <4>1, <4>2
    <3> QED
      BY <3>2, <3>3, <3>4, <3>6, <3>7, <3>8 DEF Executes
  <2>3. ASSUME At(Worker, "spin") PROVE ctx[host[Worker].trap].done \/ Returning(host[Worker].trap)
    <3>1. Worker \in Hosts /\ Busy(Worker)
      BY <2>3, SlotFacts DEF At, Busy
    <3>2. host[Worker].trap \in Traps
      BY <3>1, PlaceTypes
    <3>3. ctx[host[Worker].trap].given /\ acks[host[Worker].trap] = 0
      BY <2>3 DEF At, IInv, WorkerInv, Handed
    <3> QED
      BY <2>1, <3>2, <3>3 DEF GivenInv
  <2> QED
    BY <2>1, <2>2, <2>3 DEF TrapsAreServed, AnswerInv
<1> QED
  BY <1>1, <1>2, <1>3, PTL DEF Spec
=============================================================================
