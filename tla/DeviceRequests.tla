---------------------------- MODULE DeviceRequests ----------------------------
(***************************************************************************)
(* A unit of uaeserial.device (uaeserial.cpp; hardfile.cpp has the same    *)
(* structure).  A 68k program sends requests with BeginIO, which copies    *)
(* the request and pipes it to dev_thread.  dev_thread replies to a        *)
(* request that needs no waiting, and puts the others on the list          *)
(* dev->ar.  The host's serial thread completes requests of the list and   *)
(* pipes them to dev_thread again, which then replies; AbortIO does the    *)
(* same.  A machine reset aborts everything and stops dev_thread.          *)
(*                                                                         *)
(* async_sem protects the list, pipe_sem keeps the three items of a        *)
(* message together, so that the pipe is a bounded queue of messages here. *)
(***************************************************************************)
EXTENDS Integers, FiniteSetsExt, SequencesExt

CONSTANTS
  Requests,    \* IORequests of 68k programs
  Kinds,       \* the commands they send: a subset of AllKinds
  PipeCap,     \* messages dev->requests holds (33)
  MaxBegins,   \* bound: how often requests are sent
  MaxAborts,   \* bound: calls of AbortIO
  MaxOpens,    \* bound: how often the unit is opened
  MaxResets    \* bound: machine resets, 0 or 1; the model ends there

Async    == {"read", "write", "break"}
AllKinds == Async \cup {"query", "reset"}
Threads  == {"cpu", "serial", "dev"}

ASSUME DeviceAssumption ==
  /\ IsFiniteSet(Requests) /\ Kinds \subseteq AllKinds /\ Kinds # {}
  /\ PipeCap \in Nat \ {0}
  /\ MaxBegins \in Nat /\ MaxAborts \in Nat /\ MaxOpens \in Nat /\ MaxResets \in 0 .. 1

VARIABLES
  io,         \* the 68k's view: how often a request was sent and replied to
  closes, aborts,  \* CloseDevice and AbortIO calls so far
  ar,         \* dev->ar: the asynchronous requests, oldest first
  async_sem,
  requests,   \* dev->requests
  pipe_sem,
  sync_sem,   \* dev->sync_sem
  at,         \* where the 68k's thread, the serial thread and dev_thread are
  phase,      \* a thread that writes to the pipe, before and after pipe_sem
  msg,        \* the message that a thread writes, or that dev_thread has read
  freed,      \* host copies that were freed (history)
  touched,    \* freed host copies that were read or written (history)
  again,      \* requests that an abort piped although they were done (history)
  aborted,    \* sendings that were aborted (history) ...
  missed      \* ... before dev_thread had put them on the list

amiga == <<io, closes, aborts>>
list  == <<ar, async_sem>>
pipe  == <<requests, pipe_sem, phase>>
hist  == <<freed, touched, again, aborted, missed>>
vars  == <<amiga, list, pipe, sync_sem, at, msg, hist>>

(* A host copy of a request: the n-th sending of r. *)
Copy(r, n, kind) == [r |-> r, n |-> n, kind |-> kind]
Quit == Copy("NULL", 0, "quit")

Id(c) == <<c.r, c.n>>
Surplus == \E r \in Requests : io[r].replied > io[r].begun
Outstanding(r) == io[r].begun > io[r].replied
InList(r) == \E i \in DOMAIN ar : ar[i].copy.r = r
Entry(r) == CHOOSE i \in DOMAIN ar :   \* the first one for r
              ar[i].copy.r = r /\ \A j \in 1 .. i - 1 : ar[j].copy.r # r

At(t, place) == at[t] = place /\ phase[t] = "none"
Go(t, place) == at' = [at EXCEPT ![t] = place]
Touch(c) == touched' = IF Id(c) \in freed THEN touched \cup {Id(c)} ELSE touched
ReplyMsg(r) == io' = [io EXCEPT ![r].replied = @ + 1]

-----------------------------------------------------------------------------
(* Three writes to the pipe under pipe_sem; the thread goes on at place.   *)
Send(t, m, place) ==
  /\ msg' = [msg EXCEPT ![t] = m]
  /\ phase' = [phase EXCEPT ![t] = "wait"]
  /\ Go(t, place)
  /\ UNCHANGED <<requests, pipe_sem>>

PipeSemWait_Unlocked(t) ==
  /\ phase[t] = "wait"
  /\ phase' = [phase EXCEPT ![t] = "write"]
  /\ UNCHANGED <<amiga, list, requests, pipe_sem, sync_sem, at, msg, hist>>
PipeSemWait(t) ==
  /\ phase[t] = "wait" /\ pipe_sem > 0
  /\ pipe_sem' = pipe_sem - 1
  /\ phase' = [phase EXCEPT ![t] = "write"]
  /\ UNCHANGED <<amiga, list, requests, sync_sem, at, msg, hist>>

WriteMessage(t) ==
  /\ phase[t] = "write" /\ Len(requests) < PipeCap
  /\ requests' = Append(requests, msg[t])
  /\ pipe_sem' = pipe_sem + 1
  /\ phase' = [phase EXCEPT ![t] = "none"]
  /\ UNCHANGED <<amiga, list, sync_sem, at, msg, hist>>

(* abort_async: the request is looked up under async_sem ...               *)
AbortFind_Unmarked(t, r, found, missing) ==
  /\ async_sem > 0
  /\ IF InList(r)
       THEN /\ msg' = [msg EXCEPT ![t] = ar[Entry(r)].copy]
            /\ again' = IF ar[Entry(r)].ready THEN again \cup {r} ELSE again
            /\ Go(t, found)
       ELSE /\ Go(t, missing)
            /\ UNCHANGED <<msg, again>>
  /\ UNCHANGED ar
AbortFind(t, r, found, missing) ==
  /\ async_sem > 0
  /\ IF InList(r)
       THEN /\ ar' = [ar EXCEPT ![Entry(r)].ready = TRUE]
            /\ msg' = [msg EXCEPT ![t] = ar[Entry(r)].copy]
            /\ again' = IF ar[Entry(r)].ready THEN again \cup {r} ELSE again
            /\ Go(t, found)
       ELSE /\ Go(t, missing)
            /\ UNCHANGED <<ar, msg, again>>

(* ... and its copy is written to and piped after async_sem was posted.    *)
AbortMark(t, found, place) ==
  /\ At(t, found)
  /\ Touch(msg[t])
  /\ Send(t, msg[t], place)
  /\ UNCHANGED <<amiga, list, sync_sem, freed, again, aborted, missed>>

-----------------------------------------------------------------------------
(* The 68k, on the emulator thread.  dev_open only asks whether the unit is *)
(* open; start_thread clears the pipe.  If the dev_thread of the time       *)
(* before has not read its Quit yet, that is lost and two threads read the  *)
(* new pipe, one of them on semaphores that are gone and data that nobody   *)
(* wrote: the model ends there, at "shared".                                *)
OpenUnit ==
  /\ At("cpu", "closed") /\ closes < MaxOpens
  /\ sync_sem' = IF closes = 0 THEN 0 ELSE sync_sem + 1   \* uae_sem_init
  /\ requests' = <<>>
  /\ at' = IF at.dev = "off" THEN [cpu |-> "open", serial |-> "idle", dev |-> "start"]
                             ELSE [at EXCEPT !.cpu = "shared"]
  /\ UNCHANGED <<amiga, list, pipe_sem, phase, msg, hist>>

OpenWait ==
  /\ At("cpu", "open") /\ sync_sem > 0
  /\ sync_sem' = sync_sem - 1
  /\ Go("cpu", "run")
  /\ UNCHANGED <<amiga, list, pipe, msg, hist>>

BeginIO(r, kind) ==
  /\ At("cpu", "run")
  /\ ~ Outstanding(r) /\ MapThenSumSet(LAMBDA q : io[q].begun, Requests) < MaxBegins
  /\ io' = [io EXCEPT ![r].begun = @ + 1, ![r].kind = kind]
  /\ Send("cpu", Copy(r, io[r].begun + 1, kind), "run")
  /\ UNCHANGED <<closes, aborts, list, sync_sem, hist>>

AbortIO(r) ==
  /\ At("cpu", "run")
  /\ io[r].begun > 0 /\ aborts < MaxAborts
  /\ aborts' = aborts + 1
  /\ AbortFind("cpu", r, "abort", "run")
  /\ LET now == IF Outstanding(r) THEN {<<r, io[r].begun>>} ELSE {} IN
     /\ aborted' = aborted \cup now
     /\ missed' = IF InList(r) THEN missed ELSE missed \cup now
  /\ UNCHANGED <<io, closes, async_sem, pipe, sync_sem, freed, touched>>

AbortIOMark == AbortMark("cpu", "abort", "run")

(* CloseDevice, with every request replied to; dev_close_3 waits for the   *)
(* serial thread, but nobody waits for dev_thread.                         *)
CloseUnit ==
  /\ At("cpu", "run")
  /\ \A r \in Requests : ~ Outstanding(r)
  /\ closes' = closes + 1
  /\ Go("cpu", "close")
  /\ UNCHANGED <<io, aborts, list, pipe, sync_sem, msg, hist>>

CloseSend ==
  /\ At("cpu", "close") /\ at.serial = "off"
  /\ Send("cpu", Quit, "closed")
  /\ UNCHANGED <<amiga, list, sync_sem, hist>>

(* dev_reset: while (dev->ar) abort_async(..., dev->ar->arequest), then    *)
(* dev_close_3, a wait for dev_thread, and the memset of the unit.  The    *)
(* second look at dev->ar is that of abort_async.                          *)
ResetUnit ==
  /\ At("cpu", "run") /\ MaxResets = 1
  /\ Go("cpu", "reset")
  /\ UNCHANGED <<amiga, list, pipe, sync_sem, msg, hist>>

ResetAbort ==
  /\ At("cpu", "reset") /\ ar # <<>>
  /\ AbortFind("cpu", ar[1].copy.r, "resetmark", "reset")
  /\ UNCHANGED <<amiga, async_sem, pipe, sync_sem, freed, touched, aborted, missed>>

ResetMark == AbortMark("cpu", "resetmark", "reset")

ResetClose ==
  /\ At("cpu", "reset") /\ ar = <<>>
  /\ Go("cpu", "resetclose")
  /\ UNCHANGED <<amiga, list, pipe, sync_sem, msg, hist>>

ResetSend ==
  /\ At("cpu", "resetclose") /\ at.serial = "off"
  /\ Send("cpu", Quit, "sync")
  /\ UNCHANGED <<amiga, list, sync_sem, hist>>

ResetSync_NoWait ==
  /\ At("cpu", "sync")
  /\ ar' = <<>> /\ requests' = <<>>
  /\ Go("cpu", "over")
  /\ UNCHANGED <<amiga, async_sem, pipe_sem, phase, sync_sem, msg, hist>>
ResetSync ==
  /\ At("cpu", "sync") /\ sync_sem > 0
  /\ sync_sem' = sync_sem - 1
  /\ ar' = <<>> /\ requests' = <<>>
  /\ Go("cpu", "over")
  /\ UNCHANGED <<amiga, async_sem, pipe_sem, phase, msg, hist>>

(* A unit that is closed is only cleared. *)
ResetClosed ==
  /\ At("cpu", "closed") /\ MaxResets = 1
  /\ ar' = <<>> /\ requests' = <<>>
  /\ Go("cpu", "over")
  /\ UNCHANGED <<amiga, async_sem, pipe_sem, phase, sync_sem, msg, hist>>

CpuStep ==
  \/ OpenWait \/ AbortIOMark \/ CloseSend \/ ResetAbort \/ ResetMark \/ ResetClose
  \/ ResetSend \/ ResetSync \/ PipeSemWait("cpu") \/ WriteMessage("cpu")

-----------------------------------------------------------------------------
(* The host's serial thread: uaeser_signal completes the first request of  *)
(* the list that is not done and that the host is ready for, and holds     *)
(* async_sem until it is in the pipe.                                      *)
Signal_Unmarked(ready) ==
  /\ At("serial", "idle") /\ async_sem > 0
  /\ \E i \in DOMAIN ar :
       LET Can(j) == /\ ~ ar[j].ready /\ ar[j].copy.kind \in ready
                     /\ ar[j].copy.kind = "break" => j = 1 IN
         /\ Can(i) /\ \A j \in 1 .. i - 1 : ~ Can(j)
         /\ Touch(ar[i].copy)
         /\ Send("serial", ar[i].copy, "post")
  /\ async_sem' = async_sem - 1
  /\ UNCHANGED <<ar, amiga, sync_sem, freed, again, aborted, missed>>
Signal_HeadOnly(ready) ==
  /\ At("serial", "idle") /\ async_sem > 0
  /\ ar # <<>> /\ ~ ar[1].ready /\ ar[1].copy.kind \in ready
  /\ ar' = [ar EXCEPT ![1].ready = TRUE]
  /\ Touch(ar[1].copy)
  /\ Send("serial", ar[1].copy, "post")
  /\ async_sem' = async_sem - 1
  /\ UNCHANGED <<amiga, sync_sem, freed, again, aborted, missed>>
Signal(ready) ==
  /\ At("serial", "idle") /\ async_sem > 0
  /\ \E i \in DOMAIN ar :
       LET Can(j) == /\ ~ ar[j].ready /\ ar[j].copy.kind \in ready
                     /\ ar[j].copy.kind = "break" => j = 1 IN
         /\ Can(i) /\ \A j \in 1 .. i - 1 : ~ Can(j)
         /\ ar' = [ar EXCEPT ![i].ready = TRUE]
         /\ Touch(ar[i].copy)
         /\ Send("serial", ar[i].copy, "post")
  /\ async_sem' = async_sem - 1
  /\ UNCHANGED <<amiga, sync_sem, freed, again, aborted, missed>>

SignalPost ==
  /\ At("serial", "post")
  /\ async_sem' = async_sem + 1
  /\ Go("serial", "idle")
  /\ UNCHANGED <<amiga, ar, pipe, sync_sem, msg, hist>>

(* uaeser_close has set threadactive to -1 and waits. *)
SerialEnds ==
  /\ At("serial", "idle") /\ at.cpu \in {"close", "resetclose"}
  /\ Go("serial", "off")
  /\ UNCHANGED <<amiga, list, pipe, sync_sem, msg, hist>>

SerialStep ==
  \/ Signal({"write", "break"}) \/ SignalPost \/ SerialEnds
  \/ PipeSemWait("serial") \/ WriteMessage("serial")

-----------------------------------------------------------------------------
(* dev_thread; change_sem, which the units' threads take in turn while     *)
(* they process a message, has nothing to exclude in one unit.             *)
DevStart ==
  /\ At("dev", "start")
  /\ sync_sem' = sync_sem + 1
  /\ Go("dev", "read")
  /\ UNCHANGED <<amiga, list, pipe, msg, hist>>

DevRead ==
  /\ At("dev", "read") /\ requests # <<>>
  /\ requests' = Tail(requests)
  /\ msg' = [msg EXCEPT !.dev = Head(requests)]
  /\ IF Head(requests) = Quit THEN Go("dev", "off") /\ sync_sem' = sync_sem + 1
                              ELSE Go("dev", "lookup") /\ UNCHANGED sync_sem
  /\ UNCHANGED <<amiga, list, pipe_sem, phase, hist>>

(* get_async_request(dev, request, 1): is the message a completion? *)
DevLookup ==
  /\ At("dev", "lookup") /\ async_sem > 0
  /\ IF InList(msg.dev.r)
       THEN ar' = [ar EXCEPT ![Entry(msg.dev.r)].ready = TRUE] /\ Go("dev", "reply")
       ELSE UNCHANGED ar /\ Go("dev", "io")
  /\ UNCHANGED <<amiga, async_sem, pipe, sync_sem, msg, hist>>

DevReply ==
  /\ At("dev", "reply")
  /\ ReplyMsg(msg.dev.r)
  /\ Go("dev", "release")
  /\ UNCHANGED <<closes, aborts, list, pipe, sync_sem, msg, hist>>

(* release_async_request *)
DevRelease ==
  /\ At("dev", "release") /\ async_sem > 0
  /\ ar' = RemoveAt(ar, Entry(msg.dev.r))
  /\ freed' = freed \cup {Id(ar[Entry(msg.dev.r)].copy)}
  /\ Go("dev", "read")
  /\ UNCHANGED <<amiga, async_sem, pipe, sync_sem, msg, touched, again, aborted, missed>>

(* dev_do_io, on a copy that may have been freed: with what it still holds *)
(* (the model ends with the first reply to a request nobody sent).         *)
(* CMD_RESET finds no request to abort, or fills its own pipe (DevFlood).  *)
DevIO ==
  /\ At("dev", "io")
  /\ Touch(msg.dev)
  /\ LET kind == msg.dev.kind IN
       \/ kind \in Async /\ Go("dev", "add") /\ UNCHANGED io
       \/ /\ kind = "query" \/ (kind = "reset" /\ ar = <<>>)
          /\ ReplyMsg(msg.dev.r) /\ Go("dev", "read")
       \/ kind = "reset" /\ ar # <<>> /\ Go("dev", "flood") /\ UNCHANGED io
  /\ UNCHANGED <<closes, aborts, list, pipe, sync_sem, msg, freed, again, aborted, missed>>

(* cmd_reset: while (dev->ar) abort_async(..., dev->ar->arequest). *)
DevFlood ==
  /\ At("dev", "flood")
  /\ AbortFind("dev", ar[1].copy.r, "floodmark", "flood")
  /\ UNCHANGED <<amiga, async_sem, pipe, sync_sem, freed, touched, aborted, missed>>

DevFloodMark == AbortMark("dev", "floodmark", "flood")

(* add_async_request, and uaeser_trigger wakes the serial thread. *)
DevAdd ==
  /\ At("dev", "add") /\ async_sem > 0
  /\ ar' = Append(ar, [copy |-> msg.dev, ready |-> FALSE])
  /\ Go("dev", "read")
  /\ UNCHANGED <<amiga, async_sem, pipe, sync_sem, msg, hist>>

(* The model ends with the memset, or with a pipe that is cleared: a        *)
(* dev_thread that is left behind goes on with semaphores that are gone.    *)
(* Or it ends with a surplus reply.                                        *)
DevStep ==
  /\ at.cpu \notin {"over", "shared"} /\ ~ Surplus
  /\ \/ DevStart \/ DevRead \/ DevLookup \/ DevReply \/ DevRelease \/ DevIO \/ DevAdd
     \/ DevFlood \/ DevFloodMark \/ PipeSemWait("dev") \/ WriteMessage("dev")

-----------------------------------------------------------------------------
Init ==
  /\ io = [r \in Requests |-> [begun |-> 0, replied |-> 0, kind |-> "read"]]
  /\ closes = 0 /\ aborts = 0
  /\ ar = <<>> /\ async_sem = 1 /\ requests = <<>> /\ pipe_sem = 1 /\ sync_sem = 0
  /\ at = [cpu |-> "closed", serial |-> "off", dev |-> "off"]
  /\ phase = [t \in Threads |-> "none"] /\ msg = [t \in Threads |-> Quit]
  /\ freed = {} /\ touched = {} /\ again = {} /\ aborted = {} /\ missed = {}

Next ==
  \/ OpenUnit \/ CloseUnit \/ ResetUnit \/ ResetClosed
  \/ \E r \in Requests : AbortIO(r) \/ \E kind \in Kinds : BeginIO(r, kind)
  \/ Signal({"read"}) \/ CpuStep \/ SerialStep \/ DevStep

(* The three threads run on.  The host always takes a write or a break in  *)
(* the end; nobody has to send anything to be read.                        *)
Spec == Init /\ [][Next]_vars
FairSpec == Spec /\ WF_vars(CpuStep) /\ WF_vars(SerialStep) /\ WF_vars(DevStep)

-----------------------------------------------------------------------------
TypeOK ==
  /\ async_sem \in 0 .. 1 /\ pipe_sem \in 0 .. 1 /\ sync_sem \in 0 .. 2 * MaxOpens
  /\ Len(requests) <= PipeCap
  /\ phase \in [Threads -> {"none", "wait", "write"}]
  /\ missed \subseteq aborted /\ touched \subseteq freed

(* A request is replied to once for every time it was sent, unless it was  *)
(* aborted in the moment between its completion and its removal from the   *)
(* list: then it is piped again and executed anew.  This and what follows  *)
(* speaks of the unit until a reopen finds dev_thread still there.         *)
RepliedOnce ==
  \A r \in Requests : io[r].replied > io[r].begun => r \in again

(* The serial thread, abort_async and dev_thread use a host copy outside   *)
(* async_sem, or long after they were given it: it is never one that was   *)
(* freed, with the same exception.                                         *)
NoUseAfterFree == \A c \in touched : c[1] \in again

(* The memset at the end of the reset does not take the unit away from     *)
(* under dev_thread, if the unit was never closed: each close leaves a     *)
(* post of sync_sem behind that the reset then takes for its own.          *)
ResetWaitsForThread == at.cpu = "over" /\ closes = 0 => at.dev = "off"

(* A close waits for no dev_thread, and the pipe is cleared under it by the *)
(* next dev_open.  No request is lost by that: once Quit has been sent, and *)
(* as every request had been replied to, dev_thread finds nothing else in   *)
(* the pipe and works on nothing, unless an abort has piped a request twice.*)
ReopenLosesOnlyQuit ==
  at.cpu \in {"closed", "shared"} /\ again = {} =>
    Range(requests) \subseteq {Quit} /\ at.dev \in {"off", "start", "read", "release"}

(* uaeser_signal writes to the pipe with async_sem, which dev_thread needs *)
(* before it reads on: with a full pipe each waits for the other.          *)
Embraced ==
  /\ at.serial = "post" /\ phase.serial # "none" /\ Len(requests) = PipeCap
  /\ at.dev \in {"lookup", "release", "add"}
(* CMD_RESET with requests in the list pipes aborts until the pipe that    *)
(* its own thread should read is full.                                     *)
Flooded == at.dev \in {"flood", "floodmark"}

(* The pipe is never the reason while it is long enough for every request  *)
(* to be in it.                                                            *)
NoEmbrace ==
  Cardinality(Requests) <= PipeCap /\ again = {} => ~ Embraced

Stopped == Embraced \/ Flooded \/ Surplus \/ at.cpu \notin {"run", "abort"}

(* A request that needs nothing from the other end of the line is replied  *)
(* to, and so is every request whose AbortIO found it.                     *)
Answerable(r) ==
  /\ Outstanding(r)
  /\ \/ io[r].kind \in {"write", "query", "reset"}
     \/ <<r, io[r].begun>> \in aborted \ missed
AnswerableIsReplied ==
  \A r \in Requests : Answerable(r) ~> (~ Outstanding(r) \/ Stopped)
=============================================================================
