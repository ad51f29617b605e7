------------------------------ MODULE CommPipe ------------------------------
(***************************************************************************)
(* The thread-to-thread pipe of include/commpipe.h: a ring of Size slots,  *)
(* a lock semaphore, and one wait semaphore per side.  One thread writes   *)
(* and one thread reads; owners with several writers serialise them.       *)
(*                                                                         *)
(* A step of the model is one semaphore operation or one group of          *)
(* accesses between two of them that the other side cannot tell apart.     *)
(* In particular the fast path of write_comm_pipe_pt, taken when the       *)
(* reader is already waiting, runs WITHOUT the lock and is kept as         *)
(* separate steps for the data slot, for wrp and for the wake-up.          *)
(*                                                                         *)
(* The items written are 1, 2, 3, ...: the n-th item read must be n.       *)
(***************************************************************************)
EXTENDS Integers, Sequences

CONSTANTS
  Size,      \* slots of the ring (init_comm_pipe's size)
  Chunks,    \* items a waiting reader sleeps through (init_comm_pipe's chunks)
  MaxItems   \* bound on the number of items the writer writes

(* Every init_comm_pipe call of the program has 1 <= chunks < size. *)
ASSUME PipeAssumption ==
  /\ Size \in Nat
  /\ Chunks \in Nat
  /\ 1 <= Chunks
  /\ Chunks < Size
  /\ MaxItems \in Nat

VARIABLES
  lock, reader_wait, writer_wait,   \* the three semaphores
  data, rdp, wrp,                   \* the ring
  reader_waiting, writer_waiting,   \* the two volatile flags
  pcW,                              \* where the writer is in write_comm_pipe_pt
  no_buffer,                        \* its no_buffer argument
  pcR,                              \* where the reader is in the blocking read
  polled,                           \* comm_pipe_has_data returned true before the read
  got,                              \* the item the last read returned
  nw, nr, flushed                   \* items written, items read, last no_buffer item

sems  == <<lock, reader_wait, writer_wait>>
ring  == <<data, rdp, wrp>>
flags == <<reader_waiting, writer_waiting>>
wvars == <<pcW, no_buffer, nw, flushed>>
rvars == <<pcR, polled, got, nr>>
vars  == <<sems, ring, flags, wvars, rvars>>

Slots == 0 .. Size - 1

(* (i + 1) % p->size, the successor of a slot. *)
NextSlot(i) == IF i + 1 = Size THEN 0 ELSE i + 1

(* (p->wrp - p->rdp + p->size) % p->size, the items in the ring. *)
Count == IF rdp <= wrp THEN wrp - rdp ELSE wrp - rdp + Size

(* The slot of the k-th oldest item, k from 0. *)
SlotOf(k) == IF rdp + k < Size THEN rdp + k ELSE rdp + k - Size

BecomesFull_NoGap == wrp = rdp /\ nw > nr
(* nxwrp == p->rdp: one slot always stays unused. *)
BecomesFull == NextSlot(wrp) = rdp

Wakes_IgnoresFlush(nb) == reader_waiting = 1 /\ Count >= Chunks
(* The condition of maybe_wake_reader. *)
Wakes(nb) == reader_waiting = 1 /\ (nb \/ Count >= Chunks)

SemWait(s) == s > 0 /\ s' = s - 1
SemPost(s) == s' = s + 1

WGoto(from, to) == pcW = from /\ pcW' = to
RGoto(from, to) == pcR = from /\ pcR' = to

-----------------------------------------------------------------------------
(* The writer: write_comm_pipe_pt. *)

(* Entry: the unlocked test of reader_waiting picks the path. *)
WriteBegin(nb) ==
  /\ nw < MaxItems
  /\ WGoto("idle", IF reader_waiting = 1 THEN "fast_data" ELSE "lock")
  /\ no_buffer' = nb
  /\ UNCHANGED <<sems, ring, flags, nw, flushed, rvars>>

(* The slot store and the store of wrp are two steps on either path. *)
PutData(from, to) ==
  /\ WGoto(from, to)
  /\ data' = [data EXCEPT ![wrp] = nw + 1]
  /\ UNCHANGED <<sems, rdp, wrp, flags, no_buffer, nw, flushed, rvars>>

PutIndex(from, to) ==
  /\ WGoto(from, to)
  /\ wrp' = NextSlot(wrp)
  /\ nw' = nw + 1
  /\ flushed' = IF no_buffer THEN nw + 1 ELSE flushed
  /\ UNCHANGED <<sems, data, rdp, flags, no_buffer, rvars>>

MaybeWakeReader_NoClear(from, post, skip) ==
  /\ pcW = from
  /\ pcW' = IF Wakes(no_buffer) THEN post ELSE skip
  /\ UNCHANGED <<sems, ring, flags, no_buffer, nw, flushed, rvars>>
MaybeWakeReader(from, post, skip) ==
  /\ pcW = from
  /\ IF Wakes(no_buffer)
       THEN pcW' = post /\ reader_waiting' = 0
       ELSE pcW' = skip /\ UNCHANGED reader_waiting
  /\ UNCHANGED <<sems, ring, writer_waiting, no_buffer, nw, flushed, rvars>>

PostReader(from, to) ==
  /\ WGoto(from, to)
  /\ SemPost(reader_wait)
  /\ UNCHANGED <<lock, writer_wait, ring, flags, no_buffer, nw, flushed, rvars>>

FastData  == PutData("fast_data", "fast_index")
FastIndex == PutIndex("fast_index", "fast_wake")
FastWake  == MaybeWakeReader("fast_wake", "fast_post", "idle")
FastPost  == PostReader("fast_post", "idle")

WriteLock(from, to) ==
  /\ WGoto(from, to)
  /\ SemWait(lock)
  /\ UNCHANGED <<reader_wait, writer_wait, ring, flags, no_buffer, nw, flushed, rvars>>

WriteUnlock(from, to) ==
  /\ WGoto(from, to)
  /\ SemPost(lock)
  /\ UNCHANGED <<reader_wait, writer_wait, ring, flags, no_buffer, nw, flushed, rvars>>

(* "Pipe full!": announce the wait before the lock is dropped. *)
WriteCheckFull ==
  /\ pcW = "check_full"
  /\ IF BecomesFull
       THEN pcW' = "unlock_full" /\ writer_waiting' = 1
       ELSE pcW' = "slow_data" /\ UNCHANGED writer_waiting
  /\ UNCHANGED <<sems, ring, reader_waiting, no_buffer, nw, flushed, rvars>>

(* No test of fullness follows the wait: the post itself must mean room. *)
WriteWait ==
  /\ WGoto("wait_room", "relock")
  /\ SemWait(writer_wait)
  /\ UNCHANGED <<lock, reader_wait, ring, flags, no_buffer, nw, flushed, rvars>>

SlowLock   == WriteLock("lock", "check_full")
SlowFull   == WriteUnlock("unlock_full", "wait_room")
SlowRelock == WriteLock("relock", "slow_data")
SlowData   == PutData("slow_data", "slow_index")
SlowIndex  == PutIndex("slow_index", "slow_wake")
SlowWake   == MaybeWakeReader("slow_wake", "slow_post", "unlock")
SlowPost   == PostReader("slow_post", "unlock")
SlowUnlock == WriteUnlock("unlock", "idle")

WriterStep ==
  \/ FastData \/ FastIndex \/ FastWake \/ FastPost
  \/ SlowLock \/ WriteCheckFull \/ SlowFull \/ WriteWait \/ SlowRelock
  \/ SlowData \/ SlowIndex \/ SlowWake \/ SlowPost \/ SlowUnlock

-----------------------------------------------------------------------------
(* The reader: read_comm_pipe_pt_blocking, and the poll before it. *)

(* comm_pipe_has_data: an unlocked look at the two indices. *)
Poll ==
  /\ pcR = "idle"
  /\ rdp # wrp
  /\ polled' = TRUE
  /\ UNCHANGED <<sems, ring, flags, wvars, pcR, got, nr>>

ReadLock(from, to) ==
  /\ RGoto(from, to)
  /\ SemWait(lock)
  /\ UNCHANGED <<reader_wait, writer_wait, ring, flags, wvars, polled, got, nr>>

ReadUnlock(from, to) ==
  /\ RGoto(from, to)
  /\ SemPost(lock)
  /\ polled' = IF to = "idle" THEN FALSE ELSE polled
  /\ UNCHANGED <<reader_wait, writer_wait, ring, flags, wvars, got, nr>>

ReadCheckEmpty ==
  /\ pcR = "check_empty"
  /\ IF rdp = wrp
       THEN pcR' = "unlock_empty" /\ reader_waiting' = 1
       ELSE pcR' = "take" /\ UNCHANGED reader_waiting
  /\ UNCHANGED <<sems, ring, writer_waiting, wvars, polled, got, nr>>

ReadWait ==
  /\ RGoto("wait_data", "relock")
  /\ SemWait(reader_wait)
  /\ UNCHANGED <<lock, writer_wait, ring, flags, wvars, polled, got, nr>>

Take ==
  /\ RGoto("take", "wake_writer")
  /\ got' = data[rdp]
  /\ rdp' = NextSlot(rdp)
  /\ nr' = nr + 1
  /\ UNCHANGED <<sems, data, wrp, flags, wvars, polled>>

WakeWriter_Never ==
  /\ RGoto("wake_writer", "unlock")
  /\ UNCHANGED <<sems, ring, flags, wvars, polled, got, nr>>
WakeWriter ==
  /\ pcR = "wake_writer"
  /\ IF writer_waiting = 1
       THEN pcR' = "post_writer" /\ writer_waiting' = 0
       ELSE pcR' = "unlock" /\ UNCHANGED writer_waiting
  /\ UNCHANGED <<sems, ring, reader_waiting, wvars, polled, got, nr>>

PostWriter ==
  /\ RGoto("post_writer", "unlock")
  /\ SemPost(writer_wait)
  /\ UNCHANGED <<lock, reader_wait, ring, flags, wvars, polled, got, nr>>

BlockLock   == ReadLock("idle", "check_empty")
BlockEmpty  == ReadUnlock("unlock_empty", "wait_data")
BlockRelock == ReadLock("relock", "take")
BlockUnlock == ReadUnlock("unlock", "idle")

ReaderStep ==
  \/ BlockLock \/ ReadCheckEmpty \/ BlockEmpty \/ ReadWait \/ BlockRelock
  \/ Take \/ WakeWriter \/ PostWriter \/ BlockUnlock

-----------------------------------------------------------------------------
(* init_comm_pipe.  The fresh slots are malloc'ed: nothing reads them. *)
Init ==
  /\ lock = 1 /\ reader_wait = 0 /\ writer_wait = 0
  /\ data = [i \in Slots |-> 0] /\ rdp = 0 /\ wrp = 0
  /\ reader_waiting = 0 /\ writer_waiting = 0
  /\ pcW = "idle" /\ no_buffer = FALSE /\ nw = 0 /\ flushed = 0
  /\ pcR = "idle" /\ polled = FALSE /\ got = 0 /\ nr = 0

Next ==
  \/ \E nb \in BOOLEAN : WriteBegin(nb)
  \/ WriterStep
  \/ Poll
  \/ ReaderStep

(* A thread inside the pipe code runs on; nobody is obliged to write.  The *)
(* reader of every pipe loops on the blocking read.                        *)
Fairness == WF_vars(WriterStep) /\ WF_vars(ReaderStep)

Spec == Init /\ [][Next]_vars
FairSpec == Spec /\ Fairness

-----------------------------------------------------------------------------
WriterPCs == {"idle", "fast_data", "fast_index", "fast_wake", "fast_post",
  "lock", "check_full", "unlock_full", "wait_room", "relock",
  "slow_data", "slow_index", "slow_wake", "slow_post", "unlock"}
ReaderPCs == {"idle", "check_empty", "unlock_empty", "wait_data", "relock",
  "take", "wake_writer", "post_writer", "unlock"}

TypeOK ==
  /\ lock \in 0..1 /\ reader_wait \in 0..1 /\ writer_wait \in 0..1
  /\ data \in [Slots -> Nat] /\ rdp \in Slots /\ wrp \in Slots
  /\ reader_waiting \in 0..1 /\ writer_waiting \in 0..1
  /\ pcW \in WriterPCs /\ no_buffer \in BOOLEAN
  /\ pcR \in ReaderPCs /\ polled \in BOOLEAN
  /\ got \in Nat /\ nw \in Nat /\ nr \in Nat /\ flushed \in Nat

(* FIFO without loss or duplication: whatever mixture of locked and        *)
(* unlocked writes filled the ring, the n-th blocking read returns the     *)
(* n-th item written (write_comm_pipe_pt against read_comm_pipe_pt_blocking). *)
ReadsInOrder ==
  pcR \in {"wake_writer", "post_writer", "unlock"} => got = nr

(* The unlocked fast path never meets a full ring and the wait of the slow *)
(* path, which does not test again, always ends with room: storing wrp     *)
(* never makes a full ring look empty.                                     *)
NeverOverruns ==
  pcW \in {"fast_data", "fast_index", "slow_data", "slow_index"} => ~BecomesFull

(* The symmetric fact for the reader, which does not test again either     *)
(* after reader_wait: an item is there whenever it takes one.              *)
NeverTakesFromEmpty == pcR \in {"relock", "take"} => rdp # wrp

(* Neither side tests the ring again when it wakes up: every post of a     *)
(* semaphore, however early or late it came, means work for who takes it.  *)
WakesWithWork == NeverOverruns /\ NeverTakesFromEmpty

(* comm_pipe_has_data looks without the lock, and CPU-thread callers rely  *)
(* on it: a read that follows a true answer never sleeps on reader_wait.   *)
PolledReadNeverSleeps == polled => pcR \notin {"unlock_empty", "wait_data"}

(* The two sides are never both asleep with no post under way.             *)
NeverBothAsleep ==
  ~ ( /\ pcW = "wait_room" /\ writer_wait = 0
      /\ pcR = "wait_data" /\ reader_wait = 0 )

(* An item written with no_buffer, and every item before it, is read even  *)
(* if nothing is ever written again: chunking delays only unflushed items. *)
FlushedIsRead == \A n \in 1 .. MaxItems : (flushed >= n) ~> (nr >= n)

(* A writer blocked on a full pipe comes back: chunking never leaves a     *)
(* sleeping reader in front of a full ring.                                *)
WriteReturns == (pcW # "idle") ~> (pcW = "idle")

(* The items in the ring, oldest first. *)
Contents == [k \in 1 .. Count |-> data[SlotOf(k - 1)]]

Fifo == INSTANCE BoundedFifo
          WITH Capacity <- Size - 1, q <- Contents, sent <- nw, last <- got

(* The ring, with its unlocked fast path and its chunked wake-ups, is a    *)
(* bounded queue of size-1 items: storing wrp is the put, the read of the  *)
(* slot at rdp is the get, and every other step is invisible.              *)
ImplementsFifo == Fifo!Spec
=============================================================================
