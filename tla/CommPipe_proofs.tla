--------------------------- MODULE CommPipe_proofs ---------------------------
(***************************************************************************)
(* Proofs about the pipe of include/commpipe.h, for every Size, Chunks and *)
(* MaxItems that PipeAssumption allows.  IInv is the inductive invariant:  *)
(* who holds the lock, where the one wake-up token of each side is, and    *)
(* what the ring holds.                                                    *)
(***************************************************************************)
EXTENDS CommPipe, SequenceTheorems, TLAPS

WriterLocked == pcW \in {"check_full", "unlock_full", "slow_data", "slow_index",
                         "slow_wake", "slow_post", "unlock"}
ReaderLocked == pcR \in {"check_empty", "unlock_empty", "take", "wake_writer",
                         "post_writer", "unlock"}

(* The lock is taken exactly when one side is in a locked section. *)
LockInv ==
  /\ ~ (WriterLocked /\ ReaderLocked)
  /\ lock = IF WriterLocked \/ ReaderLocked THEN 0 ELSE 1

(* A sleeping reader has one wake-up token: its flag still set, the post   *)
(* about to be made, or the post made.                                     *)
ReaderTokenInv ==
  reader_waiting + reader_wait + (IF pcW \in {"fast_post", "slow_post"} THEN 1 ELSE 0)
    = IF pcR \in {"unlock_empty", "wait_data"} THEN 1 ELSE 0

WriterTokenInv ==
  writer_waiting + writer_wait + (IF pcR = "post_writer" THEN 1 ELSE 0)
    = IF pcW \in {"unlock_full", "wait_room"} THEN 1 ELSE 0

(* The fast path runs only against a reader that still has its flag set,   *)
(* and such a reader sleeps through fewer than Chunks items.               *)
FastInv ==
  /\ pcW \in {"fast_data", "fast_index", "fast_wake"} => reader_waiting = 1
  /\ reader_waiting = 1 =>
       IF pcW \in {"fast_wake", "slow_wake"} THEN Count <= Chunks ELSE Count < Chunks

(* Room wherever the writer stores without testing again. *)
RoomInv ==
  /\ \/ pcW \in {"slow_data", "slow_index", "relock"}
     \/ writer_wait = 1
     \/ pcR \in {"wake_writer", "post_writer"}
     => Count < Size - 1
  /\ writer_waiting = 1 /\ pcR # "wake_writer" => Count = Size - 1

(* An item wherever the reader takes without testing again. *)
ItemInv ==
  \/ pcW \in {"fast_wake", "slow_wake", "fast_post", "slow_post"}
  \/ pcR \in {"relock", "take"}
  \/ reader_wait = 1
  \/ polled /\ pcR \in {"idle", "check_empty"}
  => Count >= 1

PolledInv == polled => pcR \notin {"unlock_empty", "wait_data", "relock"}

(* The ring holds the items nr+1 .. nw, oldest first. *)
RingInv ==
  /\ nw = nr + Count
  /\ \A k \in 0 .. Size - 1 : k < Count => data[SlotOf(k)] = nr + k + 1
  /\ pcW \in {"fast_index", "slow_index"} => data[wrp] = nw + 1

ControlInv == LockInv /\ ReaderTokenInv /\ WriterTokenInv /\ PolledInv
BoundInv   == FastInv /\ RoomInv /\ ItemInv

IInv == TypeOK /\ ControlInv /\ BoundInv /\ RingInv /\ ReadsInOrder

-----------------------------------------------------------------------------
(* The arithmetic of the ring: Count and SlotOf walk from rdp to wrp. *)

(* init_comm_pipe's indices stay below size: NextSlot is (i + 1) % size. *)
LEMMA NextSlotType == ASSUME NEW i \in Slots PROVE NextSlot(i) \in Slots
  BY PipeAssumption DEF NextSlot, Slots

(* The k-th oldest item sits in a slot that is not the free slot wrp, and  *)
(* the slot after the newest item is wrp.                                  *)
LEMMA SlotOfInRing ==
  ASSUME TypeOK
  PROVE  /\ Count \in 0 .. Size - 1
         /\ SlotOf(Count) = wrp
         /\ \A k \in Nat : k < Count => SlotOf(k) \in Slots /\ SlotOf(k) # wrp
  BY PipeAssumption DEF TypeOK, Slots, Count, SlotOf

(* Storing the index: one more item, the others in the same places. *)
LEMMA CountAfterPut ==
  ASSUME TypeOK, Count < Size - 1, wrp' = NextSlot(wrp), UNCHANGED rdp
  PROVE  Count' = Count + 1 /\ \A k \in Nat : SlotOf(k)' = SlotOf(k)
  BY PipeAssumption DEF TypeOK, Slots, Count, SlotOf, NextSlot

(* Advancing rdp: one item less, the others one place older. *)
LEMMA CountAfterTake ==
  ASSUME TypeOK, Count >= 1, rdp' = NextSlot(rdp), UNCHANGED wrp
  PROVE  Count' = Count - 1
         /\ \A k \in Nat : k < Count - 1 => SlotOf(k)' = SlotOf(k + 1)
  BY PipeAssumption DEF TypeOK, Slots, Count, SlotOf, NextSlot

LEMMA CountUnchanged ==
  ASSUME UNCHANGED <<rdp, wrp>>
  PROVE  Count' = Count /\ \A k \in Nat : SlotOf(k)' = SlotOf(k)
  BY DEF Count, SlotOf

(* BecomesFull is the test nxwrp == rdp, for a ring that keeps a gap. *)
LEMMA FullCount ==
  ASSUME TypeOK
  PROVE  (BecomesFull <=> Count = Size - 1) /\ (rdp = wrp <=> Count = 0)
  BY PipeAssumption DEF TypeOK, Slots, Count, BecomesFull, NextSlot

(* The parts of the invariant are preserved by every step: types first, then *)
(* control (the lock and the tokens), bounds on Count, and contents.         *)
LEMMA TypeStep == ASSUME IInv, [Next]_vars PROVE TypeOK'
<1> USE PipeAssumption, NextSlotType DEF IInv, TypeOK, WriterPCs, ReaderPCs
<1> USE DEF sems, ring, flags, wvars, rvars
<1> USE DEF ControlInv, LockInv, ReaderTokenInv, WriterTokenInv, WriterLocked, ReaderLocked
<1>1. CASE \E nb \in BOOLEAN : WriteBegin(nb)
  BY <1>1 DEF WriteBegin, WGoto
<1>2. CASE FastData
  BY <1>2 DEF FastData, PutData, WGoto
<1>3. CASE FastIndex
  BY <1>3 DEF FastIndex, PutIndex, WGoto
<1>4. CASE FastWake
  BY <1>4 DEF FastWake, MaybeWakeReader, Wakes
<1>5. CASE FastPost
  BY <1>5 DEF FastPost, PostReader, WGoto, SemPost
<1>6. CASE SlowLock
  BY <1>6 DEF SlowLock, WriteLock, WGoto, SemWait
<1>7. CASE WriteCheckFull
  BY <1>7 DEF WriteCheckFull, BecomesFull
<1>8. CASE SlowFull
  BY <1>8 DEF SlowFull, WriteUnlock, WGoto, SemPost
<1>9. CASE WriteWait
  BY <1>9 DEF WriteWait, WGoto, SemWait
<1>10. CASE SlowRelock
  BY <1>10 DEF SlowRelock, WriteLock, WGoto, SemWait
<1>11. CASE SlowData
  BY <1>11 DEF SlowData, PutData, WGoto
<1>12. CASE SlowIndex
  BY <1>12 DEF SlowIndex, PutIndex, WGoto
<1>13. CASE SlowWake
  BY <1>13 DEF SlowWake, MaybeWakeReader, Wakes
<1>14. CASE SlowPost
  BY <1>14 DEF SlowPost, PostReader, WGoto, SemPost
<1>15. CASE SlowUnlock
  BY <1>15 DEF SlowUnlock, WriteUnlock, WGoto, SemPost
<1>16. CASE Poll
  BY <1>16 DEF Poll
<1>17. CASE BlockLock
  BY <1>17 DEF BlockLock, ReadLock, RGoto, SemWait
<1>18. CASE ReadCheckEmpty
  BY <1>18 DEF ReadCheckEmpty
<1>19. CASE BlockEmpty
  BY <1>19 DEF BlockEmpty, ReadUnlock, RGoto, SemPost
<1>20. CASE ReadWait
  BY <1>20 DEF ReadWait, RGoto, SemWait
<1>21. CASE BlockRelock
  BY <1>21 DEF BlockRelock, ReadLock, RGoto, SemWait
<1>22. CASE Take
  BY <1>22 DEF Take, RGoto
<1>23. CASE WakeWriter
  BY <1>23 DEF WakeWriter
<1>24. CASE PostWriter
  BY <1>24 DEF PostWriter, RGoto, SemPost
<1>25. CASE BlockUnlock
  BY <1>25 DEF BlockUnlock, ReadUnlock, RGoto, SemPost
<1>26. CASE UNCHANGED vars
  BY <1>26 DEF vars
<1> QED
  BY <1>1, <1>2, <1>3, <1>4, <1>5, <1>6, <1>7, <1>8, <1>9, <1>10, <1>11, <1>12, <1>13, <1>14, <1>15, <1>16, <1>17, <1>18, <1>19, <1>20, <1>21, <1>22, <1>23, <1>24, <1>25, <1>26 DEF Next, WriterStep, ReaderStep

LEMMA ControlStep == ASSUME IInv, [Next]_vars PROVE ControlInv'
<1> USE DEF IInv, TypeOK, ControlInv, LockInv, ReaderTokenInv, WriterTokenInv, PolledInv
<1> USE DEF WriterLocked, ReaderLocked, sems, ring, flags, wvars, rvars
<1>1. CASE \E nb \in BOOLEAN : WriteBegin(nb)
  BY <1>1 DEF WriteBegin, WGoto
<1>2. CASE FastData
  BY <1>2 DEF FastData, PutData, WGoto
<1>3. CASE FastIndex
  BY <1>3 DEF FastIndex, PutIndex, WGoto
<1>4. CASE FastWake
  BY <1>4 DEF FastWake, MaybeWakeReader, Wakes
<1>5. CASE FastPost
  BY <1>5 DEF FastPost, PostReader, WGoto, SemPost
<1>6. CASE SlowLock
  BY <1>6 DEF SlowLock, WriteLock, WGoto, SemWait
<1>7. CASE WriteCheckFull
  BY <1>7 DEF WriteCheckFull, BecomesFull
<1>8. CASE SlowFull
  BY <1>8 DEF SlowFull, WriteUnlock, WGoto, SemPost
<1>9. CASE WriteWait
  BY <1>9 DEF WriteWait, WGoto, SemWait
<1>10. CASE SlowRelock
  BY <1>10 DEF SlowRelock, WriteLock, WGoto, SemWait
<1>11. CASE SlowData
  BY <1>11 DEF SlowData, PutData, WGoto
<1>12. CASE SlowIndex
  BY <1>12 DEF SlowIndex, PutIndex, WGoto
<1>13. CASE SlowWake
  BY <1>13 DEF SlowWake, MaybeWakeReader, Wakes
<1>14. CASE SlowPost
  BY <1>14 DEF SlowPost, PostReader, WGoto, SemPost
<1>15. CASE SlowUnlock
  BY <1>15 DEF SlowUnlock, WriteUnlock, WGoto, SemPost
<1>16. CASE Poll
  BY <1>16 DEF Poll
<1>17. CASE BlockLock
  BY <1>17 DEF BlockLock, ReadLock, RGoto, SemWait
<1>18. CASE ReadCheckEmpty
  BY <1>18, FullCount DEF ReadCheckEmpty, BoundInv, ItemInv
<1>19. CASE BlockEmpty
  BY <1>19 DEF BlockEmpty, ReadUnlock, RGoto, SemPost
<1>20. CASE ReadWait
  BY <1>20 DEF ReadWait, RGoto, SemWait
<1>21. CASE BlockRelock
  BY <1>21 DEF BlockRelock, ReadLock, RGoto, SemWait
<1>22. CASE Take
  BY <1>22 DEF Take, RGoto
<1>23. CASE WakeWriter
  BY <1>23 DEF WakeWriter
<1>24. CASE PostWriter
  BY <1>24 DEF PostWriter, RGoto, SemPost
<1>25. CASE BlockUnlock
  BY <1>25 DEF BlockUnlock, ReadUnlock, RGoto, SemPost
<1>26. CASE UNCHANGED vars
  BY <1>26 DEF vars
<1> QED
  BY <1>1, <1>2, <1>3, <1>4, <1>5, <1>6, <1>7, <1>8, <1>9, <1>10, <1>11, <1>12, <1>13, <1>14, <1>15, <1>16, <1>17, <1>18, <1>19, <1>20, <1>21, <1>22, <1>23, <1>24, <1>25, <1>26 DEF Next, WriterStep, ReaderStep

LEMMA BoundStep == ASSUME IInv, [Next]_vars PROVE BoundInv'
<1> USE PipeAssumption DEF IInv, TypeOK, BoundInv, FastInv, RoomInv, ItemInv
<1> USE DEF ControlInv, LockInv, ReaderTokenInv, WriterTokenInv, PolledInv
<1> USE DEF WriterLocked, ReaderLocked, sems, ring, flags, wvars, rvars
<1>a. Count \in 0 .. Size - 1 BY SlotOfInRing
<1>1. CASE \E nb \in BOOLEAN : WriteBegin(nb)
  BY <1>1, <1>a, CountUnchanged DEF WriteBegin, WGoto
<1>2. CASE FastData
  BY <1>2, <1>a, CountUnchanged DEF FastData, PutData, WGoto
<1>3. CASE FastIndex
  BY <1>3, <1>a, CountAfterPut, FullCount DEF FastIndex, PutIndex, WGoto
<1>4. CASE FastWake
  BY <1>4, <1>a, CountUnchanged DEF FastWake, MaybeWakeReader, Wakes
<1>5. CASE FastPost
  BY <1>5, <1>a, CountUnchanged DEF FastPost, PostReader, WGoto, SemPost
<1>6. CASE SlowLock
  BY <1>6, <1>a, CountUnchanged DEF SlowLock, WriteLock, WGoto, SemWait
<1>7. CASE WriteCheckFull
  BY <1>7, <1>a, CountUnchanged, FullCount DEF WriteCheckFull
<1>8. CASE SlowFull
  BY <1>8, <1>a, CountUnchanged DEF SlowFull, WriteUnlock, WGoto, SemPost
<1>9. CASE WriteWait
  BY <1>9, <1>a, CountUnchanged DEF WriteWait, WGoto, SemWait
<1>10. CASE SlowRelock
  BY <1>10, <1>a, CountUnchanged DEF SlowRelock, WriteLock, WGoto, SemWait
<1>11. CASE SlowData
  BY <1>11, <1>a, CountUnchanged DEF SlowData, PutData, WGoto
<1>12. CASE SlowIndex
  BY <1>12, <1>a, CountAfterPut, FullCount DEF SlowIndex, PutIndex, WGoto
<1>13. CASE SlowWake
  BY <1>13, <1>a, CountUnchanged DEF SlowWake, MaybeWakeReader, Wakes
<1>14. CASE SlowPost
  BY <1>14, <1>a, CountUnchanged DEF SlowPost, PostReader, WGoto, SemPost
<1>15. CASE SlowUnlock
  BY <1>15, <1>a, CountUnchanged DEF SlowUnlock, WriteUnlock, WGoto, SemPost
<1>16. CASE Poll
  BY <1>16, <1>a, CountUnchanged, FullCount DEF Poll
<1>17. CASE BlockLock
  BY <1>17, <1>a, CountUnchanged DEF BlockLock, ReadLock, RGoto, SemWait
<1>18. CASE ReadCheckEmpty
  BY <1>18, <1>a, CountUnchanged, FullCount DEF ReadCheckEmpty
<1>19. CASE BlockEmpty
  BY <1>19, <1>a, CountUnchanged DEF BlockEmpty, ReadUnlock, RGoto, SemPost
<1>20. CASE ReadWait
  BY <1>20, <1>a, CountUnchanged DEF ReadWait, RGoto, SemWait
<1>21. CASE BlockRelock
  BY <1>21, <1>a, CountUnchanged DEF BlockRelock, ReadLock, RGoto, SemWait
<1>22. CASE Take
  BY <1>22, <1>a, CountAfterTake DEF Take, RGoto
<1>23. CASE WakeWriter
  BY <1>23, <1>a, CountUnchanged DEF WakeWriter
<1>24. CASE PostWriter
  BY <1>24, <1>a, CountUnchanged DEF PostWriter, RGoto, SemPost
<1>25. CASE BlockUnlock
  BY <1>25, <1>a, CountUnchanged DEF BlockUnlock, ReadUnlock, RGoto, SemPost
<1>26. CASE UNCHANGED vars
  BY <1>26, <1>a, CountUnchanged DEF vars
<1> QED
  BY <1>1, <1>2, <1>3, <1>4, <1>5, <1>6, <1>7, <1>8, <1>9, <1>10, <1>11, <1>12, <1>13, <1>14, <1>15, <1>16, <1>17, <1>18, <1>19, <1>20, <1>21, <1>22, <1>23, <1>24, <1>25, <1>26 DEF Next, WriterStep, ReaderStep

LEMMA RingStep == ASSUME IInv, [Next]_vars PROVE RingInv'
<1> USE PipeAssumption DEF IInv, TypeOK, RingInv
<1> USE DEF sems, ring, flags, wvars, rvars
<1>a. Count \in 0 .. Size - 1 BY SlotOfInRing
<1>b. RingInv BY DEF IInv
<1>1. CASE \E nb \in BOOLEAN : WriteBegin(nb)
  BY <1>1, <1>a, CountUnchanged DEF WriteBegin, WGoto
<1>2. CASE FastData
  BY <1>2, <1>a, SlotOfInRing, CountUnchanged DEF FastData, PutData, WGoto
<1>3. CASE FastIndex
  <2>1. Count < Size - 1 /\ wrp' = NextSlot(wrp) /\ UNCHANGED <<rdp, data, nr>>
    BY <1>3, <1>a DEF FastIndex, PutIndex, WGoto, BoundInv, FastInv, RoomInv
  <2>2. Count' = Count + 1 /\ \A k \in Nat : SlotOf(k)' = SlotOf(k)
    BY <2>1, CountAfterPut
  <2>3. nw' = nr' + Count' /\ pcW' \notin {"fast_index", "slow_index"}
    BY <1>3, <1>a, <2>1, <2>2 DEF FastIndex, PutIndex, WGoto
  <2>4. data[SlotOf(Count)] = nr + Count + 1
    BY <1>3, <1>a, SlotOfInRing DEF FastIndex, PutIndex, WGoto
  <2>5. ASSUME NEW k \in 0 .. Size - 1, k < Count'
        PROVE  data'[SlotOf(k)'] = nr' + k + 1
    <3>1. CASE k < Count   BY <3>1, <2>1, <2>2
    <3>2. CASE k = Count   BY <3>2, <2>1, <2>2, <2>4
    <3> QED                BY <3>1, <3>2, <2>2, <2>5, <1>a
  <2> QED
    BY <2>3, <2>5
<1>4. CASE FastWake
  BY <1>4, <1>a, CountUnchanged DEF FastWake, MaybeWakeReader, Wakes
<1>5. CASE FastPost
  BY <1>5, <1>a, CountUnchanged DEF FastPost, PostReader, WGoto, SemPost
<1>6. CASE SlowLock
  BY <1>6, <1>a, CountUnchanged DEF SlowLock, WriteLock, WGoto, SemWait
<1>7. CASE WriteCheckFull
  BY <1>7, <1>a, CountUnchanged DEF WriteCheckFull, BecomesFull
<1>8. CASE SlowFull
  BY <1>8, <1>a, CountUnchanged DEF SlowFull, WriteUnlock, WGoto, SemPost
<1>9. CASE WriteWait
  BY <1>9, <1>a, CountUnchanged DEF WriteWait, WGoto, SemWait
<1>10. CASE SlowRelock
  BY <1>10, <1>a, CountUnchanged DEF SlowRelock, WriteLock, WGoto, SemWait
<1>11. CASE SlowData
  BY <1>11, <1>a, SlotOfInRing, CountUnchanged DEF SlowData, PutData, WGoto
<1>12. CASE SlowIndex
  <2>1. Count < Size - 1 /\ wrp' = NextSlot(wrp) /\ UNCHANGED <<rdp, data, nr>>
    BY <1>12, <1>a DEF SlowIndex, PutIndex, WGoto, BoundInv, FastInv, RoomInv
  <2>2. Count' = Count + 1 /\ \A k \in Nat : SlotOf(k)' = SlotOf(k)
    BY <2>1, CountAfterPut
  <2>3. nw' = nr' + Count' /\ pcW' \notin {"fast_index", "slow_index"}
    BY <1>12, <1>a, <2>1, <2>2 DEF SlowIndex, PutIndex, WGoto
  <2>4. data[SlotOf(Count)] = nr + Count + 1
    BY <1>12, <1>a, SlotOfInRing DEF SlowIndex, PutIndex, WGoto
  <2>5. ASSUME NEW k \in 0 .. Size - 1, k < Count'
        PROVE  data'[SlotOf(k)'] = nr' + k + 1
    <3>1. CASE k < Count   BY <3>1, <2>1, <2>2
    <3>2. CASE k = Count   BY <3>2, <2>1, <2>2, <2>4
    <3> QED                BY <3>1, <3>2, <2>2, <2>5, <1>a
  <2> QED
    BY <2>3, <2>5
<1>13. CASE SlowWake
  BY <1>13, <1>a, CountUnchanged DEF SlowWake, MaybeWakeReader, Wakes
<1>14. CASE SlowPost
  BY <1>14, <1>a, CountUnchanged DEF SlowPost, PostReader, WGoto, SemPost
<1>15. CASE SlowUnlock
  BY <1>15, <1>a, CountUnchanged DEF SlowUnlock, WriteUnlock, WGoto, SemPost
<1>16. CASE Poll
  BY <1>16, <1>a, CountUnchanged DEF Poll
<1>17. CASE BlockLock
  BY <1>17, <1>a, CountUnchanged DEF BlockLock, ReadLock, RGoto, SemWait
<1>18. CASE ReadCheckEmpty
  BY <1>18, <1>a, CountUnchanged DEF ReadCheckEmpty
<1>19. CASE BlockEmpty
  BY <1>19, <1>a, CountUnchanged DEF BlockEmpty, ReadUnlock, RGoto, SemPost
<1>20. CASE ReadWait
  BY <1>20, <1>a, CountUnchanged DEF ReadWait, RGoto, SemWait
<1>21. CASE BlockRelock
  BY <1>21, <1>a, CountUnchanged DEF BlockRelock, ReadLock, RGoto, SemWait
<1>22. CASE Take
  <2>1. Count >= 1 /\ rdp' = NextSlot(rdp) /\ nr' = nr + 1
        /\ UNCHANGED <<wrp, data, nw, pcW>>
    BY <1>22, <1>a DEF Take, RGoto, BoundInv, ItemInv
  <2>2. Count' = Count - 1 /\ \A k \in Nat : k < Count - 1 => SlotOf(k)' = SlotOf(k + 1)
    BY <2>1, CountAfterTake
  <2>3. nw' = nr' + Count'
    BY <1>a, <2>1, <2>2
  <2>4. ASSUME NEW k \in 0 .. Size - 1, k < Count'
        PROVE  data'[SlotOf(k)'] = nr' + k + 1
    <3>1. k + 1 \in 0 .. Size - 1 /\ k + 1 < Count /\ SlotOf(k)' = SlotOf(k + 1)
      BY <2>2, <2>4, <1>a
    <3>2. data[SlotOf(k + 1)] = nr + (k + 1) + 1
      BY <3>1
    <3> QED
      BY <3>1, <3>2, <2>1
  <2> QED
    BY <2>1, <2>3, <2>4
<1>23. CASE WakeWriter
  BY <1>23, <1>a, CountUnchanged DEF WakeWriter
<1>24. CASE PostWriter
  BY <1>24, <1>a, CountUnchanged DEF PostWriter, RGoto, SemPost
<1>25. CASE BlockUnlock
  BY <1>25, <1>a, CountUnchanged DEF BlockUnlock, ReadUnlock, RGoto, SemPost
<1>26. CASE UNCHANGED vars
  BY <1>26, <1>a, CountUnchanged DEF vars
<1> QED
  BY <1>1, <1>2, <1>3, <1>4, <1>5, <1>6, <1>7, <1>8, <1>9, <1>10, <1>11, <1>12, <1>13, <1>14, <1>15, <1>16, <1>17, <1>18, <1>19, <1>20, <1>21, <1>22, <1>23, <1>24, <1>25, <1>26 DEF Next, WriterStep, ReaderStep

LEMMA ReadStep == ASSUME IInv, [Next]_vars PROVE ReadsInOrder'
<1> USE DEF IInv, TypeOK, ReadsInOrder, sems, ring, flags, wvars, rvars
<1>1. CASE (\E nb \in BOOLEAN : WriteBegin(nb)) \/ WriterStep \/ UNCHANGED vars
  <2>1. UNCHANGED rvars
    BY <1>1 DEF vars, WriterStep, WriteBegin, FastData, FastIndex, FastWake, FastPost,
      SlowLock, WriteCheckFull, SlowFull, WriteWait, SlowRelock, SlowData, SlowIndex,
      SlowWake, SlowPost, SlowUnlock, PutData, PutIndex, MaybeWakeReader, PostReader,
      WriteLock, WriteUnlock
  <2> QED
    BY <2>1
<1>2. CASE Take
  <2>1. Count \in Nat /\ Count >= 1
    BY <1>2, SlotOfInRing DEF Take, RGoto, BoundInv, ItemInv
  <2>2. SlotOf(0) = rdp
    BY PipeAssumption DEF SlotOf, Slots
  <2>3. data[rdp] = nr + 1
    BY <2>1, <2>2, PipeAssumption DEF RingInv
  <2> QED
    BY <1>2, <2>3 DEF Take, RGoto
<1>3. CASE Poll \/ WakeWriter \/ PostWriter \/ BlockUnlock
  BY <1>3 DEF Poll, WakeWriter, PostWriter, BlockUnlock, ReadUnlock, RGoto
<1>4. CASE BlockLock \/ ReadCheckEmpty \/ BlockEmpty \/ ReadWait \/ BlockRelock
  BY <1>4 DEF BlockLock, ReadCheckEmpty, BlockEmpty, ReadWait, BlockRelock, ReadLock,
    ReadUnlock, RGoto
<1> QED
  BY <1>1, <1>2, <1>3, <1>4 DEF Next, ReaderStep

LEMMA Initial == ASSUME Init PROVE IInv
<1> USE PipeAssumption DEF Init
<1>0. 0 \in Slots /\ data \in [Slots -> Nat]
  BY DEF Slots
<1>1. TypeOK
  <2>1. no_buffer \in BOOLEAN /\ polled \in BOOLEAN
    OBVIOUS
  <2> QED
    BY <1>0, <2>1 DEF TypeOK, WriterPCs, ReaderPCs
<1>2. Count = 0
  BY DEF Count
<1>3. ControlInv
  BY DEF ControlInv, LockInv, ReaderTokenInv, WriterTokenInv, PolledInv,
         WriterLocked, ReaderLocked
<1>4. BoundInv /\ RingInv /\ ReadsInOrder
  BY <1>2 DEF BoundInv, FastInv, RoomInv, ItemInv, RingInv, ReadsInOrder
<1> QED
  BY <1>1, <1>3, <1>4 DEF IInv

LEMMA Inductive == Spec => []IInv
<1>1. IInv /\ [Next]_vars => IInv'
  BY TypeStep, ControlStep, BoundStep, RingStep, ReadStep DEF IInv
<1> QED
  BY Initial, <1>1, PTL DEF Spec

-----------------------------------------------------------------------------
(* Type correctness of the pipe. *)
THEOREM TypeCorrect == Spec => []TypeOK
  BY Inductive, PTL DEF IInv

(* The n-th blocking read returns the n-th item written. *)
THEOREM ReadsInOrderAlways == Spec => []ReadsInOrder
  BY Inductive, PTL DEF IInv

(* Neither path of write_comm_pipe_pt stores into a full ring. *)
THEOREM NeverOverrunsAlways == Spec => []NeverOverruns
<1>1. IInv => NeverOverruns
  BY FullCount, SlotOfInRing, PipeAssumption
    DEF IInv, TypeOK, BoundInv, FastInv, RoomInv, NeverOverruns
<1> QED
  BY Inductive, <1>1, PTL

(* The reader never takes from an empty ring, though it tests only once. *)
THEOREM NeverTakesFromEmptyAlways == Spec => []NeverTakesFromEmpty
<1>1. IInv => NeverTakesFromEmpty
  BY FullCount DEF IInv, BoundInv, ItemInv, NeverTakesFromEmpty
<1> QED
  BY Inductive, <1>1, PTL

(* A thread that was woken in write_comm_pipe_pt or in the blocking read   *)
(* finds what it waited for, although it does not look again.              *)
THEOREM WakesWithWorkAlways == Spec => []WakesWithWork
  BY NeverOverrunsAlways, NeverTakesFromEmptyAlways, PTL DEF WakesWithWork

(* A read made after comm_pipe_has_data answered true does not sleep. *)
THEOREM PolledReadNeverSleepsAlways == Spec => []PolledReadNeverSleeps
<1>1. IInv => PolledReadNeverSleeps
  BY DEF IInv, ControlInv, PolledInv, PolledReadNeverSleeps
<1> QED
  BY Inductive, <1>1, PTL

(* The two sides are never both asleep: the writer's wait means Count is   *)
(* Size-1, the reader's that it is below Chunks.                           *)
THEOREM NeverBothAsleepAlways == Spec => []NeverBothAsleep
<1>1. IInv => NeverBothAsleep
  BY PipeAssumption, SlotOfInRing DEF IInv, TypeOK, ControlInv, ReaderTokenInv, WriterTokenInv,
    BoundInv, FastInv, RoomInv, NeverBothAsleep
<1> QED
  BY Inductive, <1>1, PTL

-----------------------------------------------------------------------------
(* What a sleeping reader has not read was not flushed: with its flag up,  *)
(* the last flushed item is read, or the writer that stored it is about to *)
(* look at the flag.                                                       *)
FlushInv ==
  /\ flushed <= nw
  /\ reader_waiting = 1 =>
       flushed <= nr \/ (pcW \in {"fast_wake", "slow_wake"} /\ no_buffer)

(* Whoever sleeps in the pipe has nothing to do there, or a post is under  *)
(* way.  A reader asleep with no writer about to wake it leaves fewer than *)
(* Chunks items in the ring, none of them flushed; a writer asleep on a    *)
(* full ring has a reader that is awake and has yet to see its flag; and   *)
(* who waits for the lock waits for the other's locked section.            *)
NobodySleepsOnWork ==
  /\ pcR = "wait_data" /\ reader_wait = 0 =>
       \/ pcW \in {"fast_wake", "slow_wake", "fast_post", "slow_post"}
       \/ flushed <= nr /\ Count < Chunks
  /\ pcW = "wait_room" /\ writer_wait = 0 =>
       /\ pcR # "wait_data" \/ reader_wait = 1
       /\ writer_waiting = 1 \/ pcR = "post_writer"
  /\ pcW \in {"lock", "relock"} /\ lock = 0 => ReaderLocked
  /\ pcR \in {"idle", "relock"} /\ lock = 0 => WriterLocked

LEMMA FlushStep == ASSUME IInv, FlushInv, [Next]_vars PROVE FlushInv'
<1> USE DEF FlushInv, sems, ring, flags, wvars, rvars
<1>1. /\ flushed \in Nat /\ nw \in Nat /\ nr \in Nat /\ no_buffer \in BOOLEAN
      /\ reader_waiting \in 0 .. 1
  BY DEF IInv, TypeOK
<1>2. CASE \E nb \in BOOLEAN : WriteBegin(nb)
  BY <1>1, <1>2 DEF WriteBegin, WGoto
<1>3. CASE FastIndex \/ SlowIndex
  <2>1. /\ nw' = nw + 1 /\ UNCHANGED <<nr, no_buffer, reader_waiting>>
        /\ pcW \in {"fast_index", "slow_index"} /\ pcW' \in {"fast_wake", "slow_wake"}
        /\ flushed' = IF no_buffer THEN nw + 1 ELSE flushed
    BY <1>3 DEF FastIndex, SlowIndex, PutIndex, WGoto
  <2>2. CASE no_buffer
    BY <1>1, <2>1, <2>2
  <2>3. CASE ~ no_buffer
    BY <1>1, <2>1, <2>3
  <2> QED
    BY <2>2, <2>3
<1>4. CASE FastWake \/ SlowWake
  BY <1>1, <1>4 DEF FastWake, SlowWake, MaybeWakeReader, Wakes
<1>5. CASE FastData \/ FastPost \/ SlowLock \/ WriteCheckFull \/ SlowFull \/ WriteWait
           \/ SlowRelock \/ SlowData \/ SlowPost \/ SlowUnlock
  <2>1. /\ UNCHANGED <<nw, nr, flushed, reader_waiting>>
        /\ pcW \notin {"fast_wake", "slow_wake"}
    BY <1>5 DEF FastData, FastPost, SlowLock, WriteCheckFull, SlowFull, WriteWait, SlowRelock,
       SlowData, SlowPost, SlowUnlock, PutData, PostReader, WriteLock, WriteUnlock, WGoto
  <2> QED
    BY <2>1
<1>6. CASE ReadCheckEmpty
  <2>1. rdp = wrp => nw = nr
    BY <1>1, FullCount DEF IInv, RingInv
  <2> QED
    BY <1>1, <1>6, <2>1 DEF ReadCheckEmpty
<1>7. CASE Take
  BY <1>1, <1>7 DEF Take, RGoto
<1>8. CASE Poll \/ BlockLock \/ BlockEmpty \/ ReadWait \/ BlockRelock \/ WakeWriter
           \/ PostWriter \/ BlockUnlock \/ UNCHANGED vars
  BY <1>8 DEF Poll, BlockLock, BlockEmpty, ReadWait, BlockRelock, WakeWriter, PostWriter,
     BlockUnlock, ReadLock, ReadUnlock, vars
<1> QED
  BY <1>2, <1>3, <1>4, <1>5, <1>6, <1>7, <1>8 DEF Next, WriterStep, ReaderStep

(* No wake-up is lost in write_comm_pipe_pt and the blocking read, whoever *)
(* looks at the other's flag when: chunking delays only unflushed items,   *)
(* fewer than Chunks of them.  With both threads running on this is why    *)
(* FlushedIsRead and WriteReturns hold.                                    *)
THEOREM NobodySleepsOnWorkAlways == Spec => []NobodySleepsOnWork
<1>1. Init => FlushInv
  BY DEF Init, FlushInv
<1>2. IInv /\ FlushInv /\ [Next]_vars => FlushInv'
  BY FlushStep
<1>3. IInv /\ FlushInv => NobodySleepsOnWork
  <2> SUFFICES ASSUME IInv, FlushInv PROVE NobodySleepsOnWork
    OBVIOUS
  <2> USE DEF IInv, TypeOK, ControlInv
  <2>1. ASSUME pcR = "wait_data", reader_wait = 0,
               pcW \notin {"fast_wake", "slow_wake", "fast_post", "slow_post"}
        PROVE  flushed <= nr /\ Count < Chunks
    BY <2>1 DEF ReaderTokenInv, BoundInv, FastInv, FlushInv
  <2>2. ASSUME pcW = "wait_room", writer_wait = 0
        PROVE  /\ pcR # "wait_data" \/ reader_wait = 1
               /\ writer_waiting = 1 \/ pcR = "post_writer"
    BY <2>2, PipeAssumption, SlotOfInRing
       DEF ReaderTokenInv, WriterTokenInv, BoundInv, FastInv, RoomInv
  <2>3. /\ pcW \in {"lock", "relock"} /\ lock = 0 => ReaderLocked
        /\ pcR \in {"idle", "relock"} /\ lock = 0 => WriterLocked
    BY DEF LockInv, WriterLocked, ReaderLocked
  <2> QED
    BY <2>1, <2>2, <2>3 DEF NobodySleepsOnWork
<1> QED
  BY Inductive, <1>1, <1>2, <1>3, PTL DEF Spec

-----------------------------------------------------------------------------
(* The refinement: two steps of the pipe are steps of the queue. *)

LEMMA ContentsProperties ==
  ASSUME TypeOK
  PROVE  Contents \in Seq(Nat) /\ Len(Contents) = Count
  BY SlotOfInRing DEF Contents, TypeOK

LEMMA ContentsUnchanged ==
  ASSUME UNCHANGED ring
  PROVE  UNCHANGED Contents
  BY DEF ring, Contents, Count, SlotOf

(* Storing wrp appends the item in its slot. *)
LEMMA PutRefines ==
  ASSUME IInv, IInv', FastIndex \/ SlowIndex
  PROVE  Fifo!Put
<1>1. /\ Count < Size - 1 /\ data[wrp] = nw + 1 /\ nw' = nw + 1
      /\ wrp' = NextSlot(wrp) /\ UNCHANGED <<rdp, data, got>>
  BY PipeAssumption, SlotOfInRing DEF FastIndex, SlowIndex, PutIndex, WGoto, IInv, BoundInv, FastInv,
    RoomInv, RingInv, rvars
<1>2. Count' = Count + 1 /\ \A k \in Nat : SlotOf(k)' = SlotOf(k)
  BY <1>1, CountAfterPut DEF IInv
<1>3. Count \in Nat /\ SlotOf(Count) = wrp
  BY SlotOfInRing DEF IInv
<1>4. Contents \in Seq(Nat) /\ Len(Contents) = Count /\ nw + 1 \in Nat
  BY ContentsProperties DEF IInv, TypeOK
<1>5. Contents' = [k \in 1 .. Count + 1 |-> IF k <= Count THEN Contents[k] ELSE nw + 1]
  BY <1>1, <1>2, <1>3 DEF Contents
<1>6. Append(Contents, nw + 1) = [k \in 1 .. Count + 1 |-> IF k <= Count THEN Contents[k] ELSE nw + 1]
  BY <1>3, <1>4
<1> QED
  BY <1>1, <1>4, <1>5, <1>6 DEF Fifo!Put

(* Taking the slot at rdp removes the head. *)
LEMMA GetRefines ==
  ASSUME IInv, Take
  PROVE  Fifo!Get
<1>1. /\ Count \in Nat /\ Count >= 1 /\ got' = data[rdp]
      /\ rdp' = NextSlot(rdp) /\ UNCHANGED <<wrp, data, nw>>
  BY SlotOfInRing DEF Take, RGoto, IInv, BoundInv, ItemInv, wvars
<1>2. Count' = Count - 1 /\ \A k \in Nat : k < Count - 1 => SlotOf(k)' = SlotOf(k + 1)
  BY <1>1, CountAfterTake DEF IInv
<1>3. Contents \in Seq(Nat) /\ Len(Contents) = Count
  BY ContentsProperties DEF IInv
<1>4. SlotOf(0) = rdp
  BY PipeAssumption DEF SlotOf, IInv, TypeOK, Slots
<1>5. Contents # << >> /\ Head(Contents) = data[rdp]
  BY <1>1, <1>3, <1>4 DEF Contents
<1>6. Tail(Contents) = [k \in 1 .. Count - 1 |-> Contents[k + 1]]
  <2>1. /\ Tail(Contents) \in Seq(Nat) /\ Len(Tail(Contents)) = Count - 1
        /\ \A k \in 1 .. Count - 1 : Tail(Contents)[k] = Contents[k + 1]
    BY <1>1, <1>3, <1>5, HeadTailProperties
  <2>2. Tail(Contents) \in [1 .. Count - 1 -> Nat]
    BY <2>1, LenProperties
  <2> QED
    BY <2>1, <2>2
<1>7. Contents' = [k \in 1 .. Count - 1 |-> Contents[k + 1]]
  BY <1>1, <1>2 DEF Contents
<1> QED
  BY <1>1, <1>5, <1>6, <1>7 DEF Fifo!Get

(* Every other step leaves the queue as it is: it moves only semaphores,   *)
(* flags and control, or stores into the free slot.                        *)
LEMMA OtherStutters ==
  ASSUME IInv, [Next]_vars, ~ FastIndex, ~ SlowIndex, ~ Take
  PROVE  UNCHANGED <<Contents, nw, got>>
<1>1. CASE FastData \/ SlowData
  <2>1. UNCHANGED <<rdp, wrp, nw, got>> /\ data' = [data EXCEPT ![wrp] = nw + 1]
    BY <1>1 DEF FastData, SlowData, PutData, WGoto, rvars
  <2>2. Count' = Count /\ \A k \in Nat : SlotOf(k)' = SlotOf(k)
    BY <2>1, CountUnchanged
  <2>3. /\ Count \in Nat
        /\ \A k \in 1 .. Count : SlotOf(k - 1) \in Slots /\ SlotOf(k - 1) # wrp
    BY SlotOfInRing DEF IInv
  <2>4. \A k \in 1 .. Count : data'[SlotOf(k - 1)'] = data[SlotOf(k - 1)]
    BY <2>1, <2>2, <2>3 DEF IInv, TypeOK
  <2> QED
    BY <2>1, <2>2, <2>4 DEF Contents
<1>2. CASE \/ \E nb \in BOOLEAN : WriteBegin(nb)
           \/ FastWake \/ FastPost \/ SlowLock \/ WriteCheckFull \/ SlowFull
           \/ WriteWait \/ SlowRelock \/ SlowWake \/ SlowPost \/ SlowUnlock
  BY <1>2, ContentsUnchanged DEF WriteBegin, FastWake, FastPost, SlowLock, WriteCheckFull,
    SlowFull, WriteWait, SlowRelock, SlowWake, SlowPost, SlowUnlock, MaybeWakeReader,
    PostReader, WriteLock, WriteUnlock, rvars
<1>3. CASE \/ Poll \/ BlockLock \/ ReadCheckEmpty \/ BlockEmpty \/ ReadWait
           \/ BlockRelock \/ WakeWriter \/ PostWriter \/ BlockUnlock
  BY <1>3, ContentsUnchanged DEF Poll, BlockLock, ReadCheckEmpty, BlockEmpty, ReadWait,
    BlockRelock, WakeWriter, PostWriter, BlockUnlock, ReadLock, ReadUnlock, wvars
<1>4. CASE UNCHANGED vars
  BY <1>4, ContentsUnchanged DEF vars, wvars, rvars
<1> QED
  BY <1>1, <1>2, <1>3, <1>4 DEF Next, WriterStep, ReaderStep

(* The pipe implements the bounded queue. *)
THEOREM PipeImplementsFifo == Spec => ImplementsFifo
<1>1. Init => Fifo!Init
  <2> SUFFICES ASSUME Init PROVE Fifo!Init
    OBVIOUS
  <2>1. Count = 0 /\ nw = 0 /\ got = 0
    BY DEF Init, Count
  <2>2. Contents = << >>
    BY <2>1 DEF Contents
  <2> QED
    BY <2>1, <2>2 DEF Fifo!Init
<1>2. IInv /\ IInv' /\ [Next]_vars => [Fifo!Next]_(Fifo!vars)
  <2> SUFFICES ASSUME IInv, IInv', [Next]_vars PROVE [Fifo!Next]_(Fifo!vars)
    OBVIOUS
  <2>1. CASE FastIndex \/ SlowIndex
    BY <2>1, PutRefines DEF Fifo!Next
  <2>2. CASE Take
    BY <2>2, GetRefines DEF Fifo!Next
  <2>3. CASE ~ FastIndex /\ ~ SlowIndex /\ ~ Take
    BY <2>3, OtherStutters DEF Fifo!vars
  <2> QED
    BY <2>1, <2>2, <2>3
<1> QED
  BY Inductive, <1>1, <1>2, PTL DEF Spec, ImplementsFifo, Fifo!Spec
=============================================================================
