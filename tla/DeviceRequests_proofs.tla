------------------------- MODULE DeviceRequests_proofs -------------------------
(***************************************************************************)
(* Proofs about a unit of uaeserial.device, for any requests, pipe and     *)
(* number of calls.  First its threads, its list and its semaphores: the   *)
(* type invariant, and that the reset waits for dev_thread.  Then its      *)
(* requests: one is replied to once and its copy not used after it was     *)
(* freed, and a pipe that is long enough does not block.  Then that no     *)
(* request and no wait is forgotten: the safety part of                    *)
(* AnswerableIsReplied.  Last, what is left behind when the unit is opened *)
(* again before dev_thread has read its Quit: the model ends there.        *)
(***************************************************************************)
EXTENDS DeviceRequests, FiniteSetTheorems, SequenceTheorems, TLAPS

Copies   == [r : Requests, n : Nat \ {0}, kind : AllKinds]
Messages == Copies \cup {Quit}
Entries  == [copy : Copies, ready : BOOLEAN]

CpuPlaces == {"closed", "open", "run", "abort", "close", "reset", "resetmark", "resetclose", "sync",
              "over", "shared"}
Ended == at["cpu"] \in {"over", "shared"}   \* the model ends there
SerialPlaces == {"off", "idle", "post"}
DevPlaces == {"off", "start", "read", "lookup", "reply", "release", "io", "add", "flood", "floodmark"}
(* The places at which a thread has a message in its hands. *)
Holding == {"abort", "resetmark", "lookup", "reply", "io", "add", "floodmark"}

Types ==
  /\ io \in [Requests -> [begun : Nat, replied : Nat, kind : AllKinds]] /\ closes \in Nat
  /\ ar \in Seq(Entries) /\ requests \in Seq(Messages) /\ Len(requests) <= PipeCap
  /\ at \in [Threads -> CpuPlaces \cup SerialPlaces \cup DevPlaces]
  /\ phase \in [Threads -> {"none", "wait", "write"}]
  /\ msg \in [Threads -> Messages]
  /\ freed \subseteq Requests \X Nat /\ touched \subseteq freed
  /\ again \subseteq Requests /\ missed \subseteq aborted

(* Who is where.  A thread that writes to the pipe is at the place where   *)
(* it goes on.                                                             *)
PlaceInv ==
  /\ at["cpu"] \in CpuPlaces /\ at["serial"] \in SerialPlaces /\ at["dev"] \in DevPlaces
  /\ phase["cpu"] # "none" => at["cpu"] \in {"run", "reset", "closed", "sync"}
  /\ phase["serial"] # "none" => at["serial"] = "post"
  /\ phase["dev"] # "none" => at["dev"] = "flood"
  /\ at["cpu"] \in {"closed", "sync"} => at["serial"] = "off"

SemInv ==
  /\ async_sem = IF at["serial"] = "post" THEN 0 ELSE 1
  /\ pipe_sem \in 0 .. 1
  /\ \A t \in Threads : phase[t] = "write" => pipe_sem = 0 /\ \A u \in Threads : phase[u] = "write" => u = t

(* sync_sem: a post by dev_thread at its start and its end and one by each *)
(* opening but the first, a wait by each opening and by the reset.         *)
Opens   == IF at["cpu"] \in {"closed", "close"} THEN closes ELSE closes + 1
DevDue  == IF at["dev"] = "start" THEN 2 ELSE IF at["dev"] = "off" THEN 0 ELSE 1
OpenDue == IF at["cpu"] = "open" \/ Opens = 0 THEN 0 ELSE 1
SyncInv ==
  /\ sync_sem \in Nat
  /\ Ended => sync_sem <= 2 * MaxOpens
  /\ ~ Ended => Opens <= MaxOpens /\ sync_sem + DevDue + OpenDue <= 2 * Opens
FirstOpenInv ==
  closes = 0 =>
    /\ at["cpu"] # "close"
    /\ at["cpu"] = "closed" \/ Ended => at["dev"] = "off"
    /\ at["cpu"] = "open" => sync_sem + DevDue = 2
    /\ at["cpu"] \notin {"closed", "open"} /\ ~ Ended => at["dev"] # "start" /\ sync_sem + DevDue = 1

(* dev_thread between its look at the list and its change of it: only it   *)
(* adds and removes, until the memset of the reset.                        *)
DevInv ==
  /\ at["dev"] \in {"io", "add"} => ~ InList(msg["dev"].r)
  /\ at["dev"] \in {"reply", "release"} =>
       msg["dev"] \in Copies /\ (~ Ended => InList(msg["dev"].r))
  /\ at["dev"] = "add" => msg["dev"].kind \in Async
(* A message that a thread holds or writes is about a request; Quit is     *)
(* written after the serial thread has ended.                              *)
HandInv ==
  /\ \A t \in Threads : at[t] \in Holding => msg[t] \in Copies
  /\ \A t \in Threads : phase[t] # "none" /\ at[t] \notin {"closed", "sync"} => msg[t] \in Copies
  /\ at["serial"] # "off" => \A i \in DOMAIN requests : requests[i] # Quit

UnitInv == Types /\ PlaceInv /\ SemInv /\ SyncInv /\ FirstOpenInv /\ DevInv /\ HandInv

-----------------------------------------------------------------------------
(* Lists: the first entry for a request, an entry marked, one removed.     *)
LEMMA Smallest ==
  ASSUME NEW n \in Nat, NEW S, S \subseteq 1 .. n, S # {}
  PROVE  \E i \in S : \A j \in S : i <= j
<1> DEFINE Upto(i) == {j \in S : j <= i}
           T == {Upto(i) : i \in S}
           R == StrictSubsetOrdering(1 .. n)
<1>1. IsWellFoundedOn(R, SUBSET (1 .. n))
  <2>1. IsFiniteSet(1 .. n)
    BY FS_Interval
  <2>2. FiniteSubsetsOf(1 .. n) = SUBSET (1 .. n)
    BY <2>1, FS_FiniteSubsetsOfFinite
  <2>3. IsWellFoundedOn(R, FiniteSubsetsOf(1 .. n))
    BY FS_StrictSubsetOrderingWellFounded
  <2> QED
    BY <2>2, <2>3
<1>2. T \subseteq SUBSET (1 .. n) /\ T # {}
  OBVIOUS
<1>3. PICK x \in T : \A y \in T : ~ (<<y, x>> \in R)
  <2> HIDE DEF T, R
  <2> QED
    BY <1>1, <1>2, WFMin
<1>4. PICK i \in S : x = Upto(i)
  OBVIOUS
<1>5. ASSUME NEW j \in S, j < i PROVE FALSE
  <2>1. Upto(j) \in T /\ Upto(j) \subseteq Upto(i) /\ i \in Upto(i) /\ i \notin Upto(j)
    <3>1. i \in Int /\ j \in Int /\ \A k \in S : k \in Int
      OBVIOUS
    <3>2. Upto(j) \subseteq Upto(i)
      <4>1. \A k \in S : k <= j => k <= i
        BY <1>5, <3>1
      <4> QED
        BY <4>1, Zenon
    <3>3. i \in Upto(i) /\ i \notin Upto(j)
      BY <1>5, <3>1
    <3>4. Upto(j) \in T
      OBVIOUS
    <3> QED
      BY <3>2, <3>3, <3>4
  <2>2. <<Upto(j), Upto(i)>> \in R
    BY <2>1, <1>2 DEF StrictSubsetOrdering
  <2> QED
    BY <1>3, <1>4, <2>1, <2>2
<1> QED
  BY <1>5

LEMMA EntryIsListed ==
  ASSUME Types, NEW r, InList(r)
  PROVE  Entry(r) \in 1 .. Len(ar) /\ ar[Entry(r)].copy.r = r
<1> DEFINE S == {i \in 1 .. Len(ar) : ar[i].copy.r = r}
<1>1. S # {} /\ S \subseteq 1 .. Len(ar) /\ DOMAIN ar = 1 .. Len(ar) /\ Len(ar) \in Nat
  BY LenProperties DEF Types, InList
<1>2. PICK i \in S : \A j \in S : i <= j
  BY <1>1, Smallest
<1>3. \A j \in 1 .. i - 1 : ar[j].copy.r # r
  BY <1>1, <1>2
<1> QED
  BY <1>1, <1>2, <1>3 DEF Entry

LEMMA Marked ==
  ASSUME Types, NEW e \in 1 .. Len(ar)
  PROVE  /\ [ar EXCEPT ![e].ready = TRUE] \in Seq(Entries)
         /\ Len([ar EXCEPT ![e].ready = TRUE]) = Len(ar)
         /\ \A i \in 1 .. Len(ar) : [ar EXCEPT ![e].ready = TRUE][i].copy = ar[i].copy
         /\ [ar EXCEPT ![e].ready = TRUE][e].ready
         /\ \A i \in 1 .. Len(ar) : i # e => [ar EXCEPT ![e].ready = TRUE][i] = ar[i]
<1>1. ar \in Seq(Entries) /\ \A i \in 1 .. Len(ar) : ar[i] \in Entries
  BY ElementOfSeq DEF Types
<1>2. [ar[e] EXCEPT !.ready = TRUE] \in Entries
  BY <1>1 DEF Entries
<1>3. /\ [ar EXCEPT ![e].ready = TRUE] = [ar EXCEPT ![e] = [ar[e] EXCEPT !.ready = TRUE]]
      /\ [ar[e] EXCEPT !.ready = TRUE].copy = ar[e].copy
      /\ [ar[e] EXCEPT !.ready = TRUE].ready = TRUE
  BY <1>1 DEF Entries
<1> DEFINE m == [ar[e] EXCEPT !.ready = TRUE]
<1>4. m \in Entries /\ m.copy = ar[e].copy /\ m.ready = TRUE
  BY <1>2, <1>3
<1> HIDE DEF m
<1>5. /\ [ar EXCEPT ![e] = m] \in Seq(Entries) /\ Len([ar EXCEPT ![e] = m]) = Len(ar)
      /\ \A i \in 1 .. Len(ar) : [ar EXCEPT ![e] = m][i] = IF i = e THEN m ELSE ar[i]
  BY <1>1, <1>4, ExceptSeq
<1>7. [ar EXCEPT ![e].ready = TRUE] = [ar EXCEPT ![e] = m]
  BY <1>3 DEF m
<1> QED
  BY <1>4, <1>5, <1>7

LEMMA Removed ==
  ASSUME Types, NEW e \in 1 .. Len(ar)
  PROVE  /\ RemoveAt(ar, e) \in Seq(Entries)
         /\ Len(RemoveAt(ar, e)) = Len(ar) - 1
         /\ \A i \in 1 .. Len(ar) - 1 : RemoveAt(ar, e)[i] = IF i < e THEN ar[i] ELSE ar[i + 1]
<1> DEFINE s == SubSeq(ar, 1, e - 1)
           t == SubSeq(ar, e + 1, Len(ar))
<1>1. Len(ar) \in Nat /\ \A i \in 1 .. Len(ar) : ar[i] \in Entries
  BY ElementOfSeq, LenProperties DEF Types
<1>2. s \in Seq(Entries) /\ Len(s) = e - 1 /\ \A i \in 1 .. e - 1 : s[i] = ar[i]
  <2>1. \A i \in 1 .. e - 1 : ar[i] \in Entries
    BY <1>1
  <2> QED
    BY <1>1, <2>1, SubSeqProperties
<1>3. t \in Seq(Entries) /\ Len(t) = Len(ar) - e /\ \A i \in 1 .. Len(ar) - e : t[i] = ar[e + i]
  <2>1. \A i \in e + 1 .. Len(ar) : ar[i] \in Entries
    BY <1>1
  <2>2. e + 1 \in Int /\ Len(ar) \in Int
    BY <1>1
  <2> QED
    BY <1>1, <2>1, <2>2, SubSeqProperties
<1> HIDE DEF s, t
<1>4. RemoveAt(ar, e) = s \o t
  BY DEF RemoveAt, s, t
<1>5. /\ s \o t \in Seq(Entries) /\ Len(s \o t) = Len(s) + Len(t)
      /\ \A i \in 1 .. Len(s) + Len(t) :
           (s \o t)[i] = IF i <= Len(s) THEN s[i] ELSE t[i - Len(s)]
  BY <1>2, <1>3, ConcatProperties
<1> QED
  BY <1>1, <1>2, <1>3, <1>4, <1>5

LEMMA Elements ==
  ASSUME Types
  PROVE  /\ Len(ar) \in Nat /\ DOMAIN ar = 1 .. Len(ar) /\ \A i \in 1 .. Len(ar) : ar[i] \in Entries
         /\ Len(requests) \in Nat /\ DOMAIN requests = 1 .. Len(requests)
         /\ \A i \in 1 .. Len(requests) : requests[i] \in Messages
  BY ElementOfSeq, LenProperties DEF Types
-----------------------------------------------------------------------------

LEMMA Initial == ASSUME Init PROVE UnitInv
<1> USE DeviceAssumption DEF Init
<1>1. Types
  <2>1. /\ ar \in Seq(Entries) /\ requests \in Seq(Messages) /\ Len(requests) <= PipeCap
        /\ freed \subseteq Requests \X Nat /\ touched \subseteq freed
        /\ again \subseteq Requests /\ missed \subseteq aborted /\ closes \in Nat
    OBVIOUS
  <2>2. io \in [Requests -> [begun : Nat, replied : Nat, kind : AllKinds]]
    BY DEF AllKinds, Async
  <2>3. at \in [Threads -> CpuPlaces \cup SerialPlaces \cup DevPlaces]
    <3>1. at = [t \in Threads |-> IF t = "cpu" THEN "closed" ELSE "off"]
      BY DEF Threads
    <3> QED
      BY <3>1 DEF CpuPlaces, SerialPlaces
  <2>4. phase \in [Threads -> {"none", "wait", "write"}] /\ msg \in [Threads -> Messages]
    BY DEF Messages
  <2> QED
    BY <2>1, <2>2, <2>3, <2>4 DEF Types
<1>2. /\ at["cpu"] = "closed" /\ at["serial"] = "off" /\ at["dev"] = "off"
      /\ phase["cpu"] = "none" /\ phase["serial"] = "none" /\ phase["dev"] = "none"
      /\ \A t \in Threads : phase[t] = "none" /\ at[t] \in {"closed", "off"}
  BY DEF Threads
<1>3. PlaceInv /\ SemInv
  BY <1>2 DEF PlaceInv, SemInv, CpuPlaces, SerialPlaces, DevPlaces
<1>4. SyncInv /\ FirstOpenInv
  BY <1>2 DEF SyncInv, Ended, FirstOpenInv, Opens, DevDue, OpenDue
<1>6. DOMAIN ar = {} /\ DOMAIN requests = {}
  OBVIOUS
<1>5. DevInv /\ HandInv
  BY <1>2, <1>6 DEF DevInv, Ended, HandInv, Holding
<1> QED
  BY <1>1, <1>3, <1>4, <1>5 DEF UnitInv

-----------------------------------------------------------------------------
(* The steps, by what they do. *)
Aborts ==
  \/ \E r \in Requests : AbortIO(r)
  \/ ResetAbort
  \/ ~ Ended /\ DevFlood
(* An opening starts a dev_thread, or finds the one of the time before. *)
OpenNew    == OpenUnit /\ at.dev = "off"
OpenShared == OpenUnit /\ at.dev # "off"
Marks == AbortIOMark \/ ResetMark \/ (~ Ended /\ DevFloodMark)
Moves ==
  \/ OpenNew \/ OpenShared \/ OpenWait \/ CloseUnit \/ ResetUnit \/ ResetClose \/ ResetSync \/ ResetClosed
  \/ SignalPost \/ SerialEnds \/ (~ Ended /\ DevStart)
  \/ \E t \in Threads : PipeSemWait(t)
Signals == \E ready \in {{"read"}, {"write", "break"}} : Signal(ready)
Quits == CloseSend \/ ResetSend
Begins == \E r \in Requests, kind \in Kinds : BeginIO(r, kind)
DevSteps ==
  ~ Ended /\ (DevRead \/ DevLookup \/ DevReply \/ DevRelease \/ DevIO \/ DevAdd)
Writes == \E t \in Threads : WriteMessage(t)

LEMMA Steps ==
  Next => Moves \/ Aborts \/ Marks \/ Signals \/ Quits \/ Begins \/ DevSteps \/ Writes
<1>1. "cpu" \in Threads /\ "serial" \in Threads /\ "dev" \in Threads
  BY DEF Threads
<1>2. \A t \in Threads : (PipeSemWait(t) => Moves) /\ (WriteMessage(t) => Writes)
  BY Zenon DEF Moves, Writes
<1>3. CpuStep => Moves \/ Aborts \/ Marks \/ Quits \/ Writes
  BY <1>1, <1>2, Zenon DEF CpuStep, Moves, Aborts, Marks, Quits
<1>5. SerialStep => Moves \/ Signals \/ Writes
  BY <1>1, <1>2, Zenon DEF SerialStep, Moves, Signals
<1>4. DevStep => Moves \/ Aborts \/ Marks \/ DevSteps \/ Writes
  BY <1>1, <1>2, Zenon DEF DevStep, Ended, Moves, Aborts, Marks, DevSteps
<1>6. OpenUnit => Moves
  BY Zenon DEF Moves, OpenNew, OpenShared
<1>7. CloseUnit \/ ResetUnit \/ ResetClosed => Moves
  BY Zenon DEF Moves
<1> QED
  BY <1>3, <1>4, <1>5, <1>6, <1>7, Zenon DEF Next, Aborts, Signals, Begins

(* A thread looks up a request to abort, under async_sem. *)
Finds(t, r, found, missing) ==
  \/ /\ InList(r)
     /\ ar' = [ar EXCEPT ![Entry(r)].ready = TRUE]
     /\ msg' = [msg EXCEPT ![t] = ar[Entry(r)].copy]
     /\ again' = IF ar[Entry(r)].ready THEN again \cup {r} ELSE again
     /\ at' = [at EXCEPT ![t] = found]
  \/ ~ InList(r) /\ UNCHANGED <<ar, msg, again>> /\ at' = [at EXCEPT ![t] = missing]

LEMMA AbortSteps ==
  ASSUME Aborts
  PROVE  /\ UNCHANGED <<io, closes, async_sem, requests, pipe_sem, phase, sync_sem, freed, touched>>
         /\ missed \subseteq aborted => missed' \subseteq aborted'
         /\ \E r : \/ At("cpu", "run") /\ Finds("cpu", r, "abort", "run")
                   \/ At("cpu", "reset") /\ Finds("cpu", r, "resetmark", "reset")
                   \/ At("dev", "flood") /\ Finds("dev", r, "floodmark", "flood")
<1>1. ASSUME NEW r \in Requests, AbortIO(r)
      PROVE  /\ UNCHANGED <<io, closes, async_sem, requests, pipe_sem, phase, sync_sem, freed, touched>>
             /\ missed \subseteq aborted => missed' \subseteq aborted'
             /\ At("cpu", "run") /\ Finds("cpu", r, "abort", "run")
  <2>1. /\ UNCHANGED <<io, closes, async_sem, requests, pipe_sem, phase, sync_sem, freed, touched>>
        /\ At("cpu", "run") /\ Finds("cpu", r, "abort", "run")
    BY <1>1 DEF AbortIO, AbortFind, Finds, Go, pipe
  <2>2. \E now : aborted' = aborted \cup now /\ missed' \subseteq missed \cup now
    BY <1>1, Zenon DEF AbortIO
  <2> QED
    BY <2>1, <2>2
<1>2. ASSUME ResetAbort
      PROVE  /\ UNCHANGED <<amiga, async_sem, pipe, sync_sem, freed, touched, aborted, missed>>
             /\ At("cpu", "reset") /\ Finds("cpu", ar[1].copy.r, "resetmark", "reset")
  BY <1>2 DEF ResetAbort, AbortFind, Finds, Go
<1>3. ASSUME DevFlood
      PROVE  /\ UNCHANGED <<amiga, async_sem, pipe, sync_sem, freed, touched, aborted, missed>>
             /\ At("dev", "flood") /\ Finds("dev", ar[1].copy.r, "floodmark", "flood")
  BY <1>3 DEF DevFlood, AbortFind, Finds, Go
<1> QED
  <2>1. CASE ResetAbort
    BY <1>2, <2>1 DEF amiga, pipe
  <2>2. CASE DevFlood
    BY <1>3, <2>2 DEF amiga, pipe
  <2> QED
    BY <1>1, <2>1, <2>2 DEF Aborts

LEMMA MarkSteps ==
  ASSUME Marks
  PROVE  /\ UNCHANGED <<io, closes, ar, async_sem, requests, pipe_sem, sync_sem, freed, again,
                        aborted, missed>>
         /\ \E t \in Threads :
              /\ phase[t] = "none" /\ phase' = [phase EXCEPT ![t] = "wait"]
              /\ msg' = [msg EXCEPT ![t] = msg[t]]
              /\ touched' = IF Id(msg[t]) \in freed THEN touched \cup {Id(msg[t])} ELSE touched
              /\ \/ t = "cpu" /\ at[t] = "abort" /\ at' = [at EXCEPT ![t] = "run"]
                 \/ t = "cpu" /\ at[t] = "resetmark" /\ at' = [at EXCEPT ![t] = "reset"]
                 \/ t = "dev" /\ at[t] = "floodmark" /\ at' = [at EXCEPT ![t] = "flood"]
  BY DEF Marks, AbortIOMark, ResetMark, DevFloodMark, AbortMark, Send, Touch, At, Go, amiga, list,
         Threads
-----------------------------------------------------------------------------
(* Types. *)
LEMMA Places ==
  ASSUME Types, NEW t \in Threads, NEW p \in CpuPlaces \cup SerialPlaces \cup DevPlaces,
         at' = [at EXCEPT ![t] = p]
  PROVE  /\ at' \in [Threads -> CpuPlaces \cup SerialPlaces \cup DevPlaces]
         /\ at'[t] = p /\ \A u \in Threads : u # t => at'[u] = at[u]
  BY DEF Types

LEMMA MoveTypes == ASSUME UnitInv, Moves PROVE Types'
<1> USE DEF UnitInv
<1>1. /\ UNCHANGED <<io, msg, freed, touched, again, aborted, missed>>
      /\ ar' \in {ar, <<>>} /\ requests' \in {requests, <<>>} /\ closes' \in {closes, closes + 1}
  BY DEF Moves, OpenNew, OpenShared, OpenUnit, OpenWait, CloseUnit, ResetUnit, ResetClose, ResetSync, ResetClosed, SignalPost,
     SerialEnds, DevStart, PipeSemWait, amiga, list, pipe, hist
<1>2. at' \in [Threads -> CpuPlaces \cup SerialPlaces \cup DevPlaces]
  <2>1. CASE OpenNew
    <3>1. at' = [t \in Threads |-> IF t = "cpu" THEN "open" ELSE IF t = "serial" THEN "idle" ELSE "start"]
      BY <2>1 DEF OpenNew, OpenUnit, Threads
    <3> QED
      BY <3>1 DEF CpuPlaces, SerialPlaces, DevPlaces
  <2>2. CASE \E t \in Threads : PipeSemWait(t)
    BY <2>2 DEF PipeSemWait, Types
  <2>3. CASE ~ OpenNew /\ ~ \E t \in Threads : PipeSemWait(t)
    <3>1. \E t \in Threads, p \in CpuPlaces \cup SerialPlaces \cup DevPlaces : at' = [at EXCEPT ![t] = p]
      BY <2>3 DEF Moves, OpenNew, OpenShared, OpenUnit, OpenWait, CloseUnit, ResetUnit, ResetClose, ResetSync, ResetClosed,
         SignalPost, SerialEnds, DevStart, Go, Threads, CpuPlaces, SerialPlaces, DevPlaces
    <3> QED
      BY <3>1, Places DEF Types
  <2> QED
    BY <2>1, <2>2, <2>3
<1>3. phase' \in [Threads -> {"none", "wait", "write"}]
  <2>1. UNCHANGED phase \/ \E t \in Threads : phase' = [phase EXCEPT ![t] = "write"]
    BY DEF Moves, OpenNew, OpenShared, OpenUnit, OpenWait, CloseUnit, ResetUnit, ResetClose, ResetSync, ResetClosed, SignalPost,
       SerialEnds, DevStart, PipeSemWait, pipe
  <2> QED
    BY <2>1 DEF Types
<1>4. ar' \in Seq(Entries) /\ requests' \in Seq(Messages) /\ Len(requests') <= PipeCap
  <2>1. <<>> \in Seq(Entries) /\ <<>> \in Seq(Messages) /\ Len(<<>>) <= PipeCap
    BY DeviceAssumption
  <2> QED
    BY <1>1, <2>1, Zenon DEF Types
<1> QED
  BY <1>1, <1>2, <1>3, <1>4 DEF Types

LEMMA AbortTypes == ASSUME UnitInv, Aborts PROVE Types'
<1> USE DEF UnitInv
<1>1. PICK r : \/ At("cpu", "run") /\ Finds("cpu", r, "abort", "run")
               \/ At("cpu", "reset") /\ Finds("cpu", r, "resetmark", "reset")
               \/ At("dev", "flood") /\ Finds("dev", r, "floodmark", "flood")
  BY AbortSteps
<1>2. PICK t \in Threads, found \in CpuPlaces \cup DevPlaces, missing \in CpuPlaces \cup DevPlaces :
        Finds(t, r, found, missing)
  BY <1>1 DEF Threads, CpuPlaces, DevPlaces
<1>3. at' \in [Threads -> CpuPlaces \cup SerialPlaces \cup DevPlaces]
  BY <1>2, Places DEF Finds
<1>4. CASE InList(r)
  <2>1. Entry(r) \in 1 .. Len(ar) /\ ar[Entry(r)] \in Entries /\ ar[Entry(r)].copy.r = r
    BY <1>4, EntryIsListed, Elements
  <2>2. ar[Entry(r)].copy \in Messages /\ r \in Requests
    BY <2>1 DEF Entries, Messages, Copies
  <2>3. ar' \in Seq(Entries)
    BY <1>2, <1>4, <2>1, Marked DEF Finds
  <2>4. msg' \in [Threads -> Messages] /\ again' \subseteq Requests
    BY <1>2, <1>4, <2>2 DEF Finds, Types
  <2> QED
    BY <1>3, <2>3, <2>4, AbortSteps DEF Types
<1>5. CASE ~ InList(r)
  <2>1. UNCHANGED <<ar, msg, again>>
    BY <1>2, <1>5 DEF Finds
  <2> QED
    BY <1>3, <2>1, AbortSteps DEF Types
<1> QED
  BY <1>4, <1>5

LEMMA MarkTypes == ASSUME UnitInv, Marks PROVE Types'
<1> USE DEF UnitInv
<1>1. PICK t \in Threads :
        /\ phase' = [phase EXCEPT ![t] = "wait"] /\ msg' = [msg EXCEPT ![t] = msg[t]]
        /\ touched' = IF Id(msg[t]) \in freed THEN touched \cup {Id(msg[t])} ELSE touched
        /\ \E p \in {"run", "reset", "flood"} : at' = [at EXCEPT ![t] = p]
  BY MarkSteps
<1>2. at' \in [Threads -> CpuPlaces \cup SerialPlaces \cup DevPlaces]
  BY <1>1, Places DEF CpuPlaces, DevPlaces
<1>3. UNCHANGED <<io, closes, ar, requests, freed, again, aborted, missed>>
  BY MarkSteps
<1> QED
  BY <1>1, <1>2, <1>3 DEF Types

(* Signals, Quits and Begins: a thread begins to write a message. *)
Starts(t, m, place) ==
  /\ msg' = [msg EXCEPT ![t] = m] /\ phase' = [phase EXCEPT ![t] = "wait"]
  /\ at' = [at EXCEPT ![t] = place] /\ UNCHANGED <<requests, pipe_sem>>

LEMMA SignalSteps ==
  ASSUME Types, Signals
  PROVE  /\ At("serial", "idle") /\ async_sem > 0 /\ async_sem' = async_sem - 1
         /\ UNCHANGED <<io, closes, sync_sem, freed, again, aborted, missed>>
         /\ \E i \in 1 .. Len(ar) :
              /\ ~ ar[i].ready /\ ar' = [ar EXCEPT ![i].ready = TRUE]
              /\ Touch(ar[i].copy) /\ Starts("serial", ar[i].copy, "post")
<1>1. DOMAIN ar = 1 .. Len(ar)
  BY Elements
<1>2. PICK ready : Signal(ready)
  BY DEF Signals
<1>3. \E i \in 1 .. Len(ar) :
        /\ ~ ar[i].ready /\ ar' = [ar EXCEPT ![i].ready = TRUE]
        /\ Touch(ar[i].copy) /\ Starts("serial", ar[i].copy, "post")
  BY <1>1, <1>2 DEF Signal, Send, Starts, Go
<1> QED
  BY <1>2, <1>3 DEF Signal, amiga

LEMMA StartTypes == ASSUME UnitInv, Signals \/ Quits \/ Begins PROVE Types'
<1> USE DEF UnitInv
<1>1. ASSUME NEW t \in Threads, NEW m \in Messages,
             NEW place \in CpuPlaces \cup SerialPlaces \cup DevPlaces, Starts(t, m, place)
      PROVE  /\ at' \in [Threads -> CpuPlaces \cup SerialPlaces \cup DevPlaces]
             /\ phase' \in [Threads -> {"none", "wait", "write"}] /\ msg' \in [Threads -> Messages]
             /\ requests' = requests
  <2>1. at' \in [Threads -> CpuPlaces \cup SerialPlaces \cup DevPlaces]
    BY <1>1, Places DEF Starts
  <2> QED
    BY <1>1, <2>1 DEF Starts, Types
<1>2. CASE Signals
  <2>1. PICK i \in 1 .. Len(ar) : /\ ar' = [ar EXCEPT ![i].ready = TRUE]
                                  /\ Touch(ar[i].copy) /\ Starts("serial", ar[i].copy, "post")
    BY <1>2, SignalSteps
  <2>2. ar[i].copy \in Messages /\ ar' \in Seq(Entries)
    BY <2>1, Elements, Marked DEF Entries, Messages
  <2>3. "serial" \in Threads /\ "post" \in SerialPlaces
    BY DEF Threads, SerialPlaces
  <2>4. touched' \subseteq freed
    BY <2>1 DEF Touch, Types
  <2> QED
    BY <1>1, <1>2, <2>1, <2>2, <2>3, <2>4, SignalSteps DEF Types
<1>3. CASE Quits
  <2>1. PICK place \in {"closed", "sync"} : Starts("cpu", Quit, place)
    BY <1>3 DEF Quits, CloseSend, ResetSend, Send, Starts, Go
  <2>2. "cpu" \in Threads /\ place \in CpuPlaces /\ Quit \in Messages
    BY DEF Threads, CpuPlaces, Messages
  <2>3. UNCHANGED <<io, closes, ar, freed, touched, again, aborted, missed>>
    BY <1>3 DEF Quits, CloseSend, ResetSend, amiga, list, hist
  <2> QED
    BY <1>1, <2>1, <2>2, <2>3 DEF Types
<1>4. CASE Begins
  <2>1. PICK r \in Requests, kind \in Kinds : BeginIO(r, kind)
    BY <1>4 DEF Begins
  <2>2. /\ io' = [io EXCEPT ![r].begun = io[r].begun + 1, ![r].kind = kind]
        /\ Starts("cpu", Copy(r, io[r].begun + 1, kind), "run")
        /\ UNCHANGED <<closes, ar, freed, touched, again, aborted, missed>>
    BY <2>1 DEF BeginIO, Send, Starts, Go, list, hist, Types
  <2>3. /\ "cpu" \in Threads /\ "run" \in CpuPlaces /\ kind \in AllKinds
        /\ Copy(r, io[r].begun + 1, kind) \in Messages
    <3>1. io[r].begun \in Nat /\ kind \in AllKinds
      BY DeviceAssumption DEF Types
    <3>2. io[r].begun + 1 \in Nat \ {0}
      BY <3>1
    <3> QED
      BY <3>1, <3>2 DEF Threads, CpuPlaces, Messages, Copies, Copy
  <2>4. io' \in [Requests -> [begun : Nat, replied : Nat, kind : AllKinds]]
    <3> DEFINE c == [io[r] EXCEPT !.begun = io[r].begun + 1]
               d == [c EXCEPT !.kind = kind]
    <3>1. c \in [begun : Nat, replied : Nat, kind : AllKinds]
      <4>1. io[r] \in [begun : Nat, replied : Nat, kind : AllKinds]
        BY DEF Types
      <4> QED
        BY <4>1
    <3>2. d \in [begun : Nat, replied : Nat, kind : AllKinds]
      BY <2>3, <3>1
    <3>3. io' = [[io EXCEPT ![r] = c] EXCEPT ![r] = d]
      BY <2>2 DEF Types
    <3> HIDE DEF c, d
    <3> QED
      BY <3>1, <3>2, <3>3 DEF Types
  <2> QED
    BY <1>1, <2>2, <2>3, <2>4 DEF Types
<1> QED
  BY <1>2, <1>3, <1>4

LEMMA WriteTypes == ASSUME UnitInv, NEW t \in Threads, WriteMessage(t) PROVE Types'
<1>1. msg[t] \in Messages /\ requests \in Seq(Messages)
  BY DEF UnitInv, Types
<1>2. requests' \in Seq(Messages) /\ Len(requests') = Len(requests) + 1 /\ Len(requests) < PipeCap
  BY <1>1, AppendProperties DEF WriteMessage
<1>3. Len(requests') <= PipeCap
  BY <1>1, <1>2, LenProperties, DeviceAssumption
<1> QED
  BY <1>2, <1>3 DEF UnitInv, Types, WriteMessage, amiga, list, hist

LEMMA DevTypes == ASSUME UnitInv, DevSteps PROVE Types'
<1> USE DEF UnitInv
<1>0. "dev" \in Threads /\ DevPlaces \subseteq CpuPlaces \cup SerialPlaces \cup DevPlaces
  BY DEF Threads
<1>1. CASE DevRead
  <2>1. requests \in Seq(Messages) /\ requests # <<>>
    BY <1>1 DEF DevRead, Types
  <2>2. /\ Head(requests) \in Messages /\ Tail(requests) \in Seq(Messages)
        /\ Len(Tail(requests)) = Len(requests) - 1 /\ Len(requests) \in Nat
    BY <2>1, HeadTailProperties, LenProperties
  <2>3. \E p \in DevPlaces : at' = [at EXCEPT !["dev"] = p]
    BY <1>1 DEF DevRead, Go, DevPlaces
  <2>4. at' \in [Threads -> CpuPlaces \cup SerialPlaces \cup DevPlaces]
    BY <1>0, <2>3, Places
  <2>5. msg' = [msg EXCEPT !["dev"] = Head(requests)] /\ requests' = Tail(requests)
        /\ UNCHANGED <<io, closes, ar, phase, freed, touched, again, aborted, missed>>
    BY <1>1 DEF DevRead, amiga, list, hist
  <2>6. Len(requests') <= PipeCap
    BY <2>2, <2>5, DeviceAssumption DEF Types
  <2> QED
    BY <1>0, <2>2, <2>4, <2>5, <2>6 DEF Types
<1>2. CASE DevLookup
  <2>1. \E p \in DevPlaces : at' = [at EXCEPT !["dev"] = p]
    BY <1>2 DEF DevLookup, Go, DevPlaces
  <2>2. at' \in [Threads -> CpuPlaces \cup SerialPlaces \cup DevPlaces]
    BY <1>0, <2>1, Places
  <2>3. ar' \in Seq(Entries)
    BY <1>2, EntryIsListed, Marked DEF DevLookup, Types
  <2> QED
    BY <1>2, <2>2, <2>3 DEF DevLookup, Types, amiga, pipe, hist
<1>3. CASE DevReply \/ DevIO
  <2>1. \E p \in DevPlaces : at' = [at EXCEPT !["dev"] = p]
    BY <1>3 DEF DevReply, DevIO, Go, DevPlaces
  <2>2. at' \in [Threads -> CpuPlaces \cup SerialPlaces \cup DevPlaces]
    BY <1>0, <2>1, Places
  <2>3. io' = io \/ ReplyMsg(msg["dev"].r)
    BY <1>3 DEF DevReply, DevIO
  <2>4. msg["dev"] \in Copies
    BY <1>0, <1>3 DEF DevReply, DevIO, HandInv, At, Holding
  <2>5. io' \in [Requests -> [begun : Nat, replied : Nat, kind : AllKinds]]
    <3> DEFINE c == [io[msg["dev"].r] EXCEPT !.replied = io[msg["dev"].r].replied + 1]
    <3>1. msg["dev"].r \in Requests /\ io[msg["dev"].r] \in [begun : Nat, replied : Nat, kind : AllKinds]
      BY <2>4 DEF Copies, Types
    <3>2. c \in [begun : Nat, replied : Nat, kind : AllKinds]
      BY <3>1
    <3>3. io' = io \/ io' = [io EXCEPT ![msg["dev"].r] = c]
      BY <2>3, <3>1 DEF ReplyMsg, Types
    <3> HIDE DEF c
    <3> QED
      BY <3>1, <3>2, <3>3 DEF Types
  <2>6. touched' \subseteq freed'
    BY <1>3 DEF DevReply, DevIO, Touch, Types, hist
  <2> QED
    BY <1>3, <2>2, <2>5, <2>6 DEF DevReply, DevIO, Types, list, pipe, hist
<1>4. CASE DevRelease
  <2>1. at' \in [Threads -> CpuPlaces \cup SerialPlaces \cup DevPlaces]
    BY <1>0, <1>4, Places DEF DevRelease, Go, DevPlaces
  <2>2. InList(msg["dev"].r)
    BY <1>4 DEF DevSteps, DevRelease, DevInv, Ended, At
  <2>3. /\ Entry(msg["dev"].r) \in 1 .. Len(ar)
        /\ ar[Entry(msg["dev"].r)] \in Entries
    BY <2>2, EntryIsListed, Elements
  <2>4. ar' \in Seq(Entries)
    BY <1>4, <2>3, Removed DEF DevRelease
  <2>5. Id(ar[Entry(msg["dev"].r)].copy) \in Requests \X Nat
    BY <2>3 DEF Entries, Copies, Id
  <2>6. freed' \subseteq Requests \X Nat /\ touched' \subseteq freed'
    BY <1>4, <2>5 DEF DevRelease, Types
  <2> QED
    BY <1>4, <2>1, <2>4, <2>6 DEF DevRelease, Types, amiga, pipe
<1>5. CASE DevAdd
  <2>1. at' \in [Threads -> CpuPlaces \cup SerialPlaces \cup DevPlaces]
    BY <1>0, <1>5, Places DEF DevAdd, Go, DevPlaces
  <2>2. [copy |-> msg["dev"], ready |-> FALSE] \in Entries
    BY <1>0, <1>5 DEF DevAdd, HandInv, At, Holding, Entries
  <2>3. ar' \in Seq(Entries)
    BY <1>5, <2>2, AppendProperties DEF DevAdd, Types
  <2> QED
    BY <1>5, <2>1, <2>3 DEF DevAdd, Types, amiga, pipe, hist
<1> QED
  BY <1>1, <1>2, <1>3, <1>4, <1>5 DEF DevSteps

LEMMA TypesKept == ASSUME UnitInv, Next PROVE Types'
<1>1. \A t \in Threads : WriteMessage(t) => Types'
  BY WriteTypes
<1> QED
  BY <1>1, Steps, MoveTypes, AbortTypes, MarkTypes, StartTypes, DevTypes DEF Writes

-----------------------------------------------------------------------------
(* Places and semaphores. *)
LEMMA ThreadFacts ==
  ASSUME Types
  PROVE  /\ "cpu" \in Threads /\ "serial" \in Threads /\ "dev" \in Threads
         /\ \A t \in Threads : t = "cpu" \/ t = "serial" \/ t = "dev"
         /\ at \in [Threads -> CpuPlaces \cup SerialPlaces \cup DevPlaces]
         /\ phase \in [Threads -> {"none", "wait", "write"}] /\ msg \in [Threads -> Messages]
  BY DEF Threads, Types

LEMMA MovePlaces == ASSUME UnitInv, Moves PROVE PlaceInv'
<1> USE ThreadFacts DEF UnitInv, CpuPlaces, SerialPlaces, DevPlaces
<1>1. CASE OpenNew
  BY <1>1 DEF OpenNew, OpenUnit, At, PlaceInv
<1>6. CASE OpenShared
  BY <1>6 DEF OpenShared, OpenUnit, At, PlaceInv
<1>2. CASE OpenWait \/ CloseUnit \/ ResetUnit \/ ResetClose \/ ResetSync \/ ResetClosed
  BY <1>2 DEF OpenWait, CloseUnit, ResetUnit, ResetClose, ResetSync, ResetClosed, At, Go, PlaceInv, pipe
<1>3. CASE SignalPost \/ SerialEnds
  BY <1>3 DEF SignalPost, SerialEnds, At, Go, PlaceInv, pipe
<1>4. CASE DevStart
  BY <1>4 DEF DevStart, At, Go, PlaceInv, pipe
<1>5. CASE \E t \in Threads : PipeSemWait(t)
  BY <1>5 DEF PipeSemWait, PlaceInv
<1> QED
  BY <1>1, <1>2, <1>3, <1>4, <1>5, <1>6 DEF Moves

LEMMA OtherPlaces ==
  ASSUME UnitInv, Aborts \/ Marks \/ Signals \/ Quits \/ Begins \/ DevSteps \/ Writes
  PROVE  PlaceInv'
<1> USE ThreadFacts DEF UnitInv, CpuPlaces, SerialPlaces, DevPlaces
<1>1. CASE Aborts
  <2>1. PICK r : \/ At("cpu", "run") /\ Finds("cpu", r, "abort", "run")
                 \/ At("cpu", "reset") /\ Finds("cpu", r, "resetmark", "reset")
                 \/ At("dev", "flood") /\ Finds("dev", r, "floodmark", "flood")
    BY <1>1, AbortSteps
  <2> QED
    BY <1>1, <2>1, AbortSteps DEF At, Finds, PlaceInv
<1>2. CASE Marks
  BY <1>2, MarkSteps DEF PlaceInv
<1>3. CASE Signals
  <2>1. \E m : Starts("serial", m, "post")
    BY <1>3, SignalSteps
  <2> QED
    BY <1>3, <2>1, SignalSteps DEF Starts, At, PlaceInv
<1>4. CASE Quits
  BY <1>4 DEF Quits, CloseSend, ResetSend, Send, At, Go, PlaceInv
<1>5. CASE Begins
  BY <1>5 DEF Begins, BeginIO, Send, At, Go, PlaceInv
<1>6. CASE DevSteps
  BY <1>6 DEF DevSteps, DevRead, DevLookup, DevReply, DevRelease, DevIO, DevAdd, At, Go, PlaceInv, pipe
<1>7. CASE Writes
  BY <1>7 DEF Writes, WriteMessage, PlaceInv
<1> QED
  BY <1>1, <1>2, <1>3, <1>4, <1>5, <1>6, <1>7

LEMMA SemKept == ASSUME UnitInv, Next PROVE SemInv'
<1> USE ThreadFacts DEF UnitInv
<1>1. CASE \E t \in Threads : PipeSemWait(t) \/ WriteMessage(t)
  <2>1. PICK t \in Threads : PipeSemWait(t) \/ WriteMessage(t)
    BY <1>1
  <2>2. UNCHANGED <<async_sem, at>>
    BY <2>1 DEF PipeSemWait, WriteMessage, list
  <2>3. CASE PipeSemWait(t)
    BY <2>2, <2>3 DEF PipeSemWait, SemInv
  <2>4. CASE WriteMessage(t)
    BY <2>2, <2>4 DEF WriteMessage, SemInv
  <2> QED
    BY <2>1, <2>3, <2>4
<1>2. ASSUME pipe_sem' = pipe_sem, \A t \in Threads : phase'[t] = "write" => phase[t] = "write",
             async_sem' = IF at'["serial"] = "post" THEN 0 ELSE 1
      PROVE  SemInv'
  BY <1>2 DEF SemInv
<1>3. CASE Moves /\ ~ \E t \in Threads : PipeSemWait(t)
  <2>1. UNCHANGED <<pipe_sem, phase>>
    BY <1>3 DEF Moves, OpenNew, OpenShared, OpenUnit, OpenWait, CloseUnit, ResetUnit, ResetClose, ResetSync, ResetClosed,
       SignalPost, SerialEnds, DevStart, pipe
  <2>2. async_sem' = IF at'["serial"] = "post" THEN 0 ELSE 1
    <3>1. CASE OpenNew
      BY <3>1 DEF OpenNew, OpenUnit, At, PlaceInv, SemInv, list
    <3>4. CASE OpenShared
      BY <3>4 DEF OpenShared, OpenUnit, At, SemInv, list
    <3>2. CASE SignalPost \/ SerialEnds
      BY <3>2 DEF SignalPost, SerialEnds, At, Go, SemInv, list
    <3>3. CASE OpenWait \/ CloseUnit \/ ResetUnit \/ ResetClose \/ ResetSync \/ ResetClosed \/ DevStart
      BY <3>3 DEF OpenWait, CloseUnit, ResetUnit, ResetClose, ResetSync, ResetClosed, DevStart, Go, SemInv, list
    <3> QED
      BY <1>3, <3>1, <3>2, <3>3, <3>4 DEF Moves
  <2> QED
    BY <1>2, <2>1, <2>2
<1>4. CASE Aborts
  <2>1. at'["serial"] = at["serial"]
    BY <1>4, AbortSteps DEF Finds
  <2> QED
    BY <1>2, <1>4, <2>1, AbortSteps DEF SemInv
<1>5. CASE Marks
  BY <1>2, <1>5, MarkSteps DEF SemInv
<1>6. CASE Signals
  <2>1. \E m : Starts("serial", m, "post")
    BY <1>6, SignalSteps
  <2> QED
    BY <1>2, <1>6, <2>1, SignalSteps DEF Starts, At, SemInv
<1>7. CASE Quits \/ Begins
  <2>1. \E m, place : Starts("cpu", m, place)
    BY <1>7 DEF Quits, CloseSend, ResetSend, Begins, BeginIO, Send, Go, Starts
  <2>2. async_sem' = async_sem
    BY <1>7 DEF Quits, CloseSend, ResetSend, Begins, BeginIO, list
  <2> QED
    BY <1>2, <2>1, <2>2 DEF Starts, SemInv
<1>8. CASE DevSteps
  <2>1. /\ UNCHANGED <<async_sem, pipe_sem, phase>>
        /\ at'["serial"] = at["serial"]
    BY <1>8 DEF DevSteps, DevRead, DevLookup, DevReply, DevRelease, DevIO, DevAdd, Go, list, pipe
  <2> QED
    BY <1>2, <2>1 DEF SemInv
<1> QED
  BY <1>1, <1>3, <1>4, <1>5, <1>6, <1>7, <1>8, Steps DEF Writes

(* sync_sem.  Other steps than these keep it, the closes and the places    *)
(* that it depends on.                                                     *)
SameSync ==
  /\ UNCHANGED <<sync_sem, closes>>
  /\ \/ at'["cpu"] = at["cpu"]
     \/ /\ at["cpu"] \in {"run", "abort", "reset", "resetmark", "resetclose"}
        /\ at'["cpu"] \in {"run", "abort", "reset", "resetmark", "resetclose", "sync"}
     \/ at["cpu"] = "close" /\ at'["cpu"] = "closed"
  /\ at'["dev"] = at["dev"] \/ (at["dev"] \notin {"start", "off"} /\ at'["dev"] \notin {"start", "off"})

LEMMA SameSyncKeeps ==
  ASSUME UnitInv, SameSync PROVE SyncInv' /\ FirstOpenInv'
<1>1. Opens' = Opens
  BY DEF SameSync, Opens
<1>2. SyncInv'
  BY <1>1 DEF UnitInv, SameSync, SyncInv, Ended, DevDue, OpenDue
<1>3. FirstOpenInv'
  <2>1. FirstOpenInv /\ SyncInv
    BY DEF UnitInv
  <2> QED
    BY <2>1 DEF SameSync, SyncInv, Ended, FirstOpenInv, DevDue
<1> QED
  BY <1>2, <1>3

LEMMA MostSync ==
  ASSUME UnitInv, \/ Aborts \/ Marks \/ Signals \/ Quits \/ Begins \/ Writes
                  \/ DevSteps /\ ~ DevRead
  PROVE  SameSync
<1> USE ThreadFacts DEF UnitInv
<1>1. CASE Aborts
  <2>1. PICK r : \/ At("cpu", "run") /\ Finds("cpu", r, "abort", "run")
                 \/ At("cpu", "reset") /\ Finds("cpu", r, "resetmark", "reset")
                 \/ At("dev", "flood") /\ Finds("dev", r, "floodmark", "flood")
    BY <1>1, AbortSteps
  <2> QED
    BY <1>1, <2>1, AbortSteps DEF At, Finds, SameSync
<1>2. CASE Marks
  BY <1>2, MarkSteps DEF SameSync
<1>3. CASE Signals
  <2>1. \E m : Starts("serial", m, "post")
    BY <1>3, SignalSteps
  <2> QED
    BY <1>3, <2>1, SignalSteps DEF Starts, SameSync
<1>4. CASE Quits
  BY <1>4 DEF Quits, CloseSend, ResetSend, Send, At, Go, SameSync, amiga
<1>5. CASE Begins
  BY <1>5 DEF Begins, BeginIO, Send, At, Go, SameSync
<1>6. CASE DevSteps /\ ~ DevRead
  BY <1>6 DEF DevSteps, DevLookup, DevReply, DevRelease, DevIO, DevAdd, At, Go, SameSync, amiga
<1>7. CASE Writes
  BY <1>7 DEF Writes, WriteMessage, SameSync, amiga
<1> QED
  BY <1>1, <1>2, <1>3, <1>4, <1>5, <1>6, <1>7

LEMMA SyncKept == ASSUME UnitInv, Next PROVE SyncInv' /\ FirstOpenInv'
<1>0. /\ closes \in Nat /\ MaxOpens \in Nat /\ SyncInv /\ FirstOpenInv /\ sync_sem \in Nat
      /\ Opens \in Nat /\ DevDue \in 0 .. 2 /\ OpenDue \in 0 .. 1
  <2>1. closes \in Nat /\ MaxOpens \in Nat /\ SyncInv /\ FirstOpenInv
    BY DeviceAssumption DEF UnitInv, Types
  <2>2. sync_sem \in Nat
    BY <2>1 DEF SyncInv, Ended
  <2>3. Opens \in Nat
    BY <2>1 DEF Opens
  <2>4. DevDue \in 0 .. 2 /\ OpenDue \in 0 .. 1
    BY DEF DevDue, OpenDue
  <2> QED
    BY <2>1, <2>2, <2>3, <2>4
<1>1. CASE DevSteps /\ DevRead
  <2>1. /\ UNCHANGED closes /\ at'["cpu"] = at["cpu"] /\ at["dev"] = "read" /\ ~ Ended
        /\ \/ at'["dev"] = "off" /\ sync_sem' = sync_sem + 1
           \/ at'["dev"] = "lookup" /\ sync_sem' = sync_sem
    BY <1>1, ThreadFacts DEF UnitInv, DevSteps, DevRead, At, Go, amiga
  <2>2. Opens' = Opens
    BY <2>1 DEF Opens
  <2>3. SyncInv'
    <3>1. sync_sem' + DevDue' = sync_sem + DevDue /\ OpenDue' = OpenDue /\ sync_sem' \in Nat
      <4>1. OpenDue' = OpenDue
        BY <2>1, <2>2 DEF OpenDue
      <4>2. sync_sem' + DevDue' = sync_sem + DevDue /\ sync_sem' \in Nat
        BY <1>0, <2>1 DEF DevDue
      <4> QED
        BY <4>1, <4>2
    <3>2. DevDue' \in 0 .. 2
      BY DEF DevDue
    <3> QED
      BY <1>0, <2>1, <2>2, <3>1, <3>2 DEF SyncInv, Ended
  <2>4. FirstOpenInv'
    BY <1>0, <2>1 DEF FirstOpenInv, Ended, DevDue
  <2> QED
    BY <2>3, <2>4
<1>2. CASE OpenNew
  <2>1. /\ at["cpu"] = "closed" /\ at["dev"] = "off" /\ closes < MaxOpens
        /\ sync_sem' = (IF closes = 0 THEN 0 ELSE sync_sem + 1) /\ closes' = closes
        /\ at'["cpu"] = "open" /\ at'["dev"] = "start"
    BY <1>2, ThreadFacts DEF UnitInv, OpenNew, OpenUnit, At, amiga
  <2>2. Opens = closes /\ Opens' = closes + 1
    BY <1>0, <2>1 DEF Opens
  <2>3. SyncInv'
    BY <1>0, <2>1, <2>2 DEF SyncInv, Ended, DevDue, OpenDue
  <2>4. FirstOpenInv'
    BY <1>0, <2>1 DEF FirstOpenInv, Ended, DevDue
  <2> QED
    BY <2>3, <2>4
<1>9. CASE OpenShared
  <2>1. /\ at["cpu"] = "closed" /\ at["dev"] # "off" /\ closes < MaxOpens
        /\ sync_sem' = (IF closes = 0 THEN 0 ELSE sync_sem + 1) /\ closes' = closes
        /\ at'["cpu"] = "shared" /\ at'["dev"] = at["dev"]
    BY <1>9, ThreadFacts DEF UnitInv, OpenShared, OpenUnit, At, amiga
  <2>2. closes # 0
    BY <1>0, <2>1 DEF FirstOpenInv
  <2>3. /\ Opens = closes /\ sync_sem + DevDue + 1 <= 2 * closes /\ DevDue \in 1 .. 2
        /\ sync_sem \in Nat
    BY <1>0, <2>1, <2>2 DEF SyncInv, Ended, Opens, DevDue, OpenDue
  <2>4. SyncInv'
    BY <1>0, <2>1, <2>2, <2>3 DEF SyncInv, Ended
  <2>5. FirstOpenInv'
    BY <2>1, <2>2 DEF FirstOpenInv
  <2> QED
    BY <2>4, <2>5
<1>3. CASE OpenWait
  <2>1. /\ at["cpu"] = "open" /\ sync_sem > 0 /\ sync_sem' = sync_sem - 1 /\ closes' = closes
        /\ at'["cpu"] = "run" /\ at'["dev"] = at["dev"]
    BY <1>3, ThreadFacts DEF UnitInv, OpenWait, At, Go, amiga
  <2>2. Opens = closes + 1 /\ Opens' = closes + 1
    BY <1>0, <2>1 DEF Opens
  <2>3. SyncInv'
    BY <1>0, <2>1, <2>2 DEF SyncInv, Ended, DevDue, OpenDue
  <2>4. FirstOpenInv'
    BY <1>0, <2>1 DEF FirstOpenInv, Ended, DevDue
  <2> QED
    BY <2>3, <2>4
<1>4. CASE CloseUnit
  <2>1. /\ at["cpu"] = "run" /\ closes' = closes + 1 /\ at'["cpu"] = "close"
        /\ sync_sem' = sync_sem /\ at'["dev"] = at["dev"]
    BY <1>4, ThreadFacts DEF UnitInv, CloseUnit, At, Go
  <2>2. Opens = closes + 1 /\ Opens' = closes + 1
    BY <1>0, <2>1 DEF Opens
  <2>3. SyncInv'
    BY <1>0, <2>1, <2>2 DEF SyncInv, Ended, DevDue, OpenDue
  <2>4. FirstOpenInv'
    BY <1>0, <2>1 DEF FirstOpenInv, Ended, DevDue
  <2> QED
    BY <2>3, <2>4
<1>5. CASE ResetSync \/ ResetClosed
  <2>1. /\ at'["cpu"] = "over" /\ closes' = closes /\ at'["dev"] = at["dev"]
        /\ \/ at["cpu"] = "sync" /\ sync_sem > 0 /\ sync_sem' = sync_sem - 1
           \/ at["cpu"] = "closed" /\ sync_sem' = sync_sem
    BY <1>5, ThreadFacts DEF UnitInv, ResetSync, ResetClosed, At, Go, amiga
  <2>2. /\ Opens \in Nat /\ Opens <= MaxOpens /\ sync_sem \in Nat /\ sync_sem <= 2 * Opens
    BY <1>0, <2>1 DEF SyncInv, Ended
  <2>3. SyncInv'
    BY <1>0, <2>1, <2>2 DEF SyncInv, Ended
  <2>4. FirstOpenInv'
    BY <1>0, <2>1 DEF FirstOpenInv, Ended, DevDue
  <2> QED
    BY <2>3, <2>4
<1>6. CASE DevStart /\ ~ Ended
  <2>1. /\ at["dev"] = "start" /\ at'["dev"] = "read" /\ at'["cpu"] = at["cpu"] /\ closes' = closes
        /\ sync_sem' = sync_sem + 1
    BY <1>6, ThreadFacts DEF UnitInv, DevStart, At, Go, amiga
  <2>2. Opens' = Opens
    BY <2>1 DEF Opens
  <2>3. SyncInv'
    <3>1. sync_sem' + DevDue' = sync_sem + DevDue /\ OpenDue' = OpenDue /\ sync_sem' \in Nat
      <4>1. OpenDue' = OpenDue
        BY <2>1, <2>2 DEF OpenDue
      <4>2. sync_sem' + DevDue' = sync_sem + DevDue /\ sync_sem' \in Nat
        BY <1>0, <2>1 DEF DevDue
      <4> QED
        BY <4>1, <4>2
    <3>2. DevDue' \in 0 .. 2
      BY DEF DevDue
    <3> QED
      BY <1>0, <1>6, <2>1, <2>2, <3>1, <3>2 DEF SyncInv, Ended
  <2>4. FirstOpenInv'
    BY <1>0, <1>6, <2>1 DEF FirstOpenInv, Ended, DevDue
  <2> QED
    BY <2>3, <2>4
<1>7. CASE ResetUnit \/ ResetClose \/ SignalPost \/ SerialEnds \/ \E t \in Threads : PipeSemWait(t)
  <2>1. SameSync
    BY <1>7, ThreadFacts DEF UnitInv, ResetUnit, ResetClose, SignalPost, SerialEnds, PipeSemWait, At, Go, SameSync, amiga
  <2> QED
    BY <2>1, SameSyncKeeps
<1>8. CASE Aborts \/ Marks \/ Signals \/ Quits \/ Begins \/ Writes \/ (DevSteps /\ ~ DevRead)
  BY <1>8, MostSync, SameSyncKeeps DEF UnitInv
<1> QED
  BY <1>1, <1>2, <1>3, <1>4, <1>5, <1>6, <1>7, <1>8, <1>9, Steps DEF Moves

-----------------------------------------------------------------------------
(* Messages in hand. *)
LEMMA QuitIsNoCopy == Quit \notin Copies
  BY DEF Quit, Copy, Copies, AllKinds, Async

LEMMA HandKept == ASSUME UnitInv, Next PROVE HandInv'
<1> USE ThreadFacts DEF UnitInv
<1>0. /\ Len(requests) \in Nat /\ DOMAIN requests = 1 .. Len(requests)
      /\ requests \in Seq(Messages) /\ DOMAIN <<>> = {}
  BY LenProperties DEF Types
<1>1. ASSUME UNCHANGED <<requests, msg>>,
             \A t \in Threads : at'[t] \in Holding => at[t] \in Holding,
             \A t \in Threads : phase'[t] # "none" /\ at'[t] \notin {"closed", "sync"} =>
               at[t] \in Holding \/ (phase[t] # "none" /\ at[t] \notin {"closed", "sync"}),
             at'["serial"] # "off" => at["serial"] # "off"
      PROVE  HandInv'
  BY <1>1 DEF HandInv
<1>2. CASE OpenNew
  BY <1>0, <1>2 DEF OpenNew, OpenUnit, At, HandInv, PlaceInv, Holding
<1>12. CASE OpenShared
  BY <1>0, <1>12 DEF OpenShared, OpenUnit, At, HandInv, PlaceInv, Holding
<1>3. CASE Moves /\ ~ OpenNew /\ ~ OpenShared
  <2>1. CASE OpenWait \/ CloseUnit \/ ResetUnit \/ ResetClose \/ DevStart \/ SignalPost \/ SerialEnds
    BY <1>1, <2>1 DEF OpenWait, CloseUnit, ResetUnit, ResetClose, DevStart, SignalPost, SerialEnds,
       At, Go, Holding, pipe
  <2>2. CASE ResetSync \/ ResetClosed
    BY <1>0, <2>2 DEF ResetSync, ResetClosed, At, Go, Holding, HandInv, PlaceInv
  <2>3. CASE \E t \in Threads : PipeSemWait(t)
    BY <1>1, <2>3 DEF PipeSemWait
  <2> QED
    BY <1>3, <2>1, <2>2, <2>3 DEF Moves
<1>4. CASE Aborts
  <2>1. PICK r : \/ At("cpu", "run") /\ Finds("cpu", r, "abort", "run")
                 \/ At("cpu", "reset") /\ Finds("cpu", r, "resetmark", "reset")
                 \/ At("dev", "flood") /\ Finds("dev", r, "floodmark", "flood")
    BY <1>4, AbortSteps
  <2>2. InList(r) => ar[Entry(r)].copy \in Copies
    BY EntryIsListed, Elements DEF Entries
  <2> QED
    BY <1>4, <2>1, <2>2, AbortSteps DEF At, Finds, HandInv, Holding
<1>5. CASE Marks
  BY <1>1, <1>5, MarkSteps DEF Holding
<1>6. CASE Signals
  <2>1. PICK i \in 1 .. Len(ar) : Starts("serial", ar[i].copy, "post")
    BY <1>6, SignalSteps
  <2>2. ar[i].copy \in Copies
    BY <2>1, Elements DEF Entries
  <2>3. at["serial"] = "idle"
    BY <1>6, SignalSteps DEF At
  <2> QED
    BY <2>1, <2>2, <2>3 DEF Starts, HandInv, Holding
<1>7. CASE Quits
  <2>1. /\ UNCHANGED requests /\ phase' = [phase EXCEPT !["cpu"] = "wait"]
        /\ msg' = [msg EXCEPT !["cpu"] = Quit]
        /\ \/ at' = [at EXCEPT !["cpu"] = "closed"]
           \/ at' = [at EXCEPT !["cpu"] = "sync"]
    BY <1>7 DEF Quits, CloseSend, ResetSend, Send, Go
  <2> QED
    BY <2>1 DEF HandInv, Holding
<1>8. CASE Begins
  <2>1. PICK r \in Requests, kind \in Kinds : BeginIO(r, kind)
    BY <1>8 DEF Begins
  <2>2. /\ UNCHANGED requests /\ phase' = [phase EXCEPT !["cpu"] = "wait"]
        /\ msg' = [msg EXCEPT !["cpu"] = Copy(r, io[r].begun + 1, kind)]
        /\ at' = [at EXCEPT !["cpu"] = "run"]
    BY <2>1 DEF BeginIO, Send, Go
  <2>3. Copy(r, io[r].begun + 1, kind) \in Copies
    <3>1. io[r].begun + 1 \in Nat \ {0} /\ kind \in AllKinds
      BY DeviceAssumption DEF Types
    <3> QED
      BY <3>1 DEF Copy, Copies
  <2> QED
    BY <2>2, <2>3 DEF HandInv, Holding
<1>9. CASE DevSteps /\ ~ DevRead
  BY <1>1, <1>9 DEF DevSteps, DevLookup, DevReply, DevRelease, DevIO, DevAdd, At, Go, Holding, pipe
<1>10. CASE DevRead
  <2>1. /\ Head(requests) = requests[1] /\ Head(requests) \in Messages
        /\ Len(Tail(requests)) = Len(requests) - 1 /\ DOMAIN Tail(requests) = 1 .. Len(requests) - 1
        /\ \A i \in 1 .. Len(requests) - 1 : Tail(requests)[i] = requests[i + 1]
    <3>1. requests # <<>>
      BY <1>10 DEF DevRead
    <3> QED
      BY <1>0, <3>1, HeadTailProperties, LenProperties
  <2>2. /\ requests' = Tail(requests) /\ msg' = [msg EXCEPT !["dev"] = Head(requests)]
        /\ at["dev"] = "read" /\ phase' = phase
        /\ \/ Head(requests) = Quit /\ at' = [at EXCEPT !["dev"] = "off"]
           \/ Head(requests) # Quit /\ at' = [at EXCEPT !["dev"] = "lookup"]
    BY <1>10 DEF DevRead, At, Go
  <2>3. phase["dev"] = "none"
    BY <1>10 DEF DevRead, At
  <2> QED
    BY <1>0, <2>1, <2>2, <2>3 DEF HandInv, Holding, Messages
<1>11. CASE Writes
  <2>1. PICK t \in Threads : WriteMessage(t)
    BY <1>11 DEF Writes
  <2>2. /\ requests' = Append(requests, msg[t]) /\ phase' = [phase EXCEPT ![t] = "none"]
        /\ phase[t] = "write" /\ UNCHANGED <<at, msg>>
    BY <2>1 DEF WriteMessage
  <2>3. DOMAIN requests' = 1 .. Len(requests) + 1
        /\ \A i \in DOMAIN requests' : requests'[i] = IF i <= Len(requests) THEN requests[i] ELSE msg[t]
    BY <1>0, <2>2, AppendProperties, LenProperties
  <2>4. at["serial"] # "off" => msg[t] # Quit
    <3>1. at["serial"] # "off" => at[t] \notin {"closed", "sync"}
      BY DEF PlaceInv, SerialPlaces, DevPlaces
    <3> QED
      BY <2>2, <3>1, QuitIsNoCopy DEF HandInv
  <2> QED
    BY <1>0, <2>2, <2>3, <2>4 DEF HandInv
<1> QED
  BY <1>2, <1>3, <1>4, <1>5, <1>6, <1>7, <1>8, <1>9, <1>10, <1>11, <1>12, Steps

(* dev_thread and the list.  InNext is InList of the next state, for a       *)
(* request named in this one.                                              *)
InNext(r) == \E i \in DOMAIN ar' : ar'[i].copy.r = r

LEMMA ListKept ==
  ASSUME Types, NEW e \in 1 .. Len(ar), ar' = [ar EXCEPT ![e].ready = TRUE]
  PROVE  \A r : InNext(r) <=> InList(r)
<1>1. /\ Len(ar') = Len(ar) /\ ar' \in Seq(Entries)
      /\ \A i \in 1 .. Len(ar) : ar'[i].copy = ar[i].copy
  BY Marked
<1>2. DOMAIN ar' = 1 .. Len(ar) /\ DOMAIN ar = 1 .. Len(ar)
  BY <1>1, Elements, LenProperties
<1> QED
  BY <1>1, <1>2 DEF InList, InNext

LEMMA DevKept == ASSUME UnitInv, Next PROVE DevInv'
<1> USE ThreadFacts DEF UnitInv, Ended
<1>1. ASSUME at'["dev"] = at["dev"] \/ at'["dev"] \notin {"io", "add", "reply", "release"},
             at'["dev"] = at["dev"] => msg'["dev"] = msg["dev"],
             at'["cpu"] = at["cpu"] \/ ~ Ended,
             \/ \A r : InNext(r) <=> InList(r)
             \/ Ended' /\ \A r : ~ InNext(r)
      PROVE  DevInv'
  BY <1>1 DEF DevInv, Ended, InList, InNext
<1>2. UNCHANGED ar => \A r : InNext(r) <=> InList(r)
  BY DEF InList, InNext
<1>3. DOMAIN <<>> = {}
  OBVIOUS
<1>4. CASE Moves
  <2>1. CASE OpenNew
    BY <1>2, <2>1 DEF OpenNew, OpenUnit, list, DevInv, Ended, InList, InNext
  <2>5. CASE OpenShared
    BY <1>1, <1>2, <2>5 DEF OpenShared, OpenUnit, At, list, Ended
  <2>2. CASE ResetSync \/ ResetClosed
    <3>1. \A r : ~ InNext(r)
      BY <1>3, <2>2 DEF ResetSync, ResetClosed, InNext
    <3> QED
      BY <1>1, <2>2, <3>1 DEF ResetSync, ResetClosed, At, Go
  <2>3. CASE OpenWait \/ CloseUnit \/ ResetUnit \/ ResetClose
    BY <1>1, <1>2, <2>3 DEF OpenWait, CloseUnit, ResetUnit, ResetClose, At, Go, list
  <2>4. CASE DevStart \/ SignalPost \/ SerialEnds \/ \E t \in Threads : PipeSemWait(t)
    BY <1>1, <1>2, <2>4 DEF DevStart, SignalPost, SerialEnds, PipeSemWait, At, Go, list
  <2> QED
    BY <1>4, <2>1, <2>2, <2>3, <2>4, <2>5 DEF Moves
<1>5. CASE Aborts
  <2>1. PICK r : \/ At("cpu", "run") /\ Finds("cpu", r, "abort", "run")
                 \/ At("cpu", "reset") /\ Finds("cpu", r, "resetmark", "reset")
                 \/ At("dev", "flood") /\ Finds("dev", r, "floodmark", "flood")
    BY <1>5, AbortSteps
  <2>2. \A q : InNext(q) <=> InList(q)
    <3>1. CASE InList(r)
      BY <2>1, <3>1, EntryIsListed, ListKept DEF Finds
    <3>2. CASE ~ InList(r)
      BY <1>2, <2>1, <3>2 DEF Finds
    <3> QED
      BY <3>1, <3>2
  <2>3. at'["dev"] = at["dev"] \/ at'["dev"] \notin {"io", "add", "reply", "release"}
    BY <2>1 DEF Finds
  <2>4. ~ Ended \/ at'["cpu"] = at["cpu"]
    BY <2>1 DEF Finds, At
  <2>5. at'["dev"] = at["dev"] => msg'["dev"] = msg["dev"]
    BY <2>1 DEF Finds, At
  <2> QED
    BY <1>1, <2>2, <2>3, <2>4, <2>5
<1>6. CASE Marks
  BY <1>1, <1>2, <1>6, MarkSteps
<1>7. CASE Signals
  <2>1. PICK i \in 1 .. Len(ar) : ar' = [ar EXCEPT ![i].ready = TRUE] /\ Starts("serial", ar[i].copy, "post")
    BY <1>7, SignalSteps
  <2>2. \A q : InNext(q) <=> InList(q)
    BY <2>1, ListKept
  <2> QED
    BY <1>1, <2>1, <2>2 DEF Starts
<1>8. CASE Quits \/ Begins
  <2>1. UNCHANGED ar /\ ~ Ended /\ \E m, p : Starts("cpu", m, p)
    BY <1>8 DEF Quits, CloseSend, ResetSend, Begins, BeginIO, Send, Go, Starts, At, list
  <2> QED
    BY <1>1, <1>2, <2>1 DEF Starts
<1>9. CASE Writes
  BY <1>1, <1>2, <1>9 DEF Writes, WriteMessage, list
<1>10. CASE DevSteps
  <2>1. CASE DevRead
    BY <2>1 DEF DevRead, Go, DevInv, Ended
  <2>2. CASE DevLookup
    <3>1. CASE InList(msg["dev"].r)
      <4>1. ar' = [ar EXCEPT ![Entry(msg["dev"].r)].ready = TRUE]
            /\ at' = [at EXCEPT !["dev"] = "reply"] /\ msg' = msg /\ at["dev"] = "lookup"
        BY <2>2, <3>1 DEF DevLookup, Go, At
      <4>2. InNext(msg["dev"].r)
        BY <3>1, <4>1, EntryIsListed, ListKept
      <4>3. msg'["dev"] \in Copies /\ msg'["dev"] = msg["dev"]
        BY <4>1 DEF HandInv, Holding
      <4> QED
        BY <4>1, <4>2, <4>3 DEF DevInv, Ended, InList, InNext
    <3>2. CASE ~ InList(msg["dev"].r)
      <4>1. ar' = ar /\ at' = [at EXCEPT !["dev"] = "io"] /\ msg' = msg
        BY <2>2, <3>2 DEF DevLookup, Go
      <4> QED
        BY <3>2, <4>1 DEF DevInv, Ended, InList
    <3> QED
      BY <3>1, <3>2
  <2>3. CASE DevReply
    <3>1. at' = [at EXCEPT !["dev"] = "release"] /\ UNCHANGED <<ar, msg>> /\ at["dev"] = "reply"
      BY <2>3 DEF DevReply, Go, At, list
    <3> QED
      BY <1>2, <3>1 DEF DevInv, Ended, InList, InNext
  <2>4. CASE DevRelease \/ DevAdd
    BY <2>4 DEF DevRelease, DevAdd, Go, DevInv, Ended
  <2>5. CASE DevIO
    <3>1. /\ UNCHANGED <<ar, msg>> /\ at["dev"] = "io"
          /\ \/ at' = [at EXCEPT !["dev"] = "add"] /\ msg["dev"].kind \in Async
             \/ at' = [at EXCEPT !["dev"] = "read"]
             \/ at' = [at EXCEPT !["dev"] = "flood"]
      BY <2>5 DEF DevIO, Go, At, list
    <3> QED
      BY <1>2, <3>1 DEF DevInv, Ended, InList, InNext
  <2> QED
    BY <1>10, <2>1, <2>2, <2>3, <2>4, <2>5 DEF DevSteps
<1> QED
  BY <1>4, <1>5, <1>6, <1>7, <1>8, <1>9, <1>10, Steps

-----------------------------------------------------------------------------
LEMMA UnitInductive == ASSUME UnitInv, [Next]_vars PROVE UnitInv'
<1>1. CASE Next
  <2>1. PlaceInv'
    BY <1>1, MovePlaces, OtherPlaces, Steps
  <2>2. Types' /\ SemInv' /\ SyncInv' /\ FirstOpenInv' /\ DevInv' /\ HandInv'
    BY <1>1, TypesKept, SemKept, SyncKept, DevKept, HandKept
  <2> QED
    BY <2>1, <2>2 DEF UnitInv
<1>2. CASE UNCHANGED vars
  <2>1. UNCHANGED <<io, closes, aborts, ar, async_sem, requests, pipe_sem, phase, sync_sem, at, msg,
                    freed, touched, again, aborted, missed>>
    BY <1>2 DEF vars, amiga, list, pipe, hist
  <2>2. Types' /\ PlaceInv' /\ SemInv'
    BY <2>1 DEF UnitInv, Types, PlaceInv, SemInv
  <2>3. SyncInv' /\ FirstOpenInv'
    BY <2>1 DEF UnitInv, SyncInv, Ended, FirstOpenInv, Opens, DevDue, OpenDue
  <2>4. DevInv' /\ HandInv'
    BY <2>1 DEF UnitInv, DevInv, Ended, HandInv, InList
  <2> QED
    BY <2>2, <2>3, <2>4 DEF UnitInv
<1> QED
  BY <1>1, <1>2

(* The threads, the list and the semaphores of a unit stay as UnitInv has  *)
(* them, whatever its requests are.                                        *)
THEOREM UnitInvariant == Spec => []UnitInv
<1>1. Init => UnitInv
  BY Initial
<1>2. UnitInv /\ [Next]_vars => UnitInv'
  BY UnitInductive
<1> QED
  BY <1>1, <1>2, PTL DEF Spec

(* The type invariant: above all that sync_sem is posted at most twice for *)
(* each opening, and the semaphores of list and pipe never twice.          *)
THEOREM TypeCorrect == Spec => []TypeOK
<1>1. ASSUME UnitInv PROVE TypeOK
  <2>1. async_sem \in 0 .. 1 /\ pipe_sem \in 0 .. 1
    BY <1>1 DEF UnitInv, SemInv
  <2>2. sync_sem \in 0 .. 2 * MaxOpens
    <3>1. MaxOpens \in Nat /\ closes \in Nat /\ sync_sem \in Nat /\ SyncInv
      BY <1>1, DeviceAssumption DEF UnitInv, Types, SyncInv, Ended
    <3>2. Opens \in Nat /\ DevDue \in 0 .. 2 /\ OpenDue \in 0 .. 1
      BY <3>1 DEF Opens, DevDue, OpenDue
    <3>3. CASE Ended
      BY <3>1, <3>3 DEF SyncInv, Ended
    <3>4. CASE ~ Ended
      BY <3>1, <3>2, <3>4 DEF SyncInv, Ended
    <3> QED
      BY <3>3, <3>4
  <2> QED
    BY <1>1, <2>1, <2>2 DEF TypeOK, UnitInv, Types
<1> QED
  BY <1>1, UnitInvariant, PTL

(* A reset of a unit that was never closed waits until dev_thread has      *)
(* ended before it clears the unit.                                        *)
THEOREM ResetWaitsForThreadAlways == Spec => []ResetWaitsForThread
<1>1. UnitInv => ResetWaitsForThread
  BY DEF UnitInv, FirstOpenInv, Ended, ResetWaitsForThread
<1> QED
  BY <1>1, UnitInvariant, PTL

-----------------------------------------------------------------------------
(* A message about r is with a thread, or in the pipe. *)
Has(t, r) ==
  (at[t] \in Holding \/ phase[t] # "none") /\ msg[t].r = r /\ msg[t].n > 0
Piped(i, r) == requests[i].r = r /\ requests[i].n > 0
InHand(r) == (\E t \in Threads : Has(t, r)) \/ \E i \in DOMAIN requests : Piped(i, r)
Listed(i, r) == ar[i].copy.r = r

OnceInv(r) ==
  /\ \A t, u \in Threads : Has(t, r) /\ Has(u, r) => t = u
  /\ \A i, j \in DOMAIN requests : Piped(i, r) /\ Piped(j, r) => i = j
  /\ \A t \in Threads : \A i \in DOMAIN requests : ~ (Has(t, r) /\ Piped(i, r))
  /\ \A i, j \in DOMAIN ar : Listed(i, r) /\ Listed(j, r) => i = j

(* It is about the sending that waits for its reply. *)
Current(n, r) == Outstanding(r) /\ n = io[r].begun
Old(n, r)     == n <= io[r].begun /\ (Outstanding(r) => n < io[r].begun)
MessageInv(r) ==
  /\ \A t \in Threads : Has(t, r) => Current(msg[t].n, r)
  /\ \A i \in DOMAIN requests : Piped(i, r) => Current(requests[i].n, r)

(* An entry of the list waits for its reply; while it is not marked ready, *)
(* nobody has a message about it.  Only between reply and removal it is    *)
(* old, and the program may have sent the request again.                   *)
EntryInv(r) ==
  \A i \in DOMAIN ar : Listed(i, r) =>
    IF at["dev"] = "release" /\ msg["dev"].r = r
      THEN ar[i].ready /\ Old(ar[i].copy.n, r)
      ELSE Current(ar[i].copy.n, r) /\ (~ ar[i].ready => ~ InHand(r))

CountInv(r) == io[r].replied <= io[r].begun /\ io[r].begun <= io[r].replied + 1
FreedInv(r) == \A n \in Nat : (<<r, n>> \in freed => Old(n, r)) /\ <<r, n>> \notin touched

RequestInv(r) == OnceInv(r) /\ MessageInv(r) /\ EntryInv(r) /\ CountInv(r) /\ FreedInv(r)

IInv == UnitInv /\ \A r \in Requests \ again : RequestInv(r)

-----------------------------------------------------------------------------
(* A step that takes nothing on about r: every message and entry about it  *)
(* was there before, messages in the pipe d places behind.                 *)
LEMMA Frame ==
  ASSUME NEW r, NEW d \in Nat, RequestInv(r), DOMAIN requests' \subseteq Nat, io'[r] = io[r],
         \A t \in Threads : Has(t, r)' => Has(t, r) /\ msg'[t] = msg[t],
         \A i \in DOMAIN requests' : Piped(i, r)' =>
           i + d \in DOMAIN requests /\ requests'[i] = requests[i + d],
         \A i \in DOMAIN ar' : Listed(i, r)' =>
           \E j \in DOMAIN ar : /\ Listed(j, r) /\ ar'[i].copy = ar[j].copy
                                /\ ar[j].ready => ar'[i].ready,
         \A i, j \in DOMAIN ar' : Listed(i, r)' /\ Listed(j, r)' => i = j,
         InNext(r) =>
           (at'["dev"] = "release" /\ msg'["dev"].r = r <=> at["dev"] = "release" /\ msg["dev"].r = r),
         \A n \in Nat : (<<r, n>> \in freed' => Old(n, r)) /\ <<r, n>> \notin touched'
  PROVE  RequestInv(r)'
<1>1. \A n : (Current(n, r) => Current(n, r)') /\ (Old(n, r) => Old(n, r)')
  BY DEF Current, Old, Outstanding
<1>2. \A i \in DOMAIN requests' : Piped(i, r)' => Piped(i + d, r)
  BY DEF Piped
<1>3. InHand(r)' => InHand(r)
  BY <1>2 DEF InHand
<1>4. OnceInv(r)'
  <2>1. \A t, u \in Threads : Has(t, r)' /\ Has(u, r)' => t = u
    BY DEF RequestInv, OnceInv
  <2>2. \A i, j \in DOMAIN requests' : Piped(i, r)' /\ Piped(j, r)' => i = j
    <3> SUFFICES ASSUME NEW i \in DOMAIN requests', NEW j \in DOMAIN requests', Piped(i, r)', Piped(j, r)'
                 PROVE  i = j
      OBVIOUS
    <3>1. i + d = j + d /\ i \in Nat /\ j \in Nat
      BY <1>2 DEF RequestInv, OnceInv
    <3> QED
      BY <3>1
  <2>3. \A t \in Threads : \A i \in DOMAIN requests' : ~ (Has(t, r)' /\ Piped(i, r)')
    BY <1>2 DEF RequestInv, OnceInv
  <2> QED
    BY <2>1, <2>2, <2>3 DEF OnceInv
<1>5. MessageInv(r)'
  <2>1. \A t \in Threads : Has(t, r)' => io[r].begun > io[r].replied /\ msg'[t].n = io[r].begun
    BY DEF RequestInv, MessageInv, Current, Outstanding
  <2>2. \A i \in DOMAIN requests' : Piped(i, r)' =>
          io[r].begun > io[r].replied /\ requests'[i].n = io[r].begun
    BY <1>2 DEF RequestInv, MessageInv, Current, Outstanding
  <2> QED
    BY <2>1, <2>2 DEF MessageInv, Current, Outstanding
<1>6. EntryInv(r)'
  BY <1>3 DEF RequestInv, EntryInv, InNext, Listed, Current, Old, Outstanding
<1>7. CountInv(r)' /\ FreedInv(r)'
  BY <1>1 DEF RequestInv, CountInv, FreedInv
<1> QED
  BY <1>4, <1>5, <1>6, <1>7 DEF RequestInv

(* The list before and after a step that adds nothing to it.               *)
LEMMA ListFrame ==
  ASSUME Types, NEW r, RequestInv(r),
         \/ UNCHANGED ar \/ ar' = <<>>
         \/ \E e \in 1 .. Len(ar) : ar' = [ar EXCEPT ![e].ready = TRUE]
  PROVE  /\ \A i \in DOMAIN ar' : Listed(i, r)' =>
              \E j \in DOMAIN ar : /\ Listed(j, r) /\ ar'[i].copy = ar[j].copy
                                   /\ ar[j].ready => ar'[i].ready
         /\ \A i, j \in DOMAIN ar' : Listed(i, r)' /\ Listed(j, r)' => i = j
<1>1. CASE UNCHANGED ar
  BY <1>1 DEF Listed, RequestInv, OnceInv
<1>2. CASE ar' = <<>>
  <2>1. DOMAIN ar' = {}
    BY <1>2
  <2> QED
    BY <2>1
<1>3. CASE \E e \in 1 .. Len(ar) : ar' = [ar EXCEPT ![e].ready = TRUE]
  <2>1. PICK e \in 1 .. Len(ar) : ar' = [ar EXCEPT ![e].ready = TRUE]
    BY <1>3
  <2>2. /\ ar' \in Seq(Entries) /\ Len(ar') = Len(ar) /\ ar'[e].ready
        /\ \A i \in 1 .. Len(ar) : ar'[i].copy = ar[i].copy /\ (i # e => ar'[i] = ar[i])
    BY <2>1, Marked
  <2>3. DOMAIN ar' = 1 .. Len(ar) /\ DOMAIN ar = 1 .. Len(ar)
    BY <2>2, Elements, LenProperties
  <2>4. \A i \in 1 .. Len(ar) : ar[i].ready => ar'[i].ready
    BY <2>2
  <2>5. \A i \in 1 .. Len(ar) : Listed(i, r)' <=> Listed(i, r)
    BY <2>2 DEF Listed
  <2> QED
    BY <2>2, <2>3, <2>4, <2>5 DEF RequestInv, OnceInv
<1> QED
  BY <1>1, <1>2, <1>3

(* A step that leaves the list so, the pipe as it is or empty, and gives   *)
(* no thread a message about r.                                            *)
LEMMA Quiet ==
  ASSUME Types, NEW r \in Requests, RequestInv(r), io'[r] = io[r],
         \A t \in Threads : Has(t, r)' => Has(t, r) /\ msg'[t] = msg[t],
         requests' \in {requests, <<>>},
         \/ UNCHANGED ar \/ ar' = <<>>
         \/ \E e \in 1 .. Len(ar) : ar' = [ar EXCEPT ![e].ready = TRUE],
         at'["dev"] = "release" /\ msg'["dev"].r = r <=> at["dev"] = "release" /\ msg["dev"].r = r,
         freed' = freed, \A n \in Nat : <<r, n>> \notin touched'
  PROVE  RequestInv(r)'
<1>1. /\ DOMAIN requests' \subseteq Nat
      /\ \A i \in DOMAIN requests' : i + 0 \in DOMAIN requests /\ requests'[i] = requests[i + 0]
  <2>1. DOMAIN requests = 1 .. Len(requests) /\ Len(requests) \in Nat /\ DOMAIN <<>> = {}
    BY Elements
  <2> QED
    BY <2>1
<1>2. \A n \in Nat : <<r, n>> \in freed' => Old(n, r)
  BY DEF RequestInv, FreedInv
<1>3. 0 \in Nat
  OBVIOUS
<1> QED
  BY <1>1, <1>2, <1>3, ListFrame, Frame

LEMMA NotFreed ==
  ASSUME Types, NEW r \in Requests, RequestInv(r), NEW n \in Nat, Current(n, r)
  PROVE  <<r, n>> \notin freed
  BY DEF RequestInv, FreedInv, Old, Current

-----------------------------------------------------------------------------
(* The steps.                                                              *)
LEMMA MoveSteps ==
  ASSUME UnitInv, Moves
  PROVE  /\ UNCHANGED <<io, msg, freed, touched, again>>
         /\ ar' \in {ar, <<>>} /\ requests' \in {requests, <<>>}
         /\ \A t \in Threads : at'[t] \in Holding => at[t] \in Holding
         /\ \A t \in Threads : phase'[t] # "none" => phase[t] # "none"
         /\ at'["dev"] = "release" <=> at["dev"] = "release"
<1> USE ThreadFacts DEF UnitInv
<1>1. /\ UNCHANGED <<io, msg, freed, touched, again>>
      /\ ar' \in {ar, <<>>} /\ requests' \in {requests, <<>>}
      /\ \A t \in Threads : phase'[t] # "none" => phase[t] # "none"
  BY DEF Moves, OpenNew, OpenShared, OpenUnit, OpenWait, CloseUnit, ResetUnit, ResetClose, ResetSync, ResetClosed, SignalPost,
     SerialEnds, DevStart, PipeSemWait, amiga, list, pipe, hist
<1>2. /\ \A t \in Threads : at'[t] \in Holding => at[t] \in Holding
      /\ at'["dev"] = "release" <=> at["dev"] = "release"
  <2>1. CASE OpenNew
    BY <2>1 DEF OpenNew, OpenUnit, At, Holding
  <2>5. CASE OpenShared
    BY <2>5 DEF OpenShared, OpenUnit, At, Holding
  <2>2. CASE OpenWait \/ CloseUnit \/ ResetUnit \/ ResetClose
    BY <2>2 DEF OpenWait, CloseUnit, ResetUnit, ResetClose, At, Go, Holding
  <2>3. CASE ResetSync \/ ResetClosed \/ SignalPost \/ SerialEnds \/ DevStart
    BY <2>3 DEF ResetSync, ResetClosed, SignalPost, SerialEnds, DevStart, At, Go, Holding
  <2>4. CASE \E t \in Threads : PipeSemWait(t)
    BY <2>4 DEF PipeSemWait
  <2> QED
    BY <2>1, <2>2, <2>3, <2>4, <2>5 DEF Moves
<1> QED
  BY <1>1, <1>2

LEMMA MovesKeep ==
  ASSUME IInv, Moves, NEW r \in Requests, RequestInv(r)
  PROVE  RequestInv(r)'
<1>1. \A t \in Threads : Has(t, r)' => Has(t, r) /\ msg'[t] = msg[t]
  BY MoveSteps DEF IInv, Has
<1>2. \A n \in Nat : <<r, n>> \notin touched'
  BY MoveSteps DEF IInv, RequestInv, FreedInv
<1> QED
  BY <1>1, <1>2, MoveSteps, Quiet DEF IInv, UnitInv

(* A thread t takes the copy of entry e, which it marks ready; when it is  *)
(* about r, the entry was not ready yet.                                   *)
LEMMA Grab ==
  ASSUME IInv, NEW r \in Requests, RequestInv(r), NEW t \in Threads, NEW e \in 1 .. Len(ar),
         ar[e].copy.r = r => ~ ar[e].ready,
         ar' = [ar EXCEPT ![e].ready = TRUE], msg' = [msg EXCEPT ![t] = ar[e].copy],
         UNCHANGED <<requests, io, freed>>,
         phase[t] = "none", at[t] \notin Holding \cup {"release"}, at'[t] # "release",
         \A u \in Threads \ {t} : UNCHANGED <<at[u], phase[u]>>,
         touched' = touched \/ Touch(ar[e].copy)
  PROVE  RequestInv(r)'
<1> USE ThreadFacts DEF UnitInv
<1>0. Types
  BY DEF IInv
<1>1. /\ Len(ar) \in Nat /\ DOMAIN ar = 1 .. Len(ar) /\ ar[e] \in Entries
      /\ ar' \in Seq(Entries) /\ Len(ar') = Len(ar) /\ DOMAIN ar' = 1 .. Len(ar) /\ ar'[e].ready
      /\ \A i \in 1 .. Len(ar) : ar'[i].copy = ar[i].copy
  BY <1>0, Marked, Elements, LenProperties
<1>2. ar[e].copy.n \in Nat \ {0} /\ ar[e].copy.r \in Requests
  BY <1>1 DEF Entries, Copies
<1>3. \A u \in Threads : u # t => (Has(u, r)' <=> Has(u, r)) /\ msg'[u] = msg[u]
  BY <1>0 DEF Has
<1>4. at'["dev"] = "release" /\ msg'["dev"].r = r <=> at["dev"] = "release" /\ msg["dev"].r = r
  BY <1>0
<1>5. \A n \in Nat : <<r, n>> \notin touched
  BY DEF RequestInv, FreedInv
<1>6. CASE ar[e].copy.r # r
  <2>1. ~ Has(t, r)'
    BY <1>0, <1>6 DEF Has
  <2>2. \A n \in Nat : <<r, n>> \notin touched'
    BY <1>5, <1>6 DEF Touch, Id
  <2> QED
    BY <1>0, <1>3, <1>4, <2>1, <2>2, Quiet
<1>7. CASE ar[e].copy.r = r
  <2>1. Listed(e, r) /\ ~ ar[e].ready
    BY <1>7 DEF Listed
  <2>2. ~ (at["dev"] = "release" /\ msg["dev"].r = r) /\ Current(ar[e].copy.n, r) /\ ~ InHand(r)
    BY <1>1, <2>1 DEF RequestInv, EntryInv
  <2>3. \A u \in Threads : Has(u, r)' => u = t
    BY <1>3, <2>2 DEF InHand
  <2>4. \A i \in DOMAIN requests' : ~ Piped(i, r)'
    BY <2>2 DEF InHand, Piped
  <2>5. \A i \in DOMAIN ar' : Listed(i, r)' => i = e
    BY <1>1, <2>1 DEF Listed, RequestInv, OnceInv
  <2>6. OnceInv(r)'
    BY <2>3, <2>4, <2>5 DEF OnceInv
  <2>7. MessageInv(r)'
    <3>1. \A u \in Threads : Has(u, r)' => msg'[u].n = io[r].begun
      BY <1>0, <2>2, <2>3 DEF Current
    <3>2. io[r].begun > io[r].replied
      BY <2>2 DEF Current, Outstanding
    <3> QED
      BY <2>4, <3>1, <3>2 DEF MessageInv, Current, Outstanding
  <2>8. EntryInv(r)'
    BY <1>1, <1>4, <2>2, <2>5 DEF EntryInv, Current, Outstanding
  <2>9. CountInv(r)' /\ FreedInv(r)'
    <3>1. <<r, ar[e].copy.n>> \notin freed
      BY <1>0, <1>2, <2>2, NotFreed
    <3>2. touched' = touched
      BY <1>7, <3>1 DEF Touch, Id
    <3> QED
      BY <3>2 DEF RequestInv, CountInv, FreedInv, Old, Outstanding
  <2> QED
    BY <2>6, <2>7, <2>8, <2>9 DEF RequestInv
<1> QED
  BY <1>6, <1>7

LEMMA AbortsKeep ==
  ASSUME IInv, Aborts, NEW r \in Requests \ again', RequestInv(r)
  PROVE  RequestInv(r)'
<1> USE ThreadFacts DEF UnitInv
<1>0. /\ Types /\ PlaceInv
      /\ UNCHANGED <<io, requests, phase, freed, touched>>
  BY AbortSteps DEF IInv
<1>1. PICK q : \/ At("cpu", "run") /\ Finds("cpu", q, "abort", "run")
               \/ At("cpu", "reset") /\ Finds("cpu", q, "resetmark", "reset")
               \/ At("dev", "flood") /\ Finds("dev", q, "floodmark", "flood")
  BY AbortSteps
<1>2. PICK t \in Threads, found \in {"abort", "resetmark", "floodmark"},
           missing \in {"run", "reset", "flood"} :
        phase[t] = "none" /\ at[t] \in {"run", "reset", "flood"} /\ Finds(t, q, found, missing)
  BY <1>0, <1>1 DEF At
<1>3. CASE InList(q)
  <2>1. /\ Entry(q) \in 1 .. Len(ar) /\ ar[Entry(q)].copy.r = q
        /\ ar' = [ar EXCEPT ![Entry(q)].ready = TRUE] /\ msg' = [msg EXCEPT ![t] = ar[Entry(q)].copy]
        /\ again' = (IF ar[Entry(q)].ready THEN again \cup {q} ELSE again)
        /\ at' = [at EXCEPT ![t] = found]
    BY <1>0, <1>2, <1>3, EntryIsListed DEF Finds
  <2>2. q = r => ~ ar[Entry(q)].ready
    BY <2>1
  <2>3. at[t] \notin Holding \cup {"release"} /\ at'[t] # "release"
        /\ \A u \in Threads \ {t} : UNCHANGED <<at[u], phase[u]>>
    BY <1>0, <1>2, <2>1 DEF Holding
  <2> QED
    BY <1>0, <1>2, <2>1, <2>2, <2>3, Grab
<1>4. CASE ~ InList(q)
  <2>1. UNCHANGED <<ar, msg>> /\ at' = [at EXCEPT ![t] = missing]
    BY <1>2, <1>4 DEF Finds
  <2>2. \A u \in Threads : Has(u, r)' => Has(u, r) /\ msg'[u] = msg[u]
    BY <1>0, <2>1 DEF Has, Holding
  <2>3. at'["dev"] = "release" <=> at["dev"] = "release"
    BY <1>0, <1>2, <2>1
  <2>4. \A n \in Nat : <<r, n>> \notin touched'
    BY <1>0 DEF RequestInv, FreedInv
  <2> QED
    BY <1>0, <2>1, <2>2, <2>3, <2>4, Quiet
<1> QED
  BY <1>3, <1>4

LEMMA SignalsKeep ==
  ASSUME IInv, Signals, NEW r \in Requests, RequestInv(r)
  PROVE  RequestInv(r)'
<1> USE ThreadFacts DEF UnitInv
<1>0. Types /\ PlaceInv /\ At("serial", "idle") /\ UNCHANGED <<io, freed>>
  BY SignalSteps DEF IInv
<1>1. PICK e \in 1 .. Len(ar) :
        /\ ~ ar[e].ready /\ ar' = [ar EXCEPT ![e].ready = TRUE]
        /\ Touch(ar[e].copy) /\ Starts("serial", ar[e].copy, "post")
  BY <1>0, SignalSteps
<1>2. /\ phase["serial"] = "none" /\ at["serial"] = "idle" /\ at'["serial"] = "post"
      /\ \A u \in Threads \ {"serial"} : UNCHANGED <<at[u], phase[u]>>
      /\ msg' = [msg EXCEPT !["serial"] = ar[e].copy] /\ UNCHANGED requests
  BY <1>0, <1>1 DEF At, Starts
<1>3. at["serial"] \notin Holding \cup {"release"} /\ at'["serial"] # "release"
  BY <1>2 DEF Holding
<1> QED
  BY <1>0, <1>1, <1>2, <1>3, Grab

(* The message that a thread has in its hands is not about a freed copy.   *)
LEMMA TouchesNone ==
  ASSUME Types, HandInv, NEW r \in Requests, RequestInv(r), NEW t \in Threads, at[t] \in Holding,
         touched' = IF Id(msg[t]) \in freed THEN touched \cup {Id(msg[t])} ELSE touched
  PROVE  \A n \in Nat : <<r, n>> \notin touched'
<1>1. msg[t] \in Copies
  BY DEF HandInv
<1>2. msg[t].r \in Requests /\ msg[t].n \in Nat \ {0}
  BY <1>1 DEF Copies
<1>3. msg[t].r = r => Id(msg[t]) \notin freed
  <2>1. ASSUME msg[t].r = r PROVE Current(msg[t].n, r)
    BY <1>2, <2>1 DEF Has, RequestInv, MessageInv
  <2> QED
    BY <1>2, <2>1, NotFreed DEF Id
<1>4. \A n \in Nat : <<r, n>> \notin touched
  BY DEF RequestInv, FreedInv
<1> QED
  BY <1>3, <1>4 DEF Id

LEMMA MarksKeep ==
  ASSUME IInv, Marks, NEW r \in Requests, RequestInv(r)
  PROVE  RequestInv(r)'
<1> USE ThreadFacts DEF UnitInv
<1>0. Types /\ HandInv /\ UNCHANGED <<io, ar, requests, freed>>
  BY MarkSteps DEF IInv
<1>1. PICK t \in Threads :
        /\ phase[t] = "none" /\ phase' = [phase EXCEPT ![t] = "wait"]
        /\ msg' = [msg EXCEPT ![t] = msg[t]]
        /\ touched' = IF Id(msg[t]) \in freed THEN touched \cup {Id(msg[t])} ELSE touched
        /\ \/ t = "cpu" /\ at[t] = "abort" /\ at' = [at EXCEPT ![t] = "run"]
           \/ t = "cpu" /\ at[t] = "resetmark" /\ at' = [at EXCEPT ![t] = "reset"]
           \/ t = "dev" /\ at[t] = "floodmark" /\ at' = [at EXCEPT ![t] = "flood"]
  BY MarkSteps
<1>2. at[t] \in Holding
  BY <1>1 DEF Holding
<1>3. msg' = msg
  BY <1>0, <1>1
<1>4. \A u \in Threads : Has(u, r)' => Has(u, r)
  BY <1>0, <1>1, <1>2, <1>3 DEF Has
<1>5. at'["dev"] = "release" <=> at["dev"] = "release"
  BY <1>0, <1>1
<1>6. \A n \in Nat : <<r, n>> \notin touched'
  BY <1>0, <1>1, <1>2, TouchesNone
<1> QED
  BY <1>0, <1>3, <1>4, <1>5, <1>6, Quiet

LEMMA QuitsKeep ==
  ASSUME IInv, Quits, NEW r \in Requests, RequestInv(r)
  PROVE  RequestInv(r)'
<1> USE ThreadFacts DEF UnitInv
<1>1. /\ Types /\ UNCHANGED <<io, ar, requests, freed, touched>>
      /\ msg' = [msg EXCEPT !["cpu"] = Quit] /\ phase' = [phase EXCEPT !["cpu"] = "wait"]
      /\ \/ at' = [at EXCEPT !["cpu"] = "closed"]
         \/ at' = [at EXCEPT !["cpu"] = "sync"]
  BY DEF IInv, Quits, CloseSend, ResetSend, Send, Go, amiga, list, hist
<1>2. ~ Has("cpu", r)'
  BY <1>1 DEF Has, Quit, Copy
<1>3. \A u \in Threads : Has(u, r)' => Has(u, r) /\ msg'[u] = msg[u]
  <2>1. \A u \in Threads : u # "cpu" => at'[u] = at[u] /\ phase'[u] = phase[u] /\ msg'[u] = msg[u]
    BY <1>1
  <2> QED
    BY <1>2, <2>1 DEF Has
<1>4. at'["dev"] = at["dev"] /\ msg'["dev"] = msg["dev"]
  BY <1>1
<1>5. \A n \in Nat : <<r, n>> \notin touched'
  BY <1>1 DEF RequestInv, FreedInv
<1> QED
  BY <1>1, <1>3, <1>4, <1>5, Quiet

LEMMA BeginsKeep ==
  ASSUME IInv, Begins, NEW r \in Requests, RequestInv(r)
  PROVE  RequestInv(r)'
<1> USE ThreadFacts DEF UnitInv
<1>1. PICK q \in Requests, kind \in Kinds : BeginIO(q, kind)
  BY DEF Begins
<1>2. /\ Types /\ UNCHANGED <<ar, requests, freed, touched>> /\ At("cpu", "run") /\ ~ Outstanding(q)
      /\ msg' = [msg EXCEPT !["cpu"] = Copy(q, io[q].begun + 1, kind)]
      /\ phase' = [phase EXCEPT !["cpu"] = "wait"] /\ at' = [at EXCEPT !["cpu"] = "run"]
  BY <1>1 DEF IInv, BeginIO, Send, Go, list, hist
<1>3. /\ io'[q].begun = io[q].begun + 1 /\ io'[q].replied = io[q].replied
      /\ \A p \in Requests : p # q => io'[p] = io[p]
      /\ io[q].begun \in Nat /\ io[q].replied \in Nat
  BY <1>1, <1>2 DEF BeginIO, Types
<1>4. \A u \in Threads : u # "cpu" => (Has(u, r)' <=> Has(u, r)) /\ msg'[u] = msg[u]
  BY <1>2 DEF Has
<1>5. at'["dev"] = at["dev"] /\ msg'["dev"] = msg["dev"]
  BY <1>2
<1>6. \A n \in Nat : <<r, n>> \notin touched'
  BY <1>2 DEF RequestInv, FreedInv
<1>7. CASE q # r
  <2>1. ~ Has("cpu", r)'
    BY <1>2, <1>7 DEF Has, Copy
  <2> QED
    BY <1>2, <1>3, <1>4, <1>5, <1>6, <1>7, <2>1, Quiet
<1>8. CASE q = r
  <2>1. (\A u \in Threads : ~ Has(u, r)) /\ \A i \in DOMAIN requests : ~ Piped(i, r)
    BY <1>2, <1>8 DEF RequestInv, MessageInv, Current
  <2>2. (\A u \in Threads : Has(u, r)' => u = "cpu") /\ \A i \in DOMAIN requests' : ~ Piped(i, r)'
    BY <1>2, <1>4, <2>1 DEF Piped
  <2>3. OnceInv(r)'
    BY <1>2, <2>2 DEF RequestInv, OnceInv, Listed
  <2>4. CountInv(r)' /\ io[r].begun = io[r].replied
    BY <1>2, <1>3, <1>8 DEF RequestInv, CountInv, Outstanding
  <2>5. MessageInv(r)'
    <3>1. msg'["cpu"].n = io'[r].begun
      BY <1>2, <1>3, <1>8 DEF Copy
    <3>2. io'[r].begun > io'[r].replied
      BY <1>3, <1>8, <2>4
    <3> QED
      BY <2>2, <3>1, <3>2 DEF MessageInv, Current, Outstanding
  <2>6. EntryInv(r)'
    <3> SUFFICES ASSUME NEW i \in DOMAIN ar, Listed(i, r)
                 PROVE  /\ at'["dev"] = "release" /\ msg'["dev"].r = r /\ ar[i].ready
                        /\ ar[i].copy.n <= io'[r].begun
                        /\ io'[r].begun > io'[r].replied => ar[i].copy.n < io'[r].begun
      BY <1>2 DEF EntryInv, Old, Outstanding, Listed
    <3>1. at["dev"] = "release" /\ msg["dev"].r = r /\ ar[i].ready /\ ar[i].copy.n <= io[r].begun
      BY <1>2, <1>8 DEF RequestInv, EntryInv, Current, Old
    <3>2. ar[i].copy.n \in Nat
      BY <1>2, Elements DEF Entries, Copies
    <3> QED
      BY <1>3, <1>5, <1>8, <3>1, <3>2
  <2>7. FreedInv(r)'
    <3>1. \A n \in Nat : <<r, n>> \in freed => n <= io'[r].begun /\ n < io'[r].begun
      BY <1>3, <1>8 DEF RequestInv, FreedInv, Old
    <3> QED
      BY <1>2, <1>6, <3>1 DEF FreedInv, Old, Outstanding
  <2> QED
    BY <2>3, <2>4, <2>5, <2>6, <2>7 DEF RequestInv
<1> QED
  BY <1>7, <1>8

LEMMA WritesKeep ==
  ASSUME IInv, Writes, NEW r \in Requests, RequestInv(r)
  PROVE  RequestInv(r)'
<1> USE ThreadFacts DEF UnitInv
<1>1. PICK t \in Threads : WriteMessage(t)
  BY DEF Writes
<1>2. /\ Types /\ PlaceInv /\ UNCHANGED <<io, ar, at, msg, freed, touched>>
      /\ phase[t] = "write" /\ phase' = [phase EXCEPT ![t] = "none"]
      /\ requests' = Append(requests, msg[t])
  BY <1>1 DEF IInv, WriteMessage, amiga, list, hist
<1>3. /\ Len(requests) \in Nat /\ DOMAIN requests = 1 .. Len(requests)
      /\ DOMAIN requests' = 1 .. Len(requests) + 1 /\ requests'[Len(requests) + 1] = msg[t]
      /\ \A i \in 1 .. Len(requests) : requests'[i] = requests[i]
  BY <1>2, Elements, AppendProperties, LenProperties DEF Types
<1>4. at[t] \notin Holding
  BY <1>2 DEF PlaceInv, Holding
<1>5. ~ Has(t, r)' /\ \A u \in Threads : Has(u, r)' => Has(u, r)
  BY <1>2, <1>4 DEF Has
<1>6. \A i \in 1 .. Len(requests) : Piped(i, r)' <=> Piped(i, r)
  BY <1>3 DEF Piped
<1>7. \A n \in Nat : <<r, n>> \notin touched'
  BY <1>2 DEF RequestInv, FreedInv
<1>8. CASE ~ Has(t, r)
  <2>1. \A i \in DOMAIN requests' : i = Len(requests) + 1 => ~ Piped(i, r)'
    BY <1>2, <1>3, <1>8 DEF Has, Piped
  <2>2. \A i \in DOMAIN requests' : Piped(i, r)' =>
          i + 0 \in DOMAIN requests /\ requests'[i] = requests[i + 0]
    <3>1. \A i \in DOMAIN requests' : i # Len(requests) + 1 => i \in 1 .. Len(requests) /\ i + 0 = i
      BY <1>3
    <3> QED
      BY <1>3, <2>1, <3>1
  <2>3. DOMAIN requests' \subseteq Nat /\ 0 \in Nat
    BY <1>3
  <2>4. \A n \in Nat : <<r, n>> \in freed' => Old(n, r)
    BY <1>2 DEF RequestInv, FreedInv
  <2> QED
    BY <1>2, <1>5, <1>7, <2>2, <2>3, <2>4, ListFrame, Frame
<1>9. CASE Has(t, r)
  <2>1. \A u \in Threads : ~ Has(u, r)'
    BY <1>5, <1>9 DEF RequestInv, OnceInv
  <2>2. \A i \in DOMAIN requests' : Piped(i, r)' => i = Len(requests) + 1
    <3>1. \A i \in 1 .. Len(requests) : ~ Piped(i, r)'
      BY <1>3, <1>6, <1>9 DEF RequestInv, OnceInv
    <3>2. \A i \in DOMAIN requests' : i # Len(requests) + 1 => i \in 1 .. Len(requests)
      BY <1>3
    <3> QED
      BY <3>1, <3>2
  <2>3. OnceInv(r)'
    BY <1>2, <2>1, <2>2 DEF RequestInv, OnceInv, Listed
  <2>4. MessageInv(r)'
    <3>1. io[r].begun > io[r].replied /\ msg[t].n = io[r].begun
      BY <1>9 DEF RequestInv, MessageInv, Current, Outstanding
    <3> QED
      BY <1>2, <1>3, <2>1, <2>2, <3>1 DEF MessageInv, Current, Outstanding
  <2>5. EntryInv(r)'
    <3>1. InHand(r)
      BY <1>9 DEF InHand
    <3> QED
      BY <1>2, <3>1 DEF RequestInv, EntryInv, Listed, Current, Old, Outstanding
  <2>6. CountInv(r)' /\ FreedInv(r)'
    BY <1>2 DEF RequestInv, CountInv, FreedInv, Old, Outstanding
  <2> QED
    BY <2>3, <2>4, <2>5, <2>6 DEF RequestInv
<1> QED
  BY <1>8, <1>9

(* dev_thread replies to the request that it has in its hands. *)
LEMMA ReplyKeeps ==
  ASSUME IInv, NEW r \in Requests, RequestInv(r), at["dev"] \in Holding, phase["dev"] = "none",
         msg["dev"].r = r, ReplyMsg(r), UNCHANGED <<ar, requests, phase, msg, freed>>,
         \A u \in Threads : u # "dev" => at'[u] = at[u],
         at'["dev"] \notin Holding, at'["dev"] = "release" \/ ~ InList(r),
         \A n \in Nat : <<r, n>> \notin touched'
  PROVE  RequestInv(r)'
<1> USE ThreadFacts DEF UnitInv
<1>0. Types /\ HandInv
  BY DEF IInv
<1>1. msg["dev"] \in Copies
  BY <1>0 DEF HandInv
<1>2. Has("dev", r)
  BY <1>1 DEF Has, Copies
<1>3. io[r].begun > io[r].replied /\ io[r].begun \in Nat /\ io[r].replied \in Nat
      /\ io'[r].begun = io[r].begun /\ io'[r].replied = io[r].replied + 1
  BY <1>0, <1>2 DEF RequestInv, MessageInv, Current, Outstanding, ReplyMsg, Types
<1>4. io'[r].replied = io'[r].begun
  BY <1>3 DEF RequestInv, CountInv
<1>5. \A u \in Threads : ~ Has(u, r)'
  <2>1. ~ Has("dev", r)'
    BY DEF Has
  <2>2. \A u \in Threads : u # "dev" => ~ Has(u, r)'
    BY <1>0, <1>2 DEF Has, RequestInv, OnceInv
  <2> QED
    BY <2>1, <2>2
<1>6. \A i \in DOMAIN requests : ~ Piped(i, r)
  BY <1>0, <1>2 DEF RequestInv, OnceInv
<1>7. OnceInv(r)' /\ MessageInv(r)'
  BY <1>5, <1>6 DEF OnceInv, MessageInv, Piped, Listed, RequestInv
<1>8. EntryInv(r)'
  <2> SUFFICES ASSUME NEW i \in DOMAIN ar, Listed(i, r)
               PROVE  at'["dev"] = "release" /\ ar[i].ready /\ ar[i].copy.n <= io[r].begun
    BY <1>3, <1>4 DEF EntryInv, Old, Outstanding, Listed
  <2>1. at'["dev"] = "release" /\ at["dev"] # "release"
    BY DEF InList, Listed, Holding
  <2>2. Current(ar[i].copy.n, r) /\ ar[i].ready
    BY <1>0, <1>2, <2>1 DEF RequestInv, EntryInv, InHand
  <2>3. ar[i].copy.n <= io[r].begun
    BY <1>3, <2>2 DEF Current
  <2> QED
    BY <2>1, <2>2, <2>3
<1>9. CountInv(r)' /\ FreedInv(r)'
  <2>1. \A n \in Nat : <<r, n>> \in freed => n <= io[r].begun
    BY DEF RequestInv, FreedInv, Old
  <2> QED
    BY <1>3, <1>4, <2>1 DEF CountInv, FreedInv, Old, Outstanding
<1> QED
  BY <1>7, <1>8, <1>9 DEF RequestInv

LEMMA ReadKeeps ==
  ASSUME IInv, DevRead, NEW r \in Requests, RequestInv(r)
  PROVE  RequestInv(r)'
<1> USE ThreadFacts DEF UnitInv
<1>1. /\ Types /\ UNCHANGED <<io, ar, phase, freed, touched>>
      /\ at["dev"] = "read" /\ phase["dev"] = "none" /\ requests # <<>>
      /\ requests' = Tail(requests) /\ msg' = [msg EXCEPT !["dev"] = Head(requests)]
      /\ \/ Head(requests) = Quit /\ at' = [at EXCEPT !["dev"] = "off"]
         \/ at' = [at EXCEPT !["dev"] = "lookup"]
  BY DEF IInv, DevRead, At, Go, amiga, list, hist
<1>2. /\ Len(requests) \in Nat /\ Len(requests) > 0 /\ DOMAIN requests = 1 .. Len(requests)
      /\ DOMAIN requests' = 1 .. Len(requests) - 1 /\ msg'["dev"] = requests[1]
      /\ \A i \in DOMAIN requests' : i + 1 \in DOMAIN requests /\ requests'[i] = requests[i + 1]
  <2>1. requests \in Seq(Messages) /\ requests # <<>>
    BY <1>1 DEF Types
  <2>2. /\ Head(requests) = requests[1] /\ Tail(requests) \in Seq(Messages)
        /\ Len(Tail(requests)) = Len(requests) - 1 /\ Len(requests) \in Nat
        /\ \A i \in 1 .. Len(requests) - 1 : Tail(requests)[i] = requests[i + 1]
    BY <2>1, HeadTailProperties, LenProperties
  <2>3. Len(requests) > 0
    BY <2>1, EmptySeq, LenProperties
  <2>4. DOMAIN Tail(requests) = 1 .. Len(requests) - 1 /\ DOMAIN requests = 1 .. Len(requests)
    BY <2>1, <2>2, LenProperties
  <2> QED
    BY <1>1, <2>2, <2>3, <2>4
<1>3. /\ \A u \in Threads : u # "dev" => (Has(u, r)' <=> Has(u, r)) /\ msg'[u] = msg[u]
      /\ at'["dev"] # "release" /\ at["dev"] # "release"
  BY <1>1 DEF Has
<1>4. \A n \in Nat : <<r, n>> \notin touched'
  BY <1>1 DEF RequestInv, FreedInv
<1>5. Has("dev", r)' => Piped(1, r)
  BY <1>2 DEF Has, Piped
<1>6. CASE ~ Piped(1, r)
  <2>1. \A u \in Threads : Has(u, r)' => Has(u, r) /\ msg'[u] = msg[u]
    BY <1>3, <1>5, <1>6
  <2>2. DOMAIN requests' \subseteq Nat /\ 1 \in Nat
    BY <1>2
  <2>3. \A n \in Nat : <<r, n>> \in freed' => Old(n, r)
    BY <1>1 DEF RequestInv, FreedInv
  <2>4. /\ \A i \in DOMAIN ar' : Listed(i, r)' =>
              \E j \in DOMAIN ar : /\ Listed(j, r) /\ ar'[i].copy = ar[j].copy
                                   /\ ar[j].ready => ar'[i].ready
        /\ \A i, j \in DOMAIN ar' : Listed(i, r)' /\ Listed(j, r)' => i = j
    BY <1>1, ListFrame
  <2>5. \A i \in DOMAIN requests' : Piped(i, r)' =>
          i + 1 \in DOMAIN requests /\ requests'[i] = requests[i + 1]
    BY <1>2
  <2>6. InNext(r) =>
          (at'["dev"] = "release" /\ msg'["dev"].r = r <=> at["dev"] = "release" /\ msg["dev"].r = r)
    BY <1>3
  <2>7. io'[r] = io[r]
    BY <1>1
  <2> QED
    BY <1>4, <2>1, <2>2, <2>3, <2>4, <2>5, <2>6, <2>7, Frame
<1>7. CASE Piped(1, r)
  <2>0. 1 \in DOMAIN requests
    BY <1>2
  <2>1. \A u \in Threads : Has(u, r)' => u = "dev"
    BY <1>3, <1>7, <2>0 DEF RequestInv, OnceInv
  <2>2. \A i \in DOMAIN requests' : ~ Piped(i, r)'
    <3> SUFFICES ASSUME NEW i \in DOMAIN requests', Piped(i, r)' PROVE FALSE
      OBVIOUS
    <3>1. i + 1 \in DOMAIN requests /\ Piped(i + 1, r)
      BY <1>2 DEF Piped
    <3>2. i + 1 = 1
      BY <1>7, <2>0, <3>1 DEF RequestInv, OnceInv
    <3> QED
      BY <1>2, <3>2
  <2>3. OnceInv(r)'
    BY <1>1, <2>1, <2>2 DEF RequestInv, OnceInv, Listed
  <2>4. MessageInv(r)'
    <3>1. io[r].begun > io[r].replied /\ requests[1].n = io[r].begun
      BY <1>7, <2>0 DEF RequestInv, MessageInv, Current, Outstanding
    <3> QED
      BY <1>1, <1>2, <2>1, <2>2, <3>1 DEF MessageInv, Current, Outstanding
  <2>5. EntryInv(r)'
    <3>1. InHand(r)
      BY <1>7, <2>0 DEF InHand
    <3> QED
      BY <1>1, <1>3, <3>1 DEF RequestInv, EntryInv, Listed, Current, Old, Outstanding
  <2>6. CountInv(r)' /\ FreedInv(r)'
    BY <1>1 DEF RequestInv, CountInv, FreedInv, Old, Outstanding
  <2> QED
    BY <2>3, <2>4, <2>5, <2>6 DEF RequestInv
<1> QED
  BY <1>6, <1>7

LEMMA LookupKeeps ==
  ASSUME IInv, DevLookup, NEW r \in Requests, RequestInv(r)
  PROVE  RequestInv(r)'
<1> USE ThreadFacts DEF UnitInv
<1>1. /\ Types /\ UNCHANGED <<io, requests, phase, msg, freed, touched>> /\ at["dev"] = "lookup"
      /\ \/ at' = [at EXCEPT !["dev"] = "reply"]
         \/ at' = [at EXCEPT !["dev"] = "io"]
  BY DEF IInv, DevLookup, At, Go, amiga, pipe, hist
<1>2. UNCHANGED ar \/ \E e \in 1 .. Len(ar) : ar' = [ar EXCEPT ![e].ready = TRUE]
  BY <1>1, EntryIsListed DEF DevLookup
<1>3. \A u \in Threads : Has(u, r)' => Has(u, r) /\ msg'[u] = msg[u]
  BY <1>1 DEF Has, Holding
<1>4. \A n \in Nat : <<r, n>> \notin touched'
  BY <1>1 DEF RequestInv, FreedInv
<1>5. at'["dev"] # "release" /\ at["dev"] # "release"
  BY <1>1
<1> QED
  BY <1>1, <1>2, <1>3, <1>4, <1>5, Quiet

LEMMA RepliesKeep ==
  ASSUME IInv, DevReply \/ DevIO, NEW r \in Requests, RequestInv(r)
  PROVE  RequestInv(r)'
<1> USE ThreadFacts DEF UnitInv
<1>1. /\ Types /\ HandInv /\ DevInv /\ UNCHANGED <<ar, requests, phase, msg, freed>>
      /\ phase["dev"] = "none" /\ (io' = io \/ ReplyMsg(msg["dev"].r))
      /\ \/ at["dev"] = "reply" /\ at' = [at EXCEPT !["dev"] = "release"] /\ ReplyMsg(msg["dev"].r)
         \/ at["dev"] = "io" /\ at' = [at EXCEPT !["dev"] = "read"] /\ ReplyMsg(msg["dev"].r)
         \/ at["dev"] = "io" /\ at' = [at EXCEPT !["dev"] = "add"] /\ io' = io
         \/ at["dev"] = "io" /\ at' = [at EXCEPT !["dev"] = "flood"] /\ io' = io
  BY DEF IInv, DevReply, DevIO, At, Go, list, pipe, hist
<1>2. at["dev"] \in Holding /\ \A u \in Threads : u # "dev" => at'[u] = at[u]
  BY <1>1 DEF Holding
<1>3. \A n \in Nat : <<r, n>> \notin touched'
  <2>1. CASE DevReply
    BY <2>1 DEF DevReply, hist, RequestInv, FreedInv
  <2>2. CASE DevIO
    <3>1. touched' = IF Id(msg["dev"]) \in freed THEN touched \cup {Id(msg["dev"])} ELSE touched
      BY <2>2 DEF DevIO, Touch
    <3> QED
      BY <1>1, <1>2, <3>1, TouchesNone
  <2> QED
    BY <2>1, <2>2
<1>4. CASE ReplyMsg(msg["dev"].r) /\ msg["dev"].r = r /\ at'["dev"] \in {"release", "read"}
  <2>1. at'["dev"] \notin Holding /\ (at'["dev"] = "release" \/ ~ InList(r))
    BY <1>1, <1>4 DEF DevInv, Ended, Holding
  <2>2. ReplyMsg(r) /\ msg["dev"].r = r
    BY <1>4
  <2>3. at["dev"] \in Holding /\ phase["dev"] = "none" /\ UNCHANGED <<ar, requests, phase, msg, freed>>
    BY <1>1, <1>2
  <2> QED
    BY <1>2, <1>3, <2>1, <2>2, <2>3, ReplyKeeps
<1>5. CASE io'[r] = io[r] /\ (msg["dev"].r # r \/ at'["dev"] \in {"add", "flood"})
  <2>1. \A u \in Threads : Has(u, r)' => Has(u, r) /\ msg'[u] = msg[u]
    BY <1>1, <1>2 DEF Has
  <2>2. at'["dev"] = "release" /\ msg'["dev"].r = r <=> at["dev"] = "release" /\ msg["dev"].r = r
    BY <1>1, <1>5
  <2> QED
    BY <1>1, <1>3, <1>5, <2>1, <2>2, Quiet
<1>6. msg["dev"].r # r => io'[r] = io[r]
  BY <1>1 DEF ReplyMsg, Types
<1> QED
  BY <1>1, <1>4, <1>5, <1>6

LEMMA ReleaseKeeps ==
  ASSUME IInv, ~ Ended, DevRelease, NEW r \in Requests, RequestInv(r)
  PROVE  RequestInv(r)'
<1> USE ThreadFacts DEF UnitInv
<1> DEFINE q == msg["dev"].r
           e == Entry(msg["dev"].r)
<1>1. /\ Types /\ DevInv /\ UNCHANGED <<io, requests, phase, msg, touched>>
      /\ at["dev"] = "release" /\ at' = [at EXCEPT !["dev"] = "read"]
      /\ ar' = RemoveAt(ar, e) /\ freed' = freed \cup {Id(ar[e].copy)}
  BY DEF IInv, DevRelease, At, Go, amiga, pipe
<1>2. e \in 1 .. Len(ar) /\ ar[e].copy.r = q
  BY <1>1, EntryIsListed DEF DevInv, Ended
<1> HIDE DEF e, q
<1>3. /\ Len(ar) \in Nat /\ DOMAIN ar = 1 .. Len(ar) /\ DOMAIN ar' = 1 .. Len(ar) - 1
      /\ \A i \in 1 .. Len(ar) - 1 : ar'[i] = IF i < e THEN ar[i] ELSE ar[i + 1]
  <2>1. /\ ar' \in Seq(Entries) /\ Len(ar') = Len(ar) - 1
        /\ \A i \in 1 .. Len(ar) - 1 : ar'[i] = IF i < e THEN ar[i] ELSE ar[i + 1]
    BY <1>1, <1>2, Removed
  <2> QED
    BY <1>1, <2>1, Elements, LenProperties
<1>4. \A i \in DOMAIN ar' : \E j \in DOMAIN ar :
        j # e /\ ar'[i] = ar[j] /\ j = IF i < e THEN i ELSE i + 1
  <2> SUFFICES ASSUME NEW i \in 1 .. Len(ar) - 1
               PROVE  \E j \in 1 .. Len(ar) : j # e /\ ar'[i] = ar[j] /\ j = IF i < e THEN i ELSE i + 1
    BY <1>3
  <2>1. CASE i < e
    <3>1. i \in 1 .. Len(ar) /\ i # e /\ ar'[i] = ar[i]
      BY <1>2, <1>3, <2>1
    <3> QED
      BY <2>1, <3>1
  <2>2. CASE ~ i < e
    <3>1. i + 1 \in 1 .. Len(ar) /\ i + 1 # e /\ ar'[i] = ar[i + 1]
      BY <1>2, <1>3, <2>2
    <3> QED
      BY <2>2, <3>1
  <2> QED
    BY <2>1, <2>2
<1>5. \A i, j \in DOMAIN ar' : Listed(i, r)' /\ Listed(j, r)' => i = j
  <2> SUFFICES ASSUME NEW i \in DOMAIN ar', NEW j \in DOMAIN ar', ar'[i].copy.r = r, ar'[j].copy.r = r
               PROVE  i = j
    BY DEF Listed
  <2>1. PICK a \in DOMAIN ar : ar'[i] = ar[a] /\ a = IF i < e THEN i ELSE i + 1
    BY <1>4
  <2>2. PICK b \in DOMAIN ar : ar'[j] = ar[b] /\ b = IF j < e THEN j ELSE j + 1
    BY <1>4
  <2>3. a = b
    BY <2>1, <2>2 DEF RequestInv, OnceInv, Listed
  <2>4. i \in Int /\ j \in Int /\ e \in Int
    BY <1>2, <1>3
  <2> QED
    BY <2>1, <2>2, <2>3, <2>4
<1>6. q = r => ~ InNext(r)
  <2> SUFFICES ASSUME q = r, NEW i \in DOMAIN ar', ar'[i].copy.r = r PROVE FALSE
    BY DEF InNext
  <2>1. PICK j \in DOMAIN ar : j # e /\ ar'[i] = ar[j]
    BY <1>4
  <2>2. Listed(j, r) /\ Listed(e, r) /\ e \in DOMAIN ar
    BY <1>2, <1>3, <2>1 DEF Listed
  <2> QED
    BY <2>1, <2>2 DEF RequestInv, OnceInv
<1>7. InNext(r) =>
        (at'["dev"] = "release" /\ msg'["dev"].r = r <=> at["dev"] = "release" /\ msg["dev"].r = r)
  BY <1>1, <1>6 DEF q
<1>8. \A n \in Nat : (<<r, n>> \in freed' => Old(n, r)) /\ <<r, n>> \notin touched'
  <2>1. q = r => Old(ar[e].copy.n, r)
    BY <1>1, <1>2, <1>3 DEF RequestInv, EntryInv, Listed, q
  <2> QED
    BY <1>1, <1>2, <2>1 DEF RequestInv, FreedInv, Id
<1>9. \A u \in Threads : Has(u, r)' => Has(u, r) /\ msg'[u] = msg[u]
  BY <1>1 DEF Has, Holding
<1>10. \A i \in DOMAIN ar' : Listed(i, r)' =>
         \E j \in DOMAIN ar : /\ Listed(j, r) /\ ar'[i].copy = ar[j].copy
                              /\ ar[j].ready => ar'[i].ready
  BY <1>4 DEF Listed
<1>11. /\ DOMAIN requests' \subseteq Nat /\ 0 \in Nat
       /\ \A i \in DOMAIN requests' : Piped(i, r)' =>
            i + 0 \in DOMAIN requests /\ requests'[i] = requests[i + 0]
  BY <1>1, Elements
<1>12. io'[r] = io[r]
  BY <1>1
<1> QED
  BY <1>5, <1>7, <1>8, <1>9, <1>10, <1>11, <1>12, Frame

LEMMA AddKeeps ==
  ASSUME IInv, DevAdd, NEW r \in Requests, RequestInv(r)
  PROVE  RequestInv(r)'
<1> USE ThreadFacts DEF UnitInv
<1>1. /\ Types /\ DevInv /\ HandInv /\ UNCHANGED <<io, requests, phase, msg, freed, touched>>
      /\ at["dev"] = "add" /\ phase["dev"] = "none" /\ at' = [at EXCEPT !["dev"] = "read"]
      /\ ar' = Append(ar, [copy |-> msg["dev"], ready |-> FALSE])
  BY DEF IInv, DevAdd, At, Go, amiga, pipe, hist
<1>2. msg["dev"] \in Copies /\ ~ InList(msg["dev"].r)
  BY <1>1 DEF DevInv, Ended, HandInv, Holding
<1>3. /\ Len(ar) \in Nat /\ DOMAIN ar = 1 .. Len(ar) /\ DOMAIN ar' = 1 .. Len(ar) + 1
      /\ \A i \in 1 .. Len(ar) : ar'[i] = ar[i]
      /\ ar'[Len(ar) + 1].copy = msg["dev"] /\ ~ ar'[Len(ar) + 1].ready
  <2> DEFINE new == [copy |-> msg["dev"], ready |-> FALSE]
  <2>1. new \in Entries /\ ar \in Seq(Entries)
    BY <1>1, <1>2 DEF Entries, Types
  <2>2. new.copy = msg["dev"] /\ ~ new.ready
    OBVIOUS
  <2> HIDE DEF new
  <2>3. ar' = Append(ar, new)
    BY <1>1 DEF new
  <2> QED
    BY <2>1, <2>2, <2>3, AppendProperties, LenProperties
<1>4. \A i \in DOMAIN ar' : i = Len(ar) + 1 \/ i \in 1 .. Len(ar)
  BY <1>3
<1>5. \A u \in Threads : Has(u, r)' => Has(u, r) /\ msg'[u] = msg[u] /\ u # "dev"
  BY <1>1 DEF Has, Holding
<1>6. at'["dev"] # "release" /\ at["dev"] # "release"
  BY <1>1
<1>7. \A n \in Nat : <<r, n>> \notin touched'
  BY <1>1 DEF RequestInv, FreedInv
<1>8. CASE msg["dev"].r # r
  <2>1. \A i \in DOMAIN ar' : Listed(i, r)' => i \in DOMAIN ar /\ Listed(i, r) /\ ar'[i] = ar[i]
    BY <1>3, <1>4, <1>8 DEF Listed
  <2>2. \A i \in DOMAIN ar' : Listed(i, r)' =>
          \E j \in DOMAIN ar : /\ Listed(j, r) /\ ar'[i].copy = ar[j].copy
                               /\ ar[j].ready => ar'[i].ready
    BY <2>1
  <2>3. \A i, j \in DOMAIN ar' : Listed(i, r)' /\ Listed(j, r)' => i = j
    BY <2>1 DEF RequestInv, OnceInv
  <2>4. /\ DOMAIN requests' \subseteq Nat /\ 0 \in Nat
        /\ \A i \in DOMAIN requests' : Piped(i, r)' =>
             i + 0 \in DOMAIN requests /\ requests'[i] = requests[i + 0]
    BY <1>1, Elements
  <2>5. \A n \in Nat : (<<r, n>> \in freed' => Old(n, r)) /\ <<r, n>> \notin touched'
    BY <1>1, <1>7 DEF RequestInv, FreedInv
  <2>6. io'[r] = io[r]
    BY <1>1
  <2> QED
    BY <1>5, <1>6, <2>2, <2>3, <2>4, <2>5, <2>6, Frame
<1>9. CASE msg["dev"].r = r
  <2>1. Has("dev", r)
    BY <1>1, <1>2, <1>9 DEF Has, Holding, Copies
  <2>2. (\A u \in Threads : ~ Has(u, r)') /\ \A i \in DOMAIN requests' : ~ Piped(i, r)'
    BY <1>1, <1>5, <2>1 DEF RequestInv, OnceInv, Piped
  <2>3. \A i \in DOMAIN ar' : Listed(i, r)' => i = Len(ar) + 1
    BY <1>2, <1>3, <1>4, <1>9 DEF Listed, InList
  <2>4. OnceInv(r)' /\ MessageInv(r)'
    BY <2>2, <2>3 DEF OnceInv, MessageInv
  <2>5. EntryInv(r)'
    <3>1. io[r].begun > io[r].replied /\ msg["dev"].n = io[r].begun
      BY <1>1, <2>1 DEF RequestInv, MessageInv, Current, Outstanding
    <3>2. ~ InHand(r)'
      BY <2>2 DEF InHand
    <3> QED
      BY <1>1, <1>3, <1>6, <2>3, <3>1, <3>2 DEF EntryInv, Current, Outstanding
  <2>6. CountInv(r)' /\ FreedInv(r)'
    BY <1>1 DEF RequestInv, CountInv, FreedInv, Old, Outstanding
  <2> QED
    BY <2>4, <2>5, <2>6 DEF RequestInv
<1> QED
  BY <1>8, <1>9

-----------------------------------------------------------------------------
LEMMA InitialRequests == ASSUME Init PROVE IInv
<1>1. \A t \in Threads : phase[t] = "none" /\ at[t] \in {"closed", "off"}
  BY DEF Init, Threads
<1>2. DOMAIN ar = {} /\ DOMAIN requests = {}
  BY DEF Init
<1>3. ASSUME NEW r \in Requests PROVE RequestInv(r)
  <2>1. \A t \in Threads : ~ Has(t, r)
    BY <1>1 DEF Has, Holding
  <2>2. OnceInv(r) /\ MessageInv(r) /\ EntryInv(r)
    BY <1>2, <2>1 DEF OnceInv, MessageInv, EntryInv
  <2>3. CountInv(r) /\ FreedInv(r)
    BY DEF Init, CountInv, FreedInv
  <2> QED
    BY <2>2, <2>3 DEF RequestInv
<1> QED
  BY <1>3, Initial DEF IInv

(* A request that an abort piped although it was done stays noted. *)
LEMMA AgainGrows == ASSUME IInv, [Next]_vars PROVE again \subseteq again'
<1>1. CASE Aborts
  <2>1. \E q : again' = again \/ again' = again \cup {q}
    BY <1>1, AbortSteps DEF Finds
  <2> QED
    BY <2>1
<1>2. CASE Moves \/ Marks \/ Signals
  BY <1>2, MoveSteps, MarkSteps, SignalSteps DEF IInv, UnitInv
<1>3. CASE Quits \/ Begins \/ Writes
  BY <1>3 DEF Quits, CloseSend, ResetSend, Begins, BeginIO, Writes, WriteMessage, hist
<1>4. CASE DevSteps
  BY <1>4 DEF DevSteps, DevRead, DevLookup, DevReply, DevRelease, DevIO, DevAdd, hist
<1>5. CASE UNCHANGED vars
  BY <1>5 DEF vars, hist
<1> QED
  BY <1>1, <1>2, <1>3, <1>4, <1>5, Steps

LEMMA Inductive == ASSUME IInv, [Next]_vars PROVE IInv'
<1>1. UnitInv'
  BY UnitInductive DEF IInv
<1>2. again \subseteq again'
  BY AgainGrows
<1>3. ASSUME NEW r \in Requests \ again' PROVE RequestInv(r)'
  <2>1. r \in Requests /\ RequestInv(r)
    BY <1>2 DEF IInv
  <2>2. CASE Moves
    BY <2>1, <2>2, MovesKeep
  <2>3. CASE Aborts
    BY <2>1, <2>3, AbortsKeep
  <2>4. CASE Marks
    BY <2>1, <2>4, MarksKeep
  <2>5. CASE Signals
    BY <2>1, <2>5, SignalsKeep
  <2>6. CASE Quits
    BY <2>1, <2>6, QuitsKeep
  <2>7. CASE Begins
    BY <2>1, <2>7, BeginsKeep
  <2>8. CASE Writes
    BY <2>1, <2>8, WritesKeep
  <2>9. CASE DevSteps
    <3>1. ~ Ended
      BY <2>9 DEF DevSteps
    <3>2. CASE DevRead
      BY <2>1, <3>2, ReadKeeps
    <3>3. CASE DevLookup
      BY <2>1, <3>3, LookupKeeps
    <3>4. CASE DevReply \/ DevIO
      BY <2>1, <3>4, RepliesKeep
    <3>5. CASE DevRelease
      BY <2>1, <3>1, <3>5, ReleaseKeeps
    <3>6. CASE DevAdd
      BY <2>1, <3>6, AddKeeps
    <3> QED
      BY <2>9, <3>2, <3>3, <3>4, <3>5, <3>6 DEF DevSteps
  <2>10. CASE UNCHANGED vars
    <3>1. UNCHANGED <<io, ar, requests, phase, at, msg, freed, touched>>
      BY <2>10 DEF vars, amiga, list, pipe, hist
    <3>2. \A t \in Threads : Has(t, r)' => Has(t, r) /\ msg'[t] = msg[t]
      BY <3>1 DEF Has
    <3>3. \A n \in Nat : <<r, n>> \notin touched'
      BY <2>1, <3>1 DEF RequestInv, FreedInv
    <3>4. Types
      BY DEF IInv, UnitInv
    <3> QED
      BY <2>1, <3>1, <3>2, <3>3, <3>4, Quiet
  <2> QED
    BY <2>2, <2>3, <2>4, <2>5, <2>6, <2>7, <2>8, <2>9, <2>10, Steps
<1> QED
  BY <1>1, <1>3 DEF IInv

(* Where a request is, in the hands of which thread, in the pipe or in the *)
(* list, and which of its sendings that copy stands for.                   *)
THEOREM RequestInvariant == Spec => []IInv
<1>1. Init => IInv
  BY InitialRequests
<1>2. IInv /\ [Next]_vars => IInv'
  BY Inductive
<1> QED
  BY <1>1, <1>2, PTL DEF Spec

(* A request is replied to once for every time it was sent, unless it was  *)
(* aborted between its completion and its removal from the list.           *)
(* Once two dev_threads share the unit ("shared"), nothing is said.        *)
THEOREM RepliedOnceAlways == Spec => []RepliedOnce
<1>1. ASSUME IInv PROVE RepliedOnce
  <2> SUFFICES ASSUME NEW r \in Requests, io[r].replied > io[r].begun, r \notin again PROVE FALSE
    BY DEF RepliedOnce
  <2>1. io[r].replied <= io[r].begun /\ io[r].begun \in Nat /\ io[r].replied \in Nat
    BY <1>1 DEF IInv, UnitInv, Types, RequestInv, CountInv
  <2> QED
    BY <2>1
<1> QED
  BY <1>1, RequestInvariant, PTL

(* No thread reads or writes the host copy of a request after the copy was *)
(* freed, with the same exception, and not with two dev_threads.           *)
THEOREM NoUseAfterFreeAlways == Spec => []NoUseAfterFree
<1>1. ASSUME IInv PROVE NoUseAfterFree
  <2> SUFFICES ASSUME NEW c \in touched, c[1] \notin again PROVE FALSE
    BY DEF NoUseAfterFree
  <2>1. c \in Requests \X Nat
    BY <1>1 DEF IInv, UnitInv, Types
  <2>2. c = <<c[1], c[2]>> /\ c[1] \in Requests /\ c[2] \in Nat
    BY <2>1
  <2>3. <<c[1], c[2]>> \notin touched
    BY <1>1, <2>2 DEF IInv, RequestInv, FreedInv
  <2> QED
    BY <2>2, <2>3
<1> QED
  BY <1>1, RequestInvariant, PTL

(* A pipe with room for every request never has the serial thread wait for *)
(* dev_thread while that waits for the list: the messages in a full pipe   *)
(* are about as many requests, and the serial thread's is about another.   *)
THEOREM NoEmbraceAlways == Spec => []NoEmbrace
<1>1. ASSUME IInv PROVE NoEmbrace
  <2> SUFFICES ASSUME Cardinality(Requests) <= PipeCap, again = {}, Embraced PROVE FALSE
    BY DEF NoEmbrace
  <2> DEFINE q == msg["serial"].r
             about == [i \in 1 .. PipeCap |-> requests[i].r]
  <2>1. /\ Types /\ HandInv /\ \A r \in Requests : RequestInv(r)
        /\ "serial" \in Threads /\ PipeCap \in Nat
    BY <1>1, DeviceAssumption DEF IInv, UnitInv, Threads
  <2>2. at["serial"] = "post" /\ phase["serial"] # "none" /\ Len(requests) = PipeCap
    BY DEF Embraced
  <2>3. q \in Requests /\ Has("serial", q)
    <3>1. msg["serial"] \in Copies
      BY <2>1, <2>2 DEF HandInv
    <3> QED
      BY <2>2, <3>1 DEF Has, Copies
  <2>4. \A i \in 1 .. PipeCap : i \in DOMAIN requests /\ requests[i] \in Copies
    <3>1. \A i \in 1 .. PipeCap : i \in DOMAIN requests /\ requests[i] \in Messages
      BY <2>1, <2>2, Elements
    <3> QED
      BY <2>1, <2>2, <3>1 DEF HandInv, Messages
  <2>5. \A i \in 1 .. PipeCap : requests[i].r \in Requests /\ Piped(i, requests[i].r)
    BY <2>4 DEF Copies, Piped
  <2>6. about \in [1 .. PipeCap -> Requests \ {q}]
    <3>1. \A i \in 1 .. PipeCap : ~ Piped(i, q)
      BY <2>1, <2>3, <2>4 DEF RequestInv, OnceInv
    <3>2. \A i \in 1 .. PipeCap : requests[i].r \in Requests \ {q}
      BY <2>5, <3>1
    <3> QED
      BY <3>2
  <2>7. \A i, j \in 1 .. PipeCap : about[i] = about[j] => i = j
    <3> SUFFICES ASSUME NEW i \in 1 .. PipeCap, NEW j \in 1 .. PipeCap, requests[i].r = requests[j].r
                 PROVE  i = j
      OBVIOUS
    <3>1. Piped(i, requests[i].r) /\ Piped(j, requests[i].r) /\ requests[i].r \in Requests
      BY <2>5
    <3> QED
      BY <2>1, <2>4, <3>1 DEF RequestInv, OnceInv
  <2> HIDE DEF about, q
  <2>8. /\ IsFiniteSet(1 .. PipeCap) /\ Cardinality(1 .. PipeCap) = PipeCap
        /\ IsFiniteSet(Requests \ {q}) /\ Cardinality(Requests \ {q}) < PipeCap
    <3>1. IsFiniteSet(1 .. PipeCap) /\ Cardinality(1 .. PipeCap) = PipeCap
      BY <2>1, FS_Interval
    <3>2. IsFiniteSet(Requests) /\ Cardinality(Requests) \in Nat
      BY DeviceAssumption, FS_CardinalityType
    <3>3. IsFiniteSet(Requests \ {q}) /\ Cardinality(Requests \ {q}) = Cardinality(Requests) - 1
      BY <2>3, <3>2, FS_RemoveElement
    <3> QED
      BY <2>1, <3>1, <3>2, <3>3
  <2>9. \E i, j \in 1 .. PipeCap : i # j /\ about[i] = about[j]
    <3>1. Cardinality(Requests \ {q}) < Cardinality(1 .. PipeCap)
      BY <2>8
    <3> QED
      BY <2>6, <2>8, <3>1, FS_PigeonHole
  <2> QED
    BY <2>7, <2>9
<1> QED
  BY <1>1, RequestInvariant, PTL
-----------------------------------------------------------------------------
(* What is never forgotten.  The three threads of an open unit run, Quit   *)
(* is written by the last of them that writes, and a unit is only closed   *)
(* with every request replied to.  A pipe_sem that is taken is somebody's. *)
Flooding == at["dev"] \in {"flood", "floodmark"}
QuitPiped == \E i \in DOMAIN requests : requests[i] = Quit
RunInv ==
  /\ at["cpu"] \in {"open", "run", "abort", "reset", "resetmark"} => at["serial"] # "off"
  /\ at["dev"] = "off" \/ QuitPiped => at["cpu"] \in {"closed", "sync", "over", "shared"}
  /\ at["cpu"] \in {"close", "closed", "open", "shared"} => \A r \in Requests : ~ Outstanding(r)
  /\ pipe_sem = 0 => \E t \in Threads : phase[t] = "write"

(* Most steps leave these things alone. *)
LEMMA RunsOn ==
  ASSUME RunInv, Types,
         UNCHANGED <<io, pipe_sem>>, requests' \in {requests, <<>>},
         \A t \in Threads : phase[t] = "write" => phase'[t] = "write",
         at'["serial"] = "off" => at["serial"] = "off", at'["dev"] = "off" => at["dev"] = "off",
         \/ at'["cpu"] = at["cpu"] \/ at'["cpu"] = "over"
         \/ at["cpu"] = "closed" /\ at'["cpu"] = "shared"
         \/ at["cpu"] = "open" /\ at'["cpu"] = "run"
         \/ /\ at["cpu"] \in {"run", "abort", "reset", "resetmark"}
            /\ at'["cpu"] \in {"run", "abort", "reset", "resetmark", "resetclose"}
  PROVE  RunInv'
<1>1. QuitPiped' => QuitPiped
  <2>1. DOMAIN <<>> = {}
    OBVIOUS
  <2> QED
    BY <2>1 DEF QuitPiped
<1>2. \A r \in Requests : Outstanding(r)' => Outstanding(r)
  BY DEF Outstanding
<1> QED
  BY <1>1, <1>2 DEF RunInv, Ended

LEMMA RunMoves == ASSUME UnitInv, RunInv, Moves PROVE RunInv'
<1> USE ThreadFacts DEF UnitInv
<1>1. CASE OpenNew
  <2>1. /\ at' = [cpu |-> "open", serial |-> "idle", dev |-> "start"] /\ requests' = <<>>
        /\ UNCHANGED <<io, pipe_sem, phase>> /\ at["cpu"] = "closed"
    BY <1>1 DEF OpenNew, OpenUnit, At, amiga
  <2>2. ~ QuitPiped'
    BY <2>1 DEF QuitPiped
  <2>3. at'["cpu"] = "open" /\ at'["serial"] = "idle" /\ at'["dev"] = "start"
    BY <2>1
  <2> QED
    BY <2>1, <2>2, <2>3 DEF RunInv, Outstanding
<1>2. CASE CloseUnit
  <2>1. /\ at["cpu"] = "run" /\ at' = [at EXCEPT !["cpu"] = "close"]
        /\ UNCHANGED <<io, requests, pipe_sem, phase>> /\ \A r \in Requests : ~ Outstanding(r)
    BY <1>2 DEF CloseUnit, At, Go, pipe
  <2> QED
    BY <2>1 DEF RunInv, Outstanding, QuitPiped
<1>3. CASE SerialEnds
  <2>1. /\ at["cpu"] \in {"close", "resetclose"} /\ at' = [at EXCEPT !["serial"] = "off"]
        /\ UNCHANGED <<io, requests, pipe_sem, phase>>
    BY <1>3 DEF SerialEnds, At, Go, amiga, pipe
  <2> QED
    BY <2>1 DEF RunInv, Outstanding, QuitPiped
<1>4. CASE \E t \in Threads : PipeSemWait(t)
  <2>1. PICK t \in Threads : PipeSemWait(t)
    BY <1>4
  <2>2. UNCHANGED <<io, requests, at>> /\ phase'[t] = "write"
    BY <2>1 DEF PipeSemWait, amiga
  <2> QED
    BY <2>2 DEF RunInv, Outstanding, QuitPiped
<1>5. CASE OpenWait \/ ResetUnit \/ ResetClose \/ SignalPost \/ DevStart
  BY <1>5, RunsOn DEF OpenWait, ResetUnit, ResetClose, SignalPost, DevStart, At, Go, amiga, pipe
<1>6. CASE ResetSync \/ ResetClosed
  BY <1>6, RunsOn DEF ResetSync, ResetClosed, At, Go, amiga, Ended
<1>7. CASE OpenShared
  BY <1>7, RunsOn DEF OpenShared, OpenUnit, At, amiga, Ended
<1> QED
  BY <1>1, <1>2, <1>3, <1>4, <1>5, <1>6, <1>7 DEF Moves

LEMMA RunOthers ==
  ASSUME UnitInv, RunInv, Aborts \/ Marks \/ Signals \/ Quits \/ Begins
  PROVE  RunInv'
<1> USE ThreadFacts DEF UnitInv
<1>1. CASE Aborts
  <2>1. PICK r : \/ At("cpu", "run") /\ Finds("cpu", r, "abort", "run")
                 \/ At("cpu", "reset") /\ Finds("cpu", r, "resetmark", "reset")
                 \/ At("dev", "flood") /\ Finds("dev", r, "floodmark", "flood")
    BY <1>1, AbortSteps
  <2>2. UNCHANGED <<io, requests, pipe_sem, phase>>
    BY <1>1, AbortSteps
  <2>3. CASE at["cpu"] \in {"run", "reset"} /\ \E p \in {"run", "abort", "reset", "resetmark"} :
               at' = [at EXCEPT !["cpu"] = p]
    BY <2>2, <2>3, RunsOn
  <2>4. CASE at["dev"] = "flood" /\ \E p \in {"flood", "floodmark"} : at' = [at EXCEPT !["dev"] = p]
    BY <2>2, <2>4, RunsOn
  <2> QED
    BY <2>1, <2>3, <2>4 DEF At, Finds
<1>2. CASE Marks
  <2>1. UNCHANGED <<io, requests, pipe_sem>>
    BY <1>2, MarkSteps
  <2>2. PICK t \in Threads :
          /\ phase[t] = "none" /\ phase' = [phase EXCEPT ![t] = "wait"]
          /\ \/ t = "cpu" /\ at[t] = "abort" /\ at' = [at EXCEPT ![t] = "run"]
             \/ t = "cpu" /\ at[t] = "resetmark" /\ at' = [at EXCEPT ![t] = "reset"]
             \/ t = "dev" /\ at[t] = "floodmark" /\ at' = [at EXCEPT ![t] = "flood"]
    BY <1>2, MarkSteps
  <2>3. \A u \in Threads : phase[u] = "write" => phase'[u] = "write"
    BY <2>2
  <2> QED
    BY <2>1, <2>2, <2>3, RunsOn
<1>3. CASE Signals
  <2>1. PICK m : Starts("serial", m, "post")
    BY <1>3, SignalSteps
  <2>2. UNCHANGED <<io, requests, pipe_sem>> /\ phase["serial"] = "none"
    BY <1>3, <2>1, SignalSteps DEF Starts, At
  <2>3. \A u \in Threads : phase[u] = "write" => phase'[u] = "write"
    BY <2>1, <2>2 DEF Starts
  <2>4. at' = [at EXCEPT !["serial"] = "post"]
    BY <2>1 DEF Starts
  <2> QED
    BY <2>2, <2>3, <2>4, RunsOn
<1>4. CASE Quits
  <2>1. /\ UNCHANGED <<io, requests, pipe_sem>> /\ at["cpu"] \in {"close", "resetclose"}
        /\ phase["cpu"] = "none" /\ phase' = [phase EXCEPT !["cpu"] = "wait"]
        /\ \/ at["cpu"] = "close" /\ at' = [at EXCEPT !["cpu"] = "closed"]
           \/ at["cpu"] = "resetclose" /\ at' = [at EXCEPT !["cpu"] = "sync"]
    BY <1>4 DEF Quits, CloseSend, ResetSend, Send, At, Go, amiga
  <2>2. (\E t \in Threads : phase[t] = "write") => \E t \in Threads : phase'[t] = "write"
    BY <2>1
  <2> QED
    BY <2>1, <2>2 DEF RunInv, Outstanding, QuitPiped
<1>5. CASE Begins
  <2>1. PICK r \in Requests, kind \in Kinds : BeginIO(r, kind)
    BY <1>5 DEF Begins
  <2>2. /\ UNCHANGED <<requests, pipe_sem>> /\ at["cpu"] = "run" /\ at' = [at EXCEPT !["cpu"] = "run"]
        /\ phase["cpu"] = "none" /\ phase' = [phase EXCEPT !["cpu"] = "wait"]
    BY <2>1 DEF BeginIO, Send, At, Go
  <2>3. (\E t \in Threads : phase[t] = "write") => \E t \in Threads : phase'[t] = "write"
    BY <2>2
  <2> QED
    BY <2>2, <2>3 DEF RunInv, QuitPiped
<1> QED
  BY <1>1, <1>2, <1>3, <1>4, <1>5

(* What a read takes from the pipe, and what a write adds to it.           *)
LEMMA PipeRead ==
  ASSUME Types, requests # <<>>, requests' = Tail(requests)
  PROVE  /\ Len(requests) \in Nat /\ Len(requests) > 0 /\ DOMAIN requests = 1 .. Len(requests)
         /\ Head(requests) = requests[1] /\ DOMAIN requests' = 1 .. Len(requests) - 1
         /\ \A i \in DOMAIN requests' : i + 1 \in DOMAIN requests /\ requests'[i] = requests[i + 1]
         /\ \A i \in DOMAIN requests : i = 1 \/ (i - 1 \in DOMAIN requests' /\ requests'[i - 1] = requests[i])
<1>1. requests \in Seq(Messages) /\ requests # <<>>
  BY DEF Types
<1>2. /\ Head(requests) = requests[1] /\ Tail(requests) \in Seq(Messages)
      /\ Len(Tail(requests)) = Len(requests) - 1 /\ Len(requests) \in Nat
      /\ \A i \in 1 .. Len(requests) - 1 : Tail(requests)[i] = requests[i + 1]
  BY <1>1, HeadTailProperties, LenProperties
<1>3. Len(requests) > 0
  BY <1>1, EmptySeq, LenProperties
<1>4. DOMAIN Tail(requests) = 1 .. Len(requests) - 1 /\ DOMAIN requests = 1 .. Len(requests)
  BY <1>1, <1>2, LenProperties
<1>5. \A i \in DOMAIN requests' : i + 1 \in DOMAIN requests /\ requests'[i] = requests[i + 1]
  BY <1>2, <1>4
<1>6. \A i \in DOMAIN requests : i = 1 \/ (i - 1 \in DOMAIN requests' /\ requests'[i - 1] = requests[i])
  <2> SUFFICES ASSUME NEW i \in DOMAIN requests, i # 1
               PROVE  i - 1 \in DOMAIN requests' /\ requests'[i - 1] = requests[i]
    OBVIOUS
  <2>1. i - 1 \in 1 .. Len(requests) - 1 /\ (i - 1) + 1 = i
    BY <1>2, <1>4
  <2> QED
    BY <1>2, <1>4, <2>1
<1> QED
  BY <1>2, <1>3, <1>4, <1>5, <1>6

LEMMA PipeWritten ==
  ASSUME Types, NEW t \in Threads, requests' = Append(requests, msg[t])
  PROVE  /\ Len(requests) \in Nat /\ DOMAIN requests = 1 .. Len(requests)
         /\ DOMAIN requests' = 1 .. Len(requests) + 1
         /\ Len(requests) + 1 \in DOMAIN requests' /\ requests'[Len(requests) + 1] = msg[t]
         /\ \A i \in DOMAIN requests : i \in DOMAIN requests' /\ requests'[i] = requests[i]
         /\ \A i \in DOMAIN requests' : requests'[i] = msg[t] \/ (i \in DOMAIN requests /\ requests'[i] = requests[i])
<1>1. /\ Len(requests) \in Nat /\ DOMAIN requests = 1 .. Len(requests)
      /\ DOMAIN requests' = 1 .. Len(requests) + 1 /\ requests'[Len(requests) + 1] = msg[t]
      /\ \A i \in 1 .. Len(requests) : requests'[i] = requests[i]
  BY Elements, AppendProperties, LenProperties DEF Types
<1>2. \A i \in 1 .. Len(requests) + 1 : i = Len(requests) + 1 \/ i \in 1 .. Len(requests)
  BY <1>1
<1>3. Len(requests) + 1 \in 1 .. Len(requests) + 1
      /\ \A i \in 1 .. Len(requests) : i \in 1 .. Len(requests) + 1
  BY <1>1
<1> QED
  BY <1>1, <1>2, <1>3

LEMMA RunDevs ==
  ASSUME UnitInv, RunInv, DevSteps \/ Writes
  PROVE  RunInv'
<1> USE ThreadFacts DEF UnitInv
<1>1. CASE DevRead
  <2>1. /\ UNCHANGED <<io, pipe_sem, phase>> /\ requests # <<>> /\ requests' = Tail(requests)
        /\ \/ Head(requests) = Quit /\ at' = [at EXCEPT !["dev"] = "off"]
           \/ at' = [at EXCEPT !["dev"] = "lookup"]
    BY <1>1 DEF DevRead, Go, amiga
  <2>2. at'["cpu"] = at["cpu"] /\ at'["serial"] = at["serial"]
    BY <2>1
  <2>3. QuitPiped' => QuitPiped
    BY <2>1, PipeRead DEF QuitPiped
  <2>4. Head(requests) = Quit => QuitPiped
    <3>1. 1 \in DOMAIN requests
      BY <2>1, PipeRead
    <3> QED
      BY <2>1, <3>1, PipeRead DEF QuitPiped
  <2>5. at'["dev"] = "off" => QuitPiped
    BY <2>1, <2>4
  <2> QED
    BY <2>1, <2>2, <2>3, <2>5 DEF RunInv, Outstanding
<1>2. CASE DevLookup \/ DevRelease \/ DevAdd
  <2>1. UNCHANGED <<io, requests, pipe_sem, phase>>
        /\ \E p \in {"reply", "io", "read"} : at' = [at EXCEPT !["dev"] = p]
    BY <1>2 DEF DevLookup, DevRelease, DevAdd, Go, amiga, pipe
  <2> QED
    BY <2>1, RunsOn
<1>3. CASE DevReply \/ DevIO
  <2>1. UNCHANGED <<requests, pipe_sem, phase>>
        /\ \E p \in {"release", "read", "add", "flood"} : at' = [at EXCEPT !["dev"] = p]
    BY <1>3 DEF DevReply, DevIO, Go, pipe
  <2>2. io' = io \/ ReplyMsg(msg["dev"].r)
    BY <1>3 DEF DevReply, DevIO
  <2>3. \A r \in Requests : Outstanding(r)' => Outstanding(r)
    <3> SUFFICES ASSUME NEW r \in Requests
                 PROVE  io'[r].begun > io'[r].replied => io[r].begun > io[r].replied
      BY DEF Outstanding
    <3>1. io[r].begun \in Nat /\ io[r].replied \in Nat
      BY DEF Types
    <3>2. io'[r].begun = io[r].begun /\ (io'[r].replied = io[r].replied \/ io'[r].replied = io[r].replied + 1)
      <4>1. io[r] \in [begun : Nat, replied : Nat, kind : AllKinds]
        BY DEF Types
      <4>2. CASE io' = io
        BY <4>2
      <4>3. CASE ReplyMsg(msg["dev"].r) /\ msg["dev"].r # r
        BY <4>3 DEF ReplyMsg, Types
      <4>4. CASE ReplyMsg(r)
        BY <4>1, <4>4 DEF ReplyMsg, Types
      <4> QED
        BY <2>2, <4>2, <4>3, <4>4
    <3> QED
      BY <3>1, <3>2
  <2>4. at'["cpu"] = at["cpu"] /\ at'["serial"] = at["serial"] /\ at'["dev"] # "off"
    BY <2>1
  <2> QED
    BY <2>1, <2>3, <2>4 DEF RunInv, QuitPiped
<1>4. CASE Writes
  <2>1. PICK t \in Threads : WriteMessage(t)
    BY <1>4 DEF Writes
  <2>2. /\ UNCHANGED <<io, at, msg>> /\ requests' = Append(requests, msg[t])
        /\ phase[t] = "write" /\ pipe_sem' = pipe_sem + 1
    BY <2>1 DEF WriteMessage, amiga
  <2>3. QuitPiped' => QuitPiped \/ msg[t] = Quit
    BY <2>2, PipeWritten DEF QuitPiped
  <2>4. msg[t] = Quit => at["cpu"] \in {"closed", "sync"}
    <3>1. msg[t] = Quit => at[t] \in {"closed", "sync"}
      BY <2>2, QuitIsNoCopy DEF HandInv
    <3>2. t = "cpu" \/ at[t] \notin {"closed", "sync"}
      BY DEF PlaceInv, SerialPlaces, DevPlaces
    <3> QED
      BY <3>1, <3>2
  <2>5. pipe_sem' # 0
    BY <2>2 DEF SemInv
  <2> QED
    BY <2>2, <2>3, <2>4, <2>5 DEF RunInv, Outstanding
<1> QED
  BY <1>1, <1>2, <1>3, <1>4 DEF DevSteps

LEMMA RunKept == ASSUME UnitInv, RunInv, [Next]_vars PROVE RunInv'
<1>1. CASE Moves
  BY <1>1, RunMoves
<1>2. CASE Aborts \/ Marks \/ Signals \/ Quits \/ Begins
  BY <1>2, RunOthers
<1>3. CASE DevSteps \/ Writes
  BY <1>3, RunDevs
<1>4. CASE UNCHANGED vars
  BY <1>4 DEF vars, amiga, pipe, RunInv, Outstanding, QuitPiped
<1> QED
  BY <1>1, <1>2, <1>3, <1>4, Steps

(* The waits for dev_thread: when the unit is opened and when a reset      *)
(* closes it, the post is there or dev_thread will make it, as the message *)
(* that ends it is on its way.                                             *)
HandshakeInv ==
  /\ at["cpu"] = "open" => at["dev"] = "start" \/ sync_sem > 0
  /\ at["cpu"] = "sync" /\ at["dev"] = "off" => sync_sem > 0
  /\ at["cpu"] \in {"closed", "sync"} /\ at["dev"] # "off" =>
       QuitPiped \/ (phase["cpu"] # "none" /\ msg["cpu"] = Quit)

LEMMA HandshakeMoves == ASSUME UnitInv, HandshakeInv, Moves PROVE HandshakeInv'
<1> USE ThreadFacts DEF UnitInv
<1>1. CASE OpenNew
  BY <1>1 DEF OpenNew, OpenUnit, HandshakeInv
<1>6. CASE OpenShared
  BY <1>6 DEF OpenShared, OpenUnit, HandshakeInv
<1>2. CASE OpenWait \/ CloseUnit \/ ResetUnit \/ ResetClose \/ ResetSync \/ ResetClosed
  BY <1>2 DEF OpenWait, CloseUnit, ResetUnit, ResetClose, ResetSync, ResetClosed, Go, HandshakeInv
<1>3. CASE SignalPost \/ SerialEnds
  BY <1>3 DEF SignalPost, SerialEnds, Go, pipe, HandshakeInv, QuitPiped
<1>4. CASE DevStart
  <2>1. /\ at["dev"] = "start" /\ at' = [at EXCEPT !["dev"] = "read"] /\ sync_sem' = sync_sem + 1
        /\ UNCHANGED <<requests, phase, msg>> /\ sync_sem \in Nat
    BY <1>4 DEF DevStart, At, Go, pipe, SyncInv, Ended
  <2> QED
    BY <2>1 DEF HandshakeInv, QuitPiped
<1>5. CASE \E t \in Threads : PipeSemWait(t)
  <2>1. UNCHANGED <<requests, at, msg, sync_sem>> /\ (phase["cpu"] # "none" => phase'["cpu"] # "none")
    BY <1>5 DEF PipeSemWait
  <2> QED
    BY <2>1 DEF HandshakeInv, QuitPiped
<1> QED
  BY <1>1, <1>2, <1>3, <1>4, <1>5, <1>6 DEF Moves

LEMMA HandshakeKept == ASSUME UnitInv, RunInv, HandshakeInv, [Next]_vars PROVE HandshakeInv'
<1> USE ThreadFacts DEF UnitInv
<1>1. CASE Moves
  BY <1>1, HandshakeMoves
<1>2. CASE Aborts
  <2>1. PICK r : \/ At("cpu", "run") /\ Finds("cpu", r, "abort", "run")
                 \/ At("cpu", "reset") /\ Finds("cpu", r, "resetmark", "reset")
                 \/ At("dev", "flood") /\ Finds("dev", r, "floodmark", "flood")
    BY <1>2, AbortSteps
  <2>2. UNCHANGED <<requests, phase, sync_sem>>
    BY <1>2, AbortSteps
  <2>3. CASE \E p \in {"run", "abort", "reset", "resetmark"} : at' = [at EXCEPT !["cpu"] = p]
    BY <2>3 DEF HandshakeInv
  <2>4. CASE /\ at["dev"] = "flood" /\ \E p \in {"flood", "floodmark"} : at' = [at EXCEPT !["dev"] = p]
             /\ msg'["cpu"] = msg["cpu"]
    BY <2>2, <2>4 DEF HandshakeInv, QuitPiped
  <2> QED
    BY <2>1, <2>3, <2>4 DEF At, Finds
<1>3. CASE Marks
  <2>1. UNCHANGED <<requests, sync_sem>>
    BY <1>3, MarkSteps
  <2>2. PICK t \in Threads :
          /\ phase' = [phase EXCEPT ![t] = "wait"] /\ msg' = [msg EXCEPT ![t] = msg[t]]
          /\ \/ t = "cpu" /\ at' = [at EXCEPT ![t] = "run"]
             \/ t = "cpu" /\ at' = [at EXCEPT ![t] = "reset"]
             \/ t = "dev" /\ at[t] = "floodmark" /\ at' = [at EXCEPT ![t] = "flood"]
    BY <1>3, MarkSteps
  <2>3. msg' = msg
    BY <2>2
  <2> QED
    BY <2>1, <2>2, <2>3 DEF HandshakeInv, QuitPiped
<1>4. CASE Signals
  <2>1. PICK m : Starts("serial", m, "post")
    BY <1>4, SignalSteps
  <2>2. sync_sem' = sync_sem
    BY <1>4, SignalSteps
  <2> QED
    BY <2>1, <2>2 DEF Starts, HandshakeInv, QuitPiped
<1>5. CASE Quits
  <2>1. /\ msg'["cpu"] = Quit /\ phase'["cpu"] # "none" /\ at'["cpu"] \in {"closed", "sync"}
        /\ at'["dev"] = at["dev"] /\ at["cpu"] \in {"close", "resetclose"}
    BY <1>5 DEF Quits, CloseSend, ResetSend, Send, At, Go
  <2>2. at["dev"] # "off"
    BY <2>1 DEF RunInv
  <2> QED
    BY <2>1, <2>2 DEF HandshakeInv
<1>6. CASE Begins
  BY <1>6 DEF Begins, BeginIO, Send, Go, HandshakeInv
<1>7. CASE DevSteps
  <2>1. CASE DevRead
    <3>1. /\ requests # <<>> /\ requests' = Tail(requests) /\ at["dev"] = "read"
          /\ msg' = [msg EXCEPT !["dev"] = Head(requests)] /\ phase' = phase
          /\ \/ /\ Head(requests) = Quit /\ at' = [at EXCEPT !["dev"] = "off"]
                /\ sync_sem' = sync_sem + 1
             \/ /\ Head(requests) # Quit /\ at' = [at EXCEPT !["dev"] = "lookup"]
                /\ sync_sem' = sync_sem
      BY <2>1 DEF DevRead, At, Go, pipe
    <3>2. sync_sem \in Nat
      BY DEF SyncInv, Ended
    <3>3. ASSUME Head(requests) # Quit, QuitPiped PROVE QuitPiped'
      <4>1. PICK i \in DOMAIN requests : requests[i] = Quit
        BY <3>3 DEF QuitPiped
      <4>2. i # 1 /\ i - 1 \in DOMAIN requests' /\ requests'[i - 1] = requests[i]
        BY <3>1, <3>3, <4>1, PipeRead
      <4> QED
        BY <4>1, <4>2 DEF QuitPiped
    <3> QED
      BY <3>1, <3>2, <3>3 DEF HandshakeInv
  <2>2. CASE ~ DevRead
    <3>1. /\ UNCHANGED <<requests, phase, msg, sync_sem>> /\ at["dev"] \notin {"off", "start"}
          /\ \E p \in DevPlaces \ {"off"} : at' = [at EXCEPT !["dev"] = p]
      BY <1>7, <2>2 DEF DevSteps, DevLookup, DevReply, DevRelease, DevIO, DevAdd, At, Go, pipe, DevPlaces
    <3> QED
      BY <3>1 DEF HandshakeInv, QuitPiped
  <2> QED
    BY <2>1, <2>2
<1>8. CASE Writes
  <2>1. PICK t \in Threads : WriteMessage(t)
    BY <1>8 DEF Writes
  <2>2. /\ UNCHANGED <<at, msg, sync_sem>> /\ requests' = Append(requests, msg[t])
        /\ phase' = [phase EXCEPT ![t] = "none"]
    BY <2>1 DEF WriteMessage
  <2>3. (QuitPiped => QuitPiped') /\ (msg[t] = Quit => QuitPiped')
    BY <2>2, PipeWritten DEF QuitPiped
  <2>4. t # "cpu" => phase'["cpu"] = phase["cpu"]
    BY <2>2
  <2> QED
    BY <2>2, <2>3, <2>4 DEF HandshakeInv
<1>9. CASE UNCHANGED vars
  BY <1>9 DEF vars, pipe, HandshakeInv, QuitPiped
<1> QED
  BY <1>1, <1>2, <1>3, <1>4, <1>5, <1>6, <1>7, <1>8, <1>9, Steps
-----------------------------------------------------------------------------
(* The sending of r that waits for its reply.  It is in the hands of a     *)
(* thread, in the pipe, or in the list; in the list only if it may have to *)
(* wait, neither completed nor found by an abort.  An abort that found it  *)
(* found it there.  With CMD_RESET in its hands, dev_thread may never come *)
(* to anything else (Flooded).                                             *)
Sending(r) == Copy(r, io[r].begun, io[r].kind)
Found(r)   == <<r, io[r].begun>> \in aborted \ missed
Carried(r) == \E t \in Threads : Has(t, r) /\ msg[t] = Sending(r)
Queued(r)  == \E i \in DOMAIN requests : requests[i] = Sending(r)
Waits(r)   ==
  (\E i \in DOMAIN ar : ar[i].copy = Sending(r) /\ ~ ar[i].ready) /\ io[r].kind \in Async /\ ~ Found(r)
HomeInv(r) == Outstanding(r) => Carried(r) \/ Queued(r) \/ Waits(r)
FoundInv(r) ==
  /\ \A n \in Nat : <<r, n>> \in aborted => n <= io[r].begun
  /\ Outstanding(r) /\ Found(r) => \E i \in DOMAIN ar : Listed(i, r) /\ ar[i].copy.n = io[r].begun
KeepsInv(r) == HomeInv(r) /\ FoundInv(r)

Stands  == ~ Ended /\ ~ Flooding
KeptInv ==
  IInv /\ RunInv /\ HandshakeInv /\ (Stands => \A r \in Requests \ again : KeepsInv(r))

(* A step that takes no message about r from a thread or the pipe, and     *)
(* completes, removes or finds no entry that waits.                        *)
LEMMA Unmoved ==
  ASSUME NEW r, KeepsInv(r), io'[r] = io[r],
         \A t \in Threads : Has(t, r) => Has(t, r)' /\ msg'[t] = msg[t],
         \A i \in DOMAIN requests : requests[i] = Sending(r) =>
           \E j \in DOMAIN requests' : requests'[j] = requests[i],
         \A i \in DOMAIN ar : Listed(i, r) =>
           \E j \in DOMAIN ar' : ar'[j].copy = ar[i].copy /\ (~ ar[i].ready => ~ ar'[j].ready),
         <<r, io[r].begun>> \in aborted' \ missed' => Found(r),
         \A n \in Nat : <<r, n>> \in aborted' => n <= io[r].begun
  PROVE  KeepsInv(r)'
<1>1. Sending(r)' = Sending(r) /\ (Outstanding(r)' <=> Outstanding(r)) /\ (Found(r)' => Found(r))
  BY DEF Sending, Copy, Outstanding, Found
<1>2. Sending(r).r = r
  BY DEF Sending, Copy
<1>3. Carried(r) => Carried(r)'
  BY <1>1 DEF Carried
<1>4. Queued(r) => Queued(r)'
  BY <1>1 DEF Queued
<1>5. Waits(r) => Waits(r)'
  BY <1>1, <1>2 DEF Waits, Listed
<1>6. HomeInv(r)'
  BY <1>1, <1>3, <1>4, <1>5 DEF KeepsInv, HomeInv
<1>7. FoundInv(r)'
  <2>1. \A n \in Nat : <<r, n>> \in aborted' => n <= io'[r].begun
    OBVIOUS
  <2>2. ASSUME Outstanding(r)', Found(r)'
        PROVE  \E i \in DOMAIN ar' : Listed(i, r)' /\ ar'[i].copy.n = io'[r].begun
    <3>1. PICK i \in DOMAIN ar : Listed(i, r) /\ ar[i].copy.n = io[r].begun
      BY <1>1, <2>2 DEF KeepsInv, FoundInv
    <3>2. PICK j \in DOMAIN ar' : ar'[j].copy = ar[i].copy
      BY <3>1
    <3> QED
      BY <3>1, <3>2 DEF Listed
  <2> QED
    BY <2>1, <2>2 DEF FoundInv
<1> QED
  BY <1>6, <1>7 DEF KeepsInv

(* A thread takes the entry e that waits for r, and marks it ready.        *)
LEMMA Taken ==
  ASSUME IInv, NEW r \in Requests, RequestInv(r), KeepsInv(r), NEW t \in Threads,
         NEW e \in 1 .. Len(ar), ar[e].copy.r = r, ~ ar[e].ready,
         ar' = [ar EXCEPT ![e].ready = TRUE], msg' = [msg EXCEPT ![t] = ar[e].copy], io' = io,
         at'[t] \in Holding \/ phase'[t] # "none",
         \A n \in Nat : <<r, n>> \in aborted' => <<r, n>> \in aborted \/ n = io[r].begun
  PROVE  KeepsInv(r)'
<1>1. /\ Types /\ DOMAIN ar = 1 .. Len(ar) /\ ar[e] \in Entries
      /\ msg \in [Threads -> Messages] /\ io[r].begun \in Nat
  BY Elements DEF IInv, UnitInv, Types
<1>2. ar[e].copy.n \in Nat \ {0}
  BY <1>1 DEF Entries, Copies
<1>3. Outstanding(r) /\ ar[e].copy.n = io[r].begun /\ ~ InHand(r)
  BY <1>1 DEF RequestInv, EntryInv, Listed, Current
<1>4. Sending(r).r = r /\ Sending(r).n = io[r].begun
  BY DEF Sending, Copy
<1>5. ~ Carried(r) /\ ~ Queued(r)
  <2>1. ~ Carried(r)
    BY <1>3 DEF Carried, InHand
  <2>2. ~ Queued(r)
    BY <1>2, <1>3, <1>4 DEF Queued, InHand, Piped
  <2> QED
    BY <2>1, <2>2
<1>6. ar[e].copy = Sending(r)
  <2>1. PICK i \in DOMAIN ar : ar[i].copy = Sending(r)
    BY <1>3, <1>5 DEF KeepsInv, HomeInv, Waits
  <2>2. i = e
    BY <1>1, <1>4, <2>1 DEF RequestInv, OnceInv, Listed
  <2> QED
    BY <2>1, <2>2
<1>7. msg'[t] = Sending(r) /\ Sending(r)' = Sending(r)
  BY <1>1, <1>6 DEF Sending, Copy
<1>8. HomeInv(r)'
  <2>1. Has(t, r)'
    BY <1>2, <1>3, <1>4, <1>7 DEF Has
  <2> QED
    BY <1>7, <2>1 DEF HomeInv, Carried
<1>9. FoundInv(r)'
  <2>1. \A n \in Nat : <<r, n>> \in aborted' => n <= io[r].begun
    BY <1>1 DEF KeepsInv, FoundInv
  <2>2. e \in DOMAIN ar' /\ ar'[e].copy = ar[e].copy
    <3>1. /\ ar' \in Seq(Entries) /\ Len(ar') = Len(ar) /\ ar'[e].copy = ar[e].copy
      BY <1>1, Marked
    <3> QED
      BY <3>1, LenProperties
  <2> QED
    BY <1>3, <2>1, <2>2 DEF FoundInv, Listed
<1> QED
  BY <1>8, <1>9 DEF KeepsInv

(* Entries when one of them, not one that waits for r, is marked ready.    *)
LEMMA Others ==
  ASSUME Types, NEW r, NEW e \in 1 .. Len(ar), ar' = [ar EXCEPT ![e].ready = TRUE],
         ar[e].copy.r = r => ar[e].ready
  PROVE  \A i \in DOMAIN ar : Listed(i, r) =>
           \E j \in DOMAIN ar' : ar'[j].copy = ar[i].copy /\ (~ ar[i].ready => ~ ar'[j].ready)
<1>1. /\ ar' \in Seq(Entries) /\ Len(ar') = Len(ar)
      /\ \A i \in 1 .. Len(ar) : ar'[i].copy = ar[i].copy /\ (i # e => ar'[i] = ar[i])
  BY Marked
<1>2. DOMAIN ar' = 1 .. Len(ar) /\ DOMAIN ar = 1 .. Len(ar)
  BY <1>1, Elements, LenProperties
<1>3. \A i \in 1 .. Len(ar) : Listed(i, r) =>
        ar'[i].copy = ar[i].copy /\ (~ ar[i].ready => ~ ar'[i].ready)
  BY <1>1 DEF Listed
<1> QED
  BY <1>2, <1>3

-----------------------------------------------------------------------------
(* The steps. *)
LEMMA MovesLeave ==
  ASSUME KeptInv, Moves, at'["cpu"] \notin {"over", "shared", "open"}, NEW r \in Requests, KeepsInv(r)
  PROVE  KeepsInv(r)'
<1>0. Types
  BY DEF KeptInv, IInv, UnitInv
<1> USE <1>0, ThreadFacts
<1>1. ~ OpenNew /\ ~ OpenShared /\ ~ ResetSync /\ ~ ResetClosed
  BY DEF OpenNew, OpenShared, OpenUnit, ResetSync, ResetClosed, Go
<1>2. UNCHANGED <<io, ar, requests, msg, aborted, missed>>
  BY <1>1 DEF Moves, OpenWait, CloseUnit, ResetUnit, ResetClose, SignalPost, SerialEnds, DevStart,
     PipeSemWait, amiga, list, pipe, hist
<1>3. \A t \in Threads : at[t] \in Holding \/ phase[t] # "none" => at'[t] \in Holding \/ phase'[t] # "none"
  <2>1. CASE OpenWait \/ CloseUnit \/ ResetUnit \/ ResetClose
    BY <2>1 DEF OpenWait, CloseUnit, ResetUnit, ResetClose, At, Go, Holding, pipe
  <2>2. CASE SignalPost \/ SerialEnds \/ DevStart
    BY <2>2 DEF SignalPost, SerialEnds, DevStart, At, Go, Holding, pipe
  <2>3. CASE \E t \in Threads : PipeSemWait(t)
    BY <2>3 DEF PipeSemWait
  <2> QED
    BY <1>1, <2>1, <2>2, <2>3 DEF Moves
<1>4. \A t \in Threads : Has(t, r) => Has(t, r)'
  BY <1>2, <1>3 DEF Has
<1>5. \A n \in Nat : <<r, n>> \in aborted' => n <= io[r].begun
  BY <1>2 DEF KeepsInv, FoundInv
<1>6. <<r, io[r].begun>> \in aborted' \ missed' => Found(r)
  BY <1>2 DEF Found
<1> QED
  BY <1>2, <1>4, <1>5, <1>6, Unmoved

(* What the aborts that are not those of CMD_RESET note.                   *)
LEMMA FindSteps ==
  ASSUME Types, Aborts, at'["dev"] \notin {"flood", "floodmark"}
  PROVE  /\ UNCHANGED <<io, requests, phase>>
         /\ at["cpu"] \in {"run", "reset"} /\ phase["cpu"] = "none"
         /\ \E q, now : \E found \in {"abort", "resetmark"}, missing \in {"run", "reset"} :
              /\ Finds("cpu", q, found, missing) /\ now \subseteq {<<q, io[q].begun>>}
              /\ aborted' = aborted \cup now
              /\ missed' = IF InList(q) THEN missed ELSE missed \cup now
<1> USE ThreadFacts
<1>1. ~ DevFlood
  BY DEF DevFlood, AbortFind, At, Go
<1>2. CASE \E q \in Requests : AbortIO(q)
  <2>1. PICK q \in Requests : AbortIO(q)
    BY <1>2
  <2>2. UNCHANGED <<io, requests, phase>> /\ at["cpu"] = "run" /\ phase["cpu"] = "none"
        /\ Finds("cpu", q, "abort", "run")
    BY <2>1 DEF AbortIO, AbortFind, Finds, At, Go, pipe
  <2> DEFINE now == IF Outstanding(q) THEN {<<q, io[q].begun>>} ELSE {}
  <2>3. aborted' = aborted \cup now /\ missed' = IF InList(q) THEN missed ELSE missed \cup now
    BY <2>1 DEF AbortIO
  <2>4. now \subseteq {<<q, io[q].begun>>}
    OBVIOUS
  <2> HIDE DEF now
  <2> QED
    BY <2>2, <2>3, <2>4
<1>3. CASE ResetAbort
  <2>1. UNCHANGED <<io, requests, phase, aborted, missed>> /\ at["cpu"] = "reset" /\ phase["cpu"] = "none"
        /\ Finds("cpu", ar[1].copy.r, "resetmark", "reset")
    BY <1>3 DEF ResetAbort, AbortFind, Finds, At, Go, pipe, amiga
  <2> DEFINE q == ar[1].copy.r
             now == {}
  <2>2. aborted' = aborted \cup now /\ missed' = IF InList(q) THEN missed ELSE missed \cup now
    BY <2>1
  <2>3. now \subseteq {<<q, io[q].begun>>} /\ Finds("cpu", q, "resetmark", "reset")
    BY <2>1
  <2> HIDE DEF now, q
  <2> QED
    BY <2>1, <2>2, <2>3
<1> QED
  BY <1>1, <1>2, <1>3 DEF Aborts

LEMMA AbortsLeave ==
  ASSUME KeptInv, Aborts, at'["dev"] \notin {"flood", "floodmark"},
         NEW r \in Requests \ again', RequestInv(r), KeepsInv(r)
  PROVE  KeepsInv(r)'
<1>0. Types /\ IInv
  BY DEF KeptInv, IInv, UnitInv
<1> USE <1>0, ThreadFacts
<1>1. /\ UNCHANGED <<io, requests, phase>>
      /\ at["cpu"] \in {"run", "reset"} /\ phase["cpu"] = "none"
  BY FindSteps
<1>2. PICK q, now : \E found \in {"abort", "resetmark"}, missing \in {"run", "reset"} :
        /\ Finds("cpu", q, found, missing) /\ now \subseteq {<<q, io[q].begun>>}
        /\ aborted' = aborted \cup now
        /\ missed' = IF InList(q) THEN missed ELSE missed \cup now
  BY FindSteps
<1>3. PICK found \in {"abort", "resetmark"}, missing \in {"run", "reset"} :
        Finds("cpu", q, found, missing)
  BY <1>2
<1>4. \A n \in Nat : <<r, n>> \in aborted' => <<r, n>> \in aborted \/ n = io[r].begun
  BY <1>2
<1>5. \A n \in Nat : <<r, n>> \in aborted' => n <= io[r].begun
  BY <1>4 DEF KeepsInv, FoundInv, Types
<1>6. ~ Has("cpu", r)
  BY <1>1 DEF Has, Holding
<1>7. CASE InList(q)
  <2>1. /\ Entry(q) \in 1 .. Len(ar) /\ ar[Entry(q)].copy.r = q
        /\ ar' = [ar EXCEPT ![Entry(q)].ready = TRUE] /\ msg' = [msg EXCEPT !["cpu"] = ar[Entry(q)].copy]
        /\ again' = (IF ar[Entry(q)].ready THEN again \cup {q} ELSE again)
        /\ at' = [at EXCEPT !["cpu"] = found]
    BY <1>7, <1>3, EntryIsListed DEF Finds
  <2>2. q = r => ~ ar[Entry(q)].ready
    BY <2>1
  <2>3. CASE q = r
    <3>1. at'["cpu"] \in Holding
      BY <2>1 DEF Holding
    <3>2. r \in Requests /\ "cpu" \in Threads /\ io' = io
      BY <1>1
    <3> QED
      BY <1>4, <2>1, <2>2, <2>3, <3>1, <3>2, Taken
  <2>4. CASE q # r
    <3>1. \A t \in Threads : Has(t, r) => Has(t, r)' /\ msg'[t] = msg[t]
      BY <1>1, <1>6, <2>1 DEF Has
    <3>2. <<r, io[r].begun>> \in aborted' \ missed' => Found(r)
      BY <1>2, <1>7, <2>4 DEF Found
    <3>3. \A i \in DOMAIN ar : Listed(i, r) =>
            \E j \in DOMAIN ar' : ar'[j].copy = ar[i].copy /\ (~ ar[i].ready => ~ ar'[j].ready)
      BY <2>1, <2>4, Others
    <3> QED
      BY <1>1, <1>5, <3>1, <3>2, <3>3, Unmoved
  <2> QED
    BY <2>3, <2>4
<1>8. CASE ~ InList(q)
  <2>1. UNCHANGED <<ar, msg>> /\ at' = [at EXCEPT !["cpu"] = missing]
    BY <1>8, <1>3 DEF Finds
  <2>2. \A t \in Threads : Has(t, r) => Has(t, r)' /\ msg'[t] = msg[t]
    BY <1>1, <1>6, <2>1 DEF Has
  <2>3. <<r, io[r].begun>> \in aborted' \ missed' => Found(r)
    BY <1>2, <1>8 DEF Found
  <2> QED
    BY <1>1, <1>5, <2>1, <2>2, <2>3, Unmoved
<1> QED
  BY <1>7, <1>8

LEMMA SignalsLeave ==
  ASSUME KeptInv, Signals, NEW r \in Requests, RequestInv(r), KeepsInv(r)
  PROVE  KeepsInv(r)'
<1>0. Types /\ IInv
  BY DEF KeptInv, IInv, UnitInv
<1> USE <1>0, ThreadFacts
<1>1. at["serial"] = "idle" /\ phase["serial"] = "none" /\ UNCHANGED <<io, aborted, missed>>
  BY SignalSteps DEF At
<1>2. PICK e \in 1 .. Len(ar) :
        ~ ar[e].ready /\ ar' = [ar EXCEPT ![e].ready = TRUE] /\ Starts("serial", ar[e].copy, "post")
  BY SignalSteps
<1>3. /\ msg' = [msg EXCEPT !["serial"] = ar[e].copy] /\ phase' = [phase EXCEPT !["serial"] = "wait"]
      /\ at' = [at EXCEPT !["serial"] = "post"] /\ UNCHANGED requests
  BY <1>2 DEF Starts
<1>4. CASE ar[e].copy.r = r
  <2>1. phase'["serial"] # "none" /\ "serial" \in Threads
    BY <1>3
  <2>2. \A n \in Nat : <<r, n>> \in aborted' => <<r, n>> \in aborted \/ n = io[r].begun
    BY <1>1
  <2> QED
    BY <1>1, <1>2, <1>3, <1>4, <2>1, <2>2, Taken
<1>5. CASE ar[e].copy.r # r
  <2>1. \A t \in Threads : Has(t, r) => Has(t, r)' /\ msg'[t] = msg[t]
    BY <1>1, <1>3 DEF Has, Holding
  <2>2. \A i \in DOMAIN ar : Listed(i, r) =>
          \E j \in DOMAIN ar' : ar'[j].copy = ar[i].copy /\ (~ ar[i].ready => ~ ar'[j].ready)
    BY <1>2, <1>5, Others
  <2>3. \A n \in Nat : <<r, n>> \in aborted' => n <= io[r].begun
    BY <1>1 DEF KeepsInv, FoundInv
  <2>4. <<r, io[r].begun>> \in aborted' \ missed' => Found(r)
    BY <1>1 DEF Found
  <2> QED
    BY <1>1, <1>3, <2>1, <2>2, <2>3, <2>4, Unmoved
<1> QED
  BY <1>4, <1>5

LEMMA MarksLeave ==
  ASSUME KeptInv, Marks, NEW r \in Requests, KeepsInv(r)
  PROVE  KeepsInv(r)'
<1>0. Types
  BY DEF KeptInv, IInv, UnitInv
<1> USE <1>0, ThreadFacts
<1>1. UNCHANGED <<io, ar, requests, aborted, missed>>
  BY MarkSteps
<1>2. PICK t \in Threads :
        /\ phase' = [phase EXCEPT ![t] = "wait"] /\ msg' = [msg EXCEPT ![t] = msg[t]]
        /\ \E p : at' = [at EXCEPT ![t] = p]
  BY MarkSteps
<1>3. msg' = msg
  BY <1>2
<1>4. \A u \in Threads : Has(u, r) => Has(u, r)' /\ msg'[u] = msg[u]
  BY <1>2, <1>3 DEF Has
<1>5. \A n \in Nat : <<r, n>> \in aborted' => n <= io[r].begun
  BY <1>1 DEF KeepsInv, FoundInv
<1>6. <<r, io[r].begun>> \in aborted' \ missed' => Found(r)
  BY <1>1 DEF Found
<1> QED
  BY <1>1, <1>4, <1>5, <1>6, Unmoved

LEMMA QuitsLeave ==
  ASSUME KeptInv, Quits, NEW r \in Requests, KeepsInv(r)
  PROVE  KeepsInv(r)'
<1>0. Types
  BY DEF KeptInv, IInv, UnitInv
<1> USE <1>0, ThreadFacts
<1>1. /\ UNCHANGED <<io, ar, requests, aborted, missed>>
      /\ at["cpu"] \in {"close", "resetclose"} /\ phase["cpu"] = "none"
      /\ \E m, p : msg' = [msg EXCEPT !["cpu"] = m] /\ at' = [at EXCEPT !["cpu"] = p]
      /\ phase' = [phase EXCEPT !["cpu"] = "wait"]
  BY DEF Quits, CloseSend, ResetSend, Send, At, Go, amiga, list, hist
<1>2. \A t \in Threads : Has(t, r) => Has(t, r)' /\ msg'[t] = msg[t]
  BY <1>1 DEF Has, Holding
<1>3. \A n \in Nat : <<r, n>> \in aborted' => n <= io[r].begun
  BY <1>1 DEF KeepsInv, FoundInv
<1>4. <<r, io[r].begun>> \in aborted' \ missed' => Found(r)
  BY <1>1 DEF Found
<1> QED
  BY <1>1, <1>2, <1>3, <1>4, Unmoved

LEMMA BeginsLeave ==
  ASSUME KeptInv, Begins, NEW r \in Requests, KeepsInv(r)
  PROVE  KeepsInv(r)'
<1>0. Types
  BY DEF KeptInv, IInv, UnitInv
<1> USE <1>0, ThreadFacts
<1>1. PICK q \in Requests, kind \in Kinds : BeginIO(q, kind)
  BY DEF Begins
<1>2. /\ UNCHANGED <<ar, requests, aborted, missed>> /\ at["cpu"] = "run" /\ phase["cpu"] = "none"
      /\ msg' = [msg EXCEPT !["cpu"] = Copy(q, io[q].begun + 1, kind)]
      /\ phase' = [phase EXCEPT !["cpu"] = "wait"] /\ at' = [at EXCEPT !["cpu"] = "run"]
  BY <1>1 DEF BeginIO, Send, Go, At, list, hist
<1>3. /\ io'[q].begun = io[q].begun + 1 /\ io'[q].kind = kind
      /\ \A p \in Requests : p # q => io'[p] = io[p]
      /\ io[q].begun \in Nat
  BY <1>1 DEF BeginIO, Types
<1>4. CASE q # r
  <2>1. \A t \in Threads : Has(t, r) => Has(t, r)' /\ msg'[t] = msg[t]
    BY <1>2 DEF Has, Holding
  <2>2. \A n \in Nat : <<r, n>> \in aborted' => n <= io[r].begun
    BY <1>2 DEF KeepsInv, FoundInv
  <2>3. <<r, io[r].begun>> \in aborted' \ missed' => Found(r)
    BY <1>2 DEF Found
  <2> QED
    BY <1>2, <1>3, <1>4, <2>1, <2>2, <2>3, Unmoved
<1>5. CASE q = r
  <2>1. msg'["cpu"] = Sending(r)'
    BY <1>2, <1>3, <1>5 DEF Sending, Copy
  <2>2. Has("cpu", r)'
    <3>1. msg'["cpu"].r = r /\ msg'["cpu"].n = io[r].begun + 1
      BY <1>2, <1>5 DEF Copy
    <3> QED
      BY <1>2, <1>3, <1>5, <3>1 DEF Has
  <2>3. HomeInv(r)'
    BY <2>1, <2>2 DEF HomeInv, Carried
  <2>4. \A n \in Nat : <<r, n>> \in aborted => n <= io[r].begun
    BY DEF KeepsInv, FoundInv
  <2>5. FoundInv(r)'
    <3>1. io[r].begun + 1 \in Nat /\ ~ (io[r].begun + 1 <= io[r].begun)
      BY <1>3, <1>5
    <3>2. ~ Found(r)'
      BY <1>2, <1>3, <1>5, <2>4, <3>1 DEF Found
    <3>3. \A n \in Nat : n <= io[r].begun => n <= io'[r].begun
      BY <1>3, <1>5
    <3> QED
      BY <1>2, <2>4, <3>2, <3>3 DEF FoundInv
  <2> QED
    BY <2>3, <2>5 DEF KeepsInv
<1> QED
  BY <1>4, <1>5

(* The pipe, and dev_thread. *)
LEMMA WritesLeave ==
  ASSUME KeptInv, Writes, NEW r \in Requests, KeepsInv(r)
  PROVE  KeepsInv(r)'
<1>0. Types /\ PlaceInv
  BY DEF KeptInv, IInv, UnitInv
<1> USE <1>0, ThreadFacts
<1>1. PICK t \in Threads : WriteMessage(t)
  BY DEF Writes
<1>2. /\ UNCHANGED <<io, ar, at, msg, aborted, missed>> /\ requests' = Append(requests, msg[t])
      /\ phase' = [phase EXCEPT ![t] = "none"]
  BY <1>1 DEF WriteMessage, amiga, list, hist
<1>3. /\ Len(requests) + 1 \in DOMAIN requests' /\ requests'[Len(requests) + 1] = msg[t]
      /\ \A i \in DOMAIN requests : i \in DOMAIN requests' /\ requests'[i] = requests[i]
  BY <1>2, PipeWritten
<1>4. \A n \in Nat : <<r, n>> \in aborted' => n <= io[r].begun
  BY <1>2 DEF KeepsInv, FoundInv
<1>5. <<r, io[r].begun>> \in aborted' \ missed' => Found(r)
  BY <1>2 DEF Found
<1>6. \A u \in Threads : u # t => (Has(u, r) => Has(u, r)')
  BY <1>2 DEF Has
<1>7. CASE ~ Has(t, r)
  BY <1>2, <1>3, <1>4, <1>5, <1>6, <1>7, Unmoved
<1>8. CASE Has(t, r) /\ msg[t] # Sending(r)
  <2>1. Carried(r) => Carried(r)'
    <3>1. Sending(r)' = Sending(r)
      BY <1>2 DEF Sending
    <3> QED
      BY <1>2, <1>6, <1>8, <3>1 DEF Carried
  <2>2. Sending(r)' = Sending(r) /\ (Outstanding(r)' <=> Outstanding(r)) /\ (Found(r)' <=> Found(r))
    BY <1>2 DEF Sending, Outstanding, Found
  <2>3. (Queued(r) => Queued(r)') /\ (Waits(r) => Waits(r)')
    BY <1>2, <1>3, <2>2 DEF Queued, Waits
  <2> QED
    BY <1>2, <2>1, <2>2, <2>3 DEF KeepsInv, HomeInv, FoundInv, Listed
<1>9. CASE msg[t] = Sending(r)
  <2>1. Sending(r)' = Sending(r) /\ (Outstanding(r)' <=> Outstanding(r)) /\ (Found(r)' <=> Found(r))
    BY <1>2 DEF Sending, Outstanding, Found
  <2>2. Queued(r)'
    BY <1>3, <1>9, <2>1 DEF Queued
  <2> QED
    BY <1>2, <2>1, <2>2 DEF KeepsInv, HomeInv, FoundInv, Listed
<1> QED
  BY <1>7, <1>8, <1>9

LEMMA ReadsLeave ==
  ASSUME KeptInv, DevRead, NEW r \in Requests, KeepsInv(r)
  PROVE  KeepsInv(r)'
<1>0. Types
  BY DEF KeptInv, IInv, UnitInv
<1> USE <1>0, ThreadFacts
<1>1. /\ UNCHANGED <<io, ar, phase, aborted, missed>> /\ requests # <<>> /\ requests' = Tail(requests)
      /\ at["dev"] = "read" /\ phase["dev"] = "none"
      /\ msg' = [msg EXCEPT !["dev"] = Head(requests)]
      /\ \/ Head(requests) = Quit /\ at' = [at EXCEPT !["dev"] = "off"]
         \/ at' = [at EXCEPT !["dev"] = "lookup"]
  BY DEF DevRead, At, Go, amiga, list, hist
<1>2. /\ Head(requests) = requests[1]
      /\ \A i \in DOMAIN requests : i = 1 \/ (i - 1 \in DOMAIN requests' /\ requests'[i - 1] = requests[i])
  BY <1>1, PipeRead
<1>3. /\ Sending(r)' = Sending(r) /\ (Outstanding(r)' <=> Outstanding(r)) /\ (Found(r)' <=> Found(r))
      /\ Sending(r).r = r /\ Sending(r).n = io[r].begun
  BY <1>1 DEF Sending, Copy, Outstanding, Found
<1>4. Carried(r) => Carried(r)'
  <2>1. \A t \in Threads : Has(t, r) => Has(t, r)' /\ msg'[t] = msg[t]
    BY <1>1 DEF Has, Holding
  <2> QED
    BY <1>3, <2>1 DEF Carried
<1>5. ASSUME Outstanding(r), Queued(r) PROVE Queued(r)' \/ Carried(r)'
  <2>1. PICK i \in DOMAIN requests : requests[i] = Sending(r)
    BY <1>5 DEF Queued
  <2>2. CASE i # 1
    BY <1>2, <1>3, <2>1, <2>2 DEF Queued
  <2>3. CASE i = 1
    <3>1. io[r].begun > 0
      BY <1>5 DEF Outstanding, Types
    <3>2. Head(requests) # Quit
      BY <1>2, <1>3, <2>1, <2>3, <3>1 DEF Quit, Copy
    <3>3. at'["dev"] = "lookup" /\ msg'["dev"] = Sending(r)
      BY <1>1, <1>2, <2>1, <2>3, <3>2
    <3>4. Has("dev", r)'
      BY <1>3, <3>1, <3>3 DEF Has, Holding
    <3> QED
      BY <1>3, <3>3, <3>4 DEF Carried
  <2> QED
    BY <2>2, <2>3
<1>6. Waits(r) => Waits(r)'
  BY <1>1, <1>3 DEF Waits
<1> QED
  BY <1>1, <1>3, <1>4, <1>5, <1>6 DEF KeepsInv, HomeInv, FoundInv, Listed

LEMMA LookupsLeave ==
  ASSUME KeptInv, DevLookup, NEW r \in Requests, RequestInv(r), KeepsInv(r)
  PROVE  KeepsInv(r)'
<1>0. Types /\ HandInv
  BY DEF KeptInv, IInv, UnitInv
<1> USE <1>0, ThreadFacts
<1>1. /\ UNCHANGED <<io, requests, phase, msg, aborted, missed>> /\ at["dev"] = "lookup"
      /\ \/ at' = [at EXCEPT !["dev"] = "reply"]
         \/ at' = [at EXCEPT !["dev"] = "io"]
  BY DEF DevLookup, At, Go, amiga, pipe, hist
<1>2. \A t \in Threads : Has(t, r) => Has(t, r)' /\ msg'[t] = msg[t]
  BY <1>1 DEF Has, Holding
<1>3. \A i \in DOMAIN ar : Listed(i, r) =>
        \E j \in DOMAIN ar' : ar'[j].copy = ar[i].copy /\ (~ ar[i].ready => ~ ar'[j].ready)
  <2>1. CASE InList(msg["dev"].r)
    <3> DEFINE e == Entry(msg["dev"].r)
    <3>1. e \in 1 .. Len(ar) /\ ar[e].copy.r = msg["dev"].r /\ ar' = [ar EXCEPT ![e].ready = TRUE]
      BY <2>1, EntryIsListed DEF DevLookup
    <3> HIDE DEF e
    <3>2. ar[e].copy.r = r => ar[e].ready
      <4> SUFFICES ASSUME msg["dev"].r = r, ~ ar[e].ready PROVE FALSE
        BY <3>1
      <4>1. msg["dev"] \in Copies
        BY <1>1 DEF HandInv, Holding
      <4>2. InHand(r)
        BY <1>1, <4>1 DEF InHand, Has, Holding, Copies
      <4>3. e \in DOMAIN ar /\ Listed(e, r)
        BY <3>1, Elements DEF Listed
      <4> QED
        BY <1>1, <4>2, <4>3 DEF RequestInv, EntryInv
    <3> QED
      BY <3>1, <3>2, Others
  <2>2. CASE ~ InList(msg["dev"].r)
    BY <2>2 DEF DevLookup
  <2> QED
    BY <2>1, <2>2
<1>4. \A n \in Nat : <<r, n>> \in aborted' => n <= io[r].begun
  BY <1>1 DEF KeepsInv, FoundInv
<1>5. <<r, io[r].begun>> \in aborted' \ missed' => Found(r)
  BY <1>1 DEF Found
<1> QED
  BY <1>1, <1>2, <1>3, <1>4, <1>5, Unmoved

LEMMA RepliesLeave ==
  ASSUME KeptInv, DevReply \/ DevIO, at'["dev"] # "flood", NEW r \in Requests, RequestInv(r), KeepsInv(r)
  PROVE  KeepsInv(r)'
<1>0. Types /\ HandInv
  BY DEF KeptInv, IInv, UnitInv
<1> USE <1>0, ThreadFacts
<1>1. /\ UNCHANGED <<ar, requests, phase, msg, aborted, missed>> /\ phase["dev"] = "none"
      /\ at["dev"] \in {"reply", "io"}
      /\ \/ ReplyMsg(msg["dev"].r) /\ \E p \in {"release", "read"} : at' = [at EXCEPT !["dev"] = p]
         \/ io' = io /\ at' = [at EXCEPT !["dev"] = "add"]
  BY DEF DevReply, DevIO, At, Go, list, pipe, hist
<1>2. \A n \in Nat : <<r, n>> \in aborted' => n <= io[r].begun
  BY <1>1 DEF KeepsInv, FoundInv
<1>3. <<r, io[r].begun>> \in aborted' \ missed' => Found(r)
  BY <1>1 DEF Found
<1>4. msg["dev"] \in Copies
  BY <1>1 DEF HandInv, Holding
<1>5. CASE io' = io /\ at' = [at EXCEPT !["dev"] = "add"]
  <2>1. \A t \in Threads : Has(t, r) => Has(t, r)' /\ msg'[t] = msg[t]
    BY <1>1, <1>5 DEF Has, Holding
  <2> QED
    BY <1>1, <1>2, <1>3, <1>5, <2>1, Unmoved
<1>6. CASE ReplyMsg(msg["dev"].r) /\ msg["dev"].r # r
  <2>1. io'[r] = io[r]
    BY <1>6 DEF ReplyMsg, Types
  <2>2. \A t \in Threads : Has(t, r) => Has(t, r)' /\ msg'[t] = msg[t]
    BY <1>1, <1>6 DEF Has
  <2> QED
    BY <1>1, <1>2, <1>3, <2>1, <2>2, Unmoved
<1>7. CASE ReplyMsg(r) /\ msg["dev"].r = r
  <2>1. Has("dev", r)
    BY <1>1, <1>4, <1>7 DEF Has, Holding, Copies
  <2>2. io[r].begun > io[r].replied /\ io[r].begun <= io[r].replied + 1
    BY <2>1 DEF RequestInv, MessageInv, Current, Outstanding, CountInv
  <2>3. /\ io[r].begun \in Nat /\ io[r].replied \in Nat
        /\ io'[r].begun = io[r].begun /\ io'[r].replied = io[r].replied + 1
    BY <1>7 DEF ReplyMsg, Types
  <2>4. ~ Outstanding(r)'
    BY <2>2, <2>3 DEF Outstanding
  <2> QED
    BY <1>2, <2>3, <2>4 DEF KeepsInv, HomeInv, FoundInv
<1> QED
  BY <1>1, <1>5, <1>6, <1>7

LEMMA ReleasesLeave ==
  ASSUME KeptInv, ~ Ended, DevRelease, NEW r \in Requests, RequestInv(r), KeepsInv(r)
  PROVE  KeepsInv(r)'
<1> DEFINE e == Entry(msg["dev"].r)
<1>0. Types /\ DevInv
  BY DEF KeptInv, IInv, UnitInv
<1> USE <1>0, ThreadFacts
<1>1. /\ UNCHANGED <<io, requests, phase, msg, aborted, missed>>
      /\ at["dev"] = "release" /\ phase["dev"] = "none" /\ at' = [at EXCEPT !["dev"] = "read"]
      /\ ar' = RemoveAt(ar, e)
  BY DEF DevRelease, At, Go, amiga, pipe
<1>2. e \in 1 .. Len(ar) /\ ar[e].copy.r = msg["dev"].r
  BY <1>1, EntryIsListed DEF DevInv, Ended
<1> HIDE DEF e
<1>3. /\ Len(ar) \in Nat /\ DOMAIN ar = 1 .. Len(ar) /\ DOMAIN ar' = 1 .. Len(ar) - 1
      /\ \A i \in 1 .. Len(ar) - 1 : ar'[i] = IF i < e THEN ar[i] ELSE ar[i + 1]
  <2>1. /\ ar' \in Seq(Entries) /\ Len(ar') = Len(ar) - 1
        /\ \A i \in 1 .. Len(ar) - 1 : ar'[i] = IF i < e THEN ar[i] ELSE ar[i + 1]
    BY <1>1, <1>2, Removed
  <2> QED
    BY <1>1, <2>1, Elements, LenProperties
<1>4. \A i \in DOMAIN ar : i # e => \E j \in DOMAIN ar' : ar'[j] = ar[i]
  <2> SUFFICES ASSUME NEW i \in 1 .. Len(ar), i # e PROVE \E j \in 1 .. Len(ar) - 1 : ar'[j] = ar[i]
    BY <1>3
  <2>1. CASE i < e
    <3>1. i \in 1 .. Len(ar) - 1
      BY <1>2, <1>3, <2>1
    <3> QED
      BY <1>3, <2>1, <3>1
  <2>2. CASE ~ i < e
    <3>1. i - 1 \in 1 .. Len(ar) - 1 /\ ~ (i - 1 < e) /\ (i - 1) + 1 = i
      BY <1>2, <1>3, <2>2
    <3>2. ar'[i - 1] = ar[(i - 1) + 1]
      BY <1>3, <3>1
    <3> QED
      BY <3>1, <3>2
  <2> QED
    BY <2>1, <2>2
<1>5. \A t \in Threads : Has(t, r) => Has(t, r)' /\ msg'[t] = msg[t]
  BY <1>1 DEF Has, Holding
<1>6. /\ Sending(r)' = Sending(r) /\ (Outstanding(r)' <=> Outstanding(r)) /\ (Found(r)' <=> Found(r))
      /\ Sending(r).r = r /\ Sending(r).n = io[r].begun
  BY <1>1 DEF Sending, Copy, Outstanding, Found
(* The entry that is removed is not one that waits, nor one of the sending *)
(* that waits.                                                             *)
<1>7. Listed(e, r) => ar[e].ready /\ Old(ar[e].copy.n, r)
  BY <1>1, <1>2, <1>3 DEF RequestInv, EntryInv, Listed
<1>8. Outstanding(r) /\ Listed(e, r) => ar[e].copy.n # io[r].begun
  BY <1>7 DEF Old, Types
<1>9. Waits(r) => Waits(r)'
  <2> SUFFICES ASSUME Waits(r) PROVE Waits(r)'
    OBVIOUS
  <2>1. PICK i \in DOMAIN ar : ar[i].copy = Sending(r) /\ ~ ar[i].ready
    BY DEF Waits
  <2>2. i # e
    BY <1>6, <1>7, <2>1 DEF Listed
  <2> QED
    BY <1>1, <1>4, <1>6, <2>1, <2>2 DEF Waits
<1>10. Outstanding(r) /\ Found(r) => \E j \in DOMAIN ar' : ar'[j].copy.r = r /\ ar'[j].copy.n = io[r].begun
  <2> SUFFICES ASSUME Outstanding(r), Found(r)
               PROVE  \E j \in DOMAIN ar' : ar'[j].copy.r = r /\ ar'[j].copy.n = io[r].begun
    OBVIOUS
  <2>1. PICK i \in DOMAIN ar : Listed(i, r) /\ ar[i].copy.n = io[r].begun
    BY DEF KeepsInv, FoundInv
  <2>2. i # e
    BY <1>8, <2>1
  <2> QED
    BY <1>4, <2>1, <2>2 DEF Listed
<1>11. HomeInv(r)'
  <2>1. Carried(r) => Carried(r)'
    BY <1>5, <1>6 DEF Carried
  <2>2. Queued(r) => Queued(r)'
    BY <1>1, <1>6 DEF Queued
  <2> QED
    BY <1>6, <1>9, <2>1, <2>2 DEF KeepsInv, HomeInv
<1> QED
  BY <1>1, <1>6, <1>10, <1>11 DEF KeepsInv, FoundInv, Listed

LEMMA AddsLeave ==
  ASSUME KeptInv, DevAdd, NEW r \in Requests, KeepsInv(r)
  PROVE  KeepsInv(r)'
<1>0. Types /\ DevInv /\ HandInv
  BY DEF KeptInv, IInv, UnitInv
<1> USE <1>0, ThreadFacts
<1>1. /\ UNCHANGED <<io, requests, phase, msg, aborted, missed>>
      /\ at["dev"] = "add" /\ phase["dev"] = "none" /\ at' = [at EXCEPT !["dev"] = "read"]
      /\ ar' = Append(ar, [copy |-> msg["dev"], ready |-> FALSE])
  BY DEF DevAdd, At, Go, amiga, pipe, hist
<1>2. msg["dev"] \in Copies /\ ~ InList(msg["dev"].r) /\ msg["dev"].kind \in Async
  BY <1>1 DEF DevInv, Ended, HandInv, Holding
<1>3. /\ DOMAIN ar = 1 .. Len(ar) /\ \A i \in DOMAIN ar : i \in DOMAIN ar' /\ ar'[i] = ar[i]
      /\ Len(ar) + 1 \in DOMAIN ar'
      /\ ar'[Len(ar) + 1].copy = msg["dev"] /\ ~ ar'[Len(ar) + 1].ready
  <2> DEFINE new == [copy |-> msg["dev"], ready |-> FALSE]
  <2>1. new \in Entries /\ ar \in Seq(Entries)
    BY <1>1, <1>2 DEF Entries, Types
  <2>2. new.copy = msg["dev"] /\ ~ new.ready
    OBVIOUS
  <2> HIDE DEF new
  <2>3. ar' = Append(ar, new)
    BY <1>1 DEF new
  <2>4. /\ DOMAIN ar = 1 .. Len(ar) /\ Len(ar) \in Nat /\ DOMAIN ar' = 1 .. Len(ar) + 1
        /\ ar'[Len(ar) + 1] = new /\ \A i \in 1 .. Len(ar) : ar'[i] = ar[i]
    BY <2>1, <2>3, AppendProperties, LenProperties
  <2>5. Len(ar) + 1 \in 1 .. Len(ar) + 1 /\ \A i \in 1 .. Len(ar) : i \in 1 .. Len(ar) + 1
    BY <2>4
  <2> QED
    BY <2>2, <2>4, <2>5
<1>4. /\ Sending(r)' = Sending(r) /\ (Outstanding(r)' <=> Outstanding(r)) /\ (Found(r)' <=> Found(r))
      /\ Sending(r).r = r /\ Sending(r).n = io[r].begun /\ Sending(r).kind = io[r].kind
  BY <1>1 DEF Sending, Copy, Outstanding, Found
<1>5. ASSUME Outstanding(r), Carried(r) PROVE Carried(r)' \/ Waits(r)'
  <2>1. PICK t \in Threads : Has(t, r) /\ msg[t] = Sending(r)
    BY <1>5 DEF Carried
  <2>2. CASE t # "dev"
    <3>1. Has(t, r)' /\ msg'[t] = Sending(r)'
      BY <1>1, <1>4, <2>1, <2>2 DEF Has
    <3> QED
      BY <3>1 DEF Carried
  <2>3. CASE t = "dev"
    <3>1. ~ InList(r) /\ io[r].kind \in Async
      BY <1>2, <1>4, <2>1, <2>3
    <3>2. ~ Found(r)
      BY <1>5, <3>1 DEF KeepsInv, FoundInv, InList, Listed
    <3>3. ar'[Len(ar) + 1].copy = Sending(r)'
      BY <1>3, <1>4, <2>1, <2>3
    <3> QED
      BY <1>1, <1>3, <1>4, <3>1, <3>2, <3>3 DEF Waits
  <2> QED
    BY <2>2, <2>3
<1>6. (Queued(r) => Queued(r)') /\ (Waits(r) => Waits(r)')
  BY <1>1, <1>3, <1>4 DEF Queued, Waits
<1>7. FoundInv(r)'
  BY <1>1, <1>3, <1>4 DEF KeepsInv, FoundInv, Listed
<1> QED
  BY <1>4, <1>5, <1>6, <1>7 DEF KeepsInv, HomeInv

-----------------------------------------------------------------------------
(* Neither a reset nor a CMD_RESET that fills its own pipe is ever over:   *)
(* a step that ends outside of both began outside of both.                 *)
LEMMA StandsBack == ASSUME UnitInv, [Next]_vars, Stands' PROVE Stands
<1> USE ThreadFacts DEF UnitInv, Stands, Ended, Flooding
<1>1. CASE Moves
  <2>1. CASE OpenNew
    <3>1. at["cpu"] = "closed" /\ at["dev"] = "off"
      BY <2>1 DEF OpenNew, OpenUnit, At
    <3> QED
      BY <3>1
  <2>5. CASE OpenShared
    BY <2>5 DEF OpenShared, OpenUnit, At
  <2>2. CASE \E t \in Threads : PipeSemWait(t)
    BY <2>2 DEF PipeSemWait
  <2>3. CASE OpenWait \/ CloseUnit \/ ResetUnit \/ ResetClose \/ ResetSync \/ ResetClosed
    BY <2>3 DEF OpenWait, CloseUnit, ResetUnit, ResetClose, ResetSync, ResetClosed, At, Go
  <2>4. CASE SignalPost \/ SerialEnds \/ DevStart
    BY <2>4 DEF SignalPost, SerialEnds, DevStart, At, Go
  <2> QED
    BY <1>1, <2>1, <2>2, <2>3, <2>4, <2>5 DEF Moves
<1>2. CASE Aborts
  <2>1. PICK r : \/ At("cpu", "run") /\ Finds("cpu", r, "abort", "run")
                 \/ At("cpu", "reset") /\ Finds("cpu", r, "resetmark", "reset")
                 \/ At("dev", "flood") /\ Finds("dev", r, "floodmark", "flood")
    BY <1>2, AbortSteps
  <2> QED
    BY <2>1 DEF At, Finds
<1>3. CASE Marks
  BY <1>3, MarkSteps
<1>4. CASE Signals
  <2>1. \E m : Starts("serial", m, "post")
    BY <1>4, SignalSteps
  <2> QED
    BY <2>1 DEF Starts
<1>5. CASE Quits \/ Begins
  BY <1>5 DEF Quits, CloseSend, ResetSend, Begins, BeginIO, Send, At, Go
<1>6. CASE DevSteps
  <2>1. at["dev"] \notin {"flood", "floodmark"} /\ at'["cpu"] = at["cpu"]
    BY <1>6 DEF DevSteps, DevRead, DevLookup, DevReply, DevRelease, DevIO, DevAdd, At, Go
  <2> QED
    BY <2>1
<1>7. CASE Writes
  BY <1>7 DEF Writes, WriteMessage
<1>8. CASE UNCHANGED vars
  BY <1>8 DEF vars
<1> QED
  BY <1>1, <1>2, <1>3, <1>4, <1>5, <1>6, <1>7, <1>8, Steps

LEMMA KeepsStep ==
  ASSUME KeptInv, [Next]_vars, RunInv', Stands', NEW r \in Requests \ again', r \notin again,
         RequestInv(r), KeepsInv(r)
  PROVE  KeepsInv(r)'
<1>0. UnitInv /\ r \in Requests
  BY DEF KeptInv, IInv
<1>1. CASE Moves
  <2>1. CASE at'["cpu"] # "open"
    BY <1>0, <1>1, <2>1, MovesLeave DEF Stands, Ended
  <2>2. CASE at'["cpu"] = "open"
    <3>1. ~ Outstanding(r)'
      BY <1>0, <2>2 DEF RunInv
    <3>2. UNCHANGED <<io, aborted>>
      BY <1>1 DEF Moves, OpenNew, OpenShared, OpenUnit, OpenWait, CloseUnit, ResetUnit, ResetClose, ResetSync, ResetClosed,
         SignalPost, SerialEnds, DevStart, PipeSemWait, amiga, hist
    <3> QED
      BY <3>1, <3>2 DEF KeepsInv, HomeInv, FoundInv
  <2> QED
    BY <2>1, <2>2
<1>2. CASE Aborts
  BY <1>2, AbortsLeave DEF Stands, Ended, Flooding
<1>3. CASE Marks \/ Signals \/ Quits
  BY <1>0, <1>3, MarksLeave, SignalsLeave, QuitsLeave
<1>4. CASE Begins \/ Writes
  BY <1>0, <1>4, BeginsLeave, WritesLeave
<1>5. CASE DevSteps
  <2>1. ~ Ended /\ at'["dev"] # "flood"
    BY <1>5 DEF DevSteps, Stands, Ended, Flooding
  <2>2. CASE DevRead \/ DevLookup \/ DevAdd
    BY <1>0, <2>2, ReadsLeave, LookupsLeave, AddsLeave
  <2>3. CASE DevReply \/ DevIO
    BY <1>0, <2>1, <2>3, RepliesLeave
  <2>4. CASE DevRelease
    BY <1>0, <2>1, <2>4, ReleasesLeave
  <2> QED
    BY <1>5, <2>2, <2>3, <2>4 DEF DevSteps
<1>6. CASE UNCHANGED vars
  <2>1. UNCHANGED <<io, ar, requests, phase, at, msg, aborted, missed>>
    BY <1>6 DEF vars, amiga, list, pipe, hist
  <2> QED
    BY <2>1 DEF KeepsInv, HomeInv, FoundInv, Outstanding, Found, Carried, Queued, Waits, Sending, Has, Listed
<1> QED
  BY <1>1, <1>2, <1>3, <1>4, <1>5, <1>6, Steps

THEOREM KeptInvariant == Spec => []KeptInv
<1>1. ASSUME Init PROVE KeptInv
  <2>1. /\ at["cpu"] = "closed" /\ at["dev"] = "off" /\ pipe_sem = 1 /\ DOMAIN requests = {}
        /\ \A r \in Requests : io[r].begun = 0 /\ io[r].replied = 0
        /\ aborted = {}
    BY <1>1 DEF Init
  <2>2. \A r \in Requests : ~ Outstanding(r)
    BY <2>1 DEF Outstanding
  <2>3. RunInv /\ HandshakeInv
    BY <2>1, <2>2 DEF RunInv, HandshakeInv, QuitPiped
  <2>4. \A r \in Requests : KeepsInv(r)
    BY <2>1, <2>2 DEF KeepsInv, HomeInv, FoundInv
  <2> QED
    BY <1>1, <2>3, <2>4, InitialRequests DEF KeptInv
<1>2. ASSUME KeptInv, [Next]_vars PROVE KeptInv'
  <2>1. IInv /\ UnitInv /\ RunInv /\ HandshakeInv
    BY <1>2 DEF KeptInv, IInv
  <2>2. IInv' /\ RunInv' /\ HandshakeInv'
    BY <1>2, <2>1, Inductive, RunKept, HandshakeKept
  <2>3. ASSUME Stands', NEW r \in Requests \ again' PROVE KeepsInv(r)'
    <3>1. Stands /\ again \subseteq again'
      BY <1>2, <2>1, <2>3, StandsBack, AgainGrows
    <3>2. r \notin again /\ RequestInv(r) /\ KeepsInv(r)
      BY <1>2, <2>1, <3>1 DEF KeptInv, IInv
    <3> QED
      BY <1>2, <2>2, <2>3, <3>2, KeepsStep
  <2> QED
    BY <2>2, <2>3 DEF KeptInv
<1> QED
  BY <1>1, <1>2, PTL DEF Spec

(* No request is forgotten while the machine runs, but those of the known  *)
(* exceptions: one that waits for its reply is with a thread that goes on, *)
(* or in the pipe that dev_thread reads, in front of nothing that ends it, *)
(* or it is an asynchronous one that waits in the list, not found by an    *)
(* abort, with the serial thread there to complete it.  And whoever waits  *)
(* for a semaphore waits for one that a thread holds, or will post.  All   *)
(* of it while one dev_thread serves the unit: not from "shared" on.       *)
NobodyForgotten ==
  /\ at.cpu \in {"run", "abort"} /\ ~ Flooded =>
       /\ at.serial # "off" /\ at.dev # "off" /\ ~ QuitPiped
       /\ \A r \in Requests \ again : Outstanding(r) =>
            \/ Carried(r) \/ Queued(r)
            \/ Waits(r)
  /\ async_sem = 0 => at.serial = "post"
  /\ pipe_sem = 0 => \E t \in Threads : phase[t] = "write"
  /\ at.cpu = "open" => at.dev = "start" \/ sync_sem > 0
  /\ at.cpu = "sync" =>
       sync_sem > 0 \/ (at.dev # "off" /\ (QuitPiped \/ (phase.cpu # "none" /\ msg.cpu = Quit)))

(* The safety part of AnswerableIsReplied, and of the waits for threads    *)
(* that it leaves to the reset.                                            *)
THEOREM NobodyForgottenAlways == Spec => []NobodyForgotten
<1>1. ASSUME KeptInv PROVE NobodyForgotten
  <2>1. /\ RunInv /\ HandshakeInv /\ SemInv
        /\ Stands => \A r \in Requests \ again : KeepsInv(r)
    BY <1>1 DEF KeptInv, IInv, UnitInv
  <2>2. ASSUME at.cpu \in {"run", "abort"}, ~ Flooded
        PROVE  /\ at.serial # "off" /\ at.dev # "off" /\ ~ QuitPiped
               /\ \A r \in Requests \ again : Outstanding(r) => Carried(r) \/ Queued(r) \/ Waits(r)
    <3>1. Stands
      BY <2>2 DEF Stands, Ended, Flooding, Flooded
    <3>2. at.serial # "off" /\ at.dev # "off" /\ ~ QuitPiped
      BY <2>1, <2>2 DEF RunInv
    <3> QED
      BY <2>1, <3>1, <3>2 DEF KeepsInv, HomeInv
  <2>3. /\ async_sem = 0 => at.serial = "post"
        /\ pipe_sem = 0 => \E t \in Threads : phase[t] = "write"
        /\ at.cpu = "open" => at.dev = "start" \/ sync_sem > 0
        /\ at.cpu = "sync" =>
             sync_sem > 0 \/ (at.dev # "off" /\ (QuitPiped \/ (phase.cpu # "none" /\ msg.cpu = Quit)))
    BY <2>1 DEF RunInv, HandshakeInv, SemInv
  <2> QED
    BY <2>2, <2>3 DEF NobodyForgotten
<1> QED
  BY <1>1, KeptInvariant, PTL
-----------------------------------------------------------------------------
(* What a close leaves behind.  CMD_RESET with requests in the list waits  *)
(* for its reply for ever, so that no unit is closed after it.             *)
FloodInv == Flooding /\ again = {} => \E r \in Requests : Outstanding(r)

LEMMA FloodKept == ASSUME IInv, FloodInv, [Next]_vars PROVE FloodInv'
<1> USE ThreadFacts DEF Flooding
<1>0. UnitInv /\ Types /\ HandInv
  BY DEF IInv, UnitInv
<1>1. again' = {} => again = {}
  BY AgainGrows
<1>2. ASSUME io' = io, at'["dev"] \in {"flood", "floodmark"} => at["dev"] \in {"flood", "floodmark"}
      PROVE  FloodInv'
  BY <1>1, <1>2 DEF FloodInv, Outstanding
<1>3. CASE Moves
  <2>1. io' = io
    BY <1>0, <1>3, MoveSteps
  <2>2. at'["dev"] \in {"flood", "floodmark"} => at["dev"] \in {"flood", "floodmark"}
    BY <1>0, <1>3 DEF Moves, OpenNew, OpenShared, OpenUnit, OpenWait, CloseUnit, ResetUnit, ResetClose,
       ResetSync, ResetClosed, SignalPost, SerialEnds, DevStart, PipeSemWait, At, Go
  <2> QED
    BY <1>2, <2>1, <2>2
<1>4. CASE Aborts
  <2>1. PICK r : \/ At("cpu", "run") /\ Finds("cpu", r, "abort", "run")
                 \/ At("cpu", "reset") /\ Finds("cpu", r, "resetmark", "reset")
                 \/ At("dev", "flood") /\ Finds("dev", r, "floodmark", "flood")
    BY <1>4, AbortSteps
  <2> QED
    BY <1>0, <1>2, <1>4, <2>1, AbortSteps DEF Finds, At
<1>5. CASE Marks
  BY <1>0, <1>2, <1>5, MarkSteps
<1>6. CASE Signals
  BY <1>0, <1>2, <1>6, SignalSteps DEF Starts
<1>7. CASE Quits
  BY <1>0, <1>2, <1>7 DEF Quits, CloseSend, ResetSend, Send, Go, amiga
<1>8. CASE Begins
  <2>1. PICK r \in Requests, kind \in Kinds : BeginIO(r, kind)
    BY <1>8 DEF Begins
  <2>2. /\ UNCHANGED again /\ at'["dev"] = at["dev"]
        /\ \A q \in Requests : /\ io'[q].replied = io[q].replied
                               /\ io'[q].begun \in {io[q].begun, io[q].begun + 1}
    BY <1>0, <2>1 DEF BeginIO, Send, Go, hist, Types
  <2>3. \A q \in Requests : io[q].begun \in Nat /\ io[q].replied \in Nat
    BY <1>0 DEF Types
  <2>4. \A q \in Requests : Outstanding(q) => Outstanding(q)'
    BY <2>2, <2>3 DEF Outstanding
  <2> QED
    BY <2>2, <2>4 DEF FloodInv
<1>9. CASE Writes
  BY <1>0, <1>2, <1>9 DEF Writes, WriteMessage, amiga
<1>10. CASE DevSteps
  <2>1. CASE DevIO /\ at'["dev"] = "flood"
    <3>1. /\ io' = io /\ again' = again /\ at["dev"] = "io" /\ phase["dev"] = "none"
      BY <1>0, <2>1 DEF DevIO, At, Go
    <3>2. msg["dev"].r \in Requests /\ Has("dev", msg["dev"].r)
      BY <1>0, <3>1 DEF HandInv, Holding, Copies, Has
    <3>3. again = {} => Outstanding(msg["dev"].r)
      BY <1>0, <3>2 DEF IInv, RequestInv, MessageInv, Current
    <3> QED
      BY <3>1, <3>2, <3>3 DEF FloodInv, Outstanding
  <2>2. CASE ~ (DevIO /\ at'["dev"] = "flood")
    <3>1. at'["dev"] \notin {"flood", "floodmark"}
      BY <1>0, <1>10, <2>2 DEF DevSteps, DevRead, DevLookup, DevReply, DevRelease, DevIO, DevAdd, At, Go
    <3> QED
      BY <3>1 DEF FloodInv
  <2> QED
    BY <2>1, <2>2
<1>11. CASE UNCHANGED vars
  BY <1>2, <1>11 DEF vars, amiga
<1> QED
  BY <1>3, <1>4, <1>5, <1>6, <1>7, <1>8, <1>9, <1>10, <1>11, Steps

(* The unit may be opened again before dev_thread has read its Quit.  The  *)
(* pipe that this clears held no request, and dev_thread worked on none.   *)
THEOREM ReopenLosesOnlyQuitAlways == Spec => []ReopenLosesOnlyQuit
<1>1. ASSUME Init PROVE FloodInv
  BY <1>1 DEF Init, FloodInv, Flooding
<1>2. IInv /\ FloodInv /\ [Next]_vars => FloodInv'
  BY FloodKept
<1>3. ASSUME KeptInv, FloodInv PROVE ReopenLosesOnlyQuit
  <2> SUFFICES ASSUME at["cpu"] \in {"closed", "shared"}, again = {}
               PROVE  /\ Range(requests) \subseteq {Quit}
                      /\ at["dev"] \in {"off", "start", "read", "release"}
    BY DEF ReopenLosesOnlyQuit
  <2>1. /\ Types /\ HandInv /\ PlaceInv /\ \A r \in Requests : RequestInv(r) /\ ~ Outstanding(r)
    BY <1>3 DEF KeptInv, IInv, UnitInv, RunInv
  <2>2. \A i \in DOMAIN requests : requests[i] = Quit
    <3>1. \A i \in DOMAIN requests : requests[i] \in Messages
      BY <2>1, Elements
    <3>2. ASSUME NEW i \in DOMAIN requests, requests[i] \in Copies PROVE FALSE
      <4>1. requests[i].r \in Requests /\ Piped(i, requests[i].r)
        BY <3>2 DEF Copies, Piped
      <4> QED
        BY <2>1, <4>1 DEF RequestInv, MessageInv, Current
    <3> QED
      BY <3>1, <3>2 DEF Messages
  <2>3. at["dev"] \notin Holding
    <3>1. ASSUME at["dev"] \in Holding PROVE FALSE
      <4>1. msg["dev"].r \in Requests /\ Has("dev", msg["dev"].r)
        BY <2>1, <3>1, ThreadFacts DEF HandInv, Copies, Has
      <4> QED
        BY <2>1, <4>1, ThreadFacts DEF RequestInv, MessageInv, Current
    <3> QED
      BY <3>1
  <2>4. at["dev"] # "flood"
    BY <1>3, <2>1 DEF FloodInv, Flooding
  <2>5. at["dev"] \in {"off", "start", "read", "release"}
    BY <2>1, <2>3, <2>4 DEF PlaceInv, DevPlaces, Holding
  <2> QED
    BY <2>2, <2>5 DEF Range
<1>4. KeptInv => IInv
  BY DEF KeptInv
<1> QED
  BY <1>1, <1>2, <1>3, <1>4, KeptInvariant, PTL DEF Spec
=============================================================================
