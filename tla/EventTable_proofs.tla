--------------------------- MODULE EventTable_proofs ---------------------------
(***************************************************************************)
(* Proofs about the table of delayed calls, for any number of slots,       *)
(* kinds, delays and events: the type invariant, that no event is missed,  *)
(* and what the time and the order of the events rest on.                  *)
(***************************************************************************)
EXTENDS EventTable, FiniteSetTheorems, SequenceTheorems, TLAPS

Events == [active : BOOLEAN, evtime : Times, kind : Kinds \cup {Owner}, next : Slots \cup {NoSlot},
           id : 0 .. MaxEvents, asked : Times, after : 0 .. MaxEvents]
MiscFrames    == [in : {"misc"}, i : 0 .. ev2_max, at : {"scan", "first", "second"},
                  mintime : Times, recheck : BOOLEAN, id : 0 .. MaxEvents]
HandlerFrames == [in : {"handler"}, left : 0 .. PerHandler]
NewFrames     == [in : {"new"}, no : General, et : Times, kind : Kinds]
Frames        == MiscFrames \cup HandlerFrames \cup NewFrames

(* The searches that a full table has interrupted. *)
News(st) == {k \in DOMAIN st : st[k].in = "new"}

Types ==
  /\ currcycle \in Nat /\ currcycle < Horizon + CYCLE_UNIT /\ ids \in Nat /\ clears \in 0 .. MaxClears
  /\ eventtab2 \in [Slots -> Events] /\ ev_misc \in [active : BOOLEAN, evtime : Times]
  /\ last_event2 \in Slots \cup {NoSlot} /\ next \in General /\ dorecheck \in BOOLEAN
  /\ stack \in Seq(Frames) /\ ids + Cardinality(News(stack)) <= MaxEvents
  /\ ids > 0 => last_event2 # NoSlot

(* MISC_handler runs at most once, and is the innermost call while it      *)
(* scans.  A time that was asked for is ahead.                             *)
StackInv ==
  /\ \A j, k \in DOMAIN stack : stack[j].in = "misc" /\ stack[k].in = "misc" => j = k
  /\ \A k \in DOMAIN stack : stack[k].in = "misc" =>
       IF stack[k].at = "scan" THEN k = Len(stack) ELSE stack[k].i < ev2_max
  /\ \A k \in DOMAIN stack : stack[k].in = "new" =>
       currcycle < stack[k].et /\ stack[k].et <= currcycle + Max(Delays)

TimesInv ==
  \A s \in Active(eventtab2) :
    /\ ids > 0
    /\ currcycle <= eventtab2[s].evtime /\ eventtab2[s].evtime <= currcycle + Max(Delays) + 1

(* While MISC_handler does not run, the timer rings for the first event.   *)
TimerInv ==
  IF Recursive(stack) THEN ~ ev_misc.active
  ELSE /\ ev_misc.active => currcycle < ev_misc.evtime
       /\ \A s \in Active(eventtab2) :
            currcycle < eventtab2[s].evtime /\ ev_misc.active /\ ev_misc.evtime <= eventtab2[s].evtime

(* While it runs, at slot i: the slots behind it are not due, and it knows *)
(* their times, unless it is going to look at all of them again.           *)
ScanInv(f) ==
  /\ currcycle < f.mintime
  /\ \A s \in Active(eventtab2) :
       /\ s < f.i \/ (s = f.i /\ f.at # "scan") => currcycle < eventtab2[s].evtime
       /\ s < f.i => \/ f.recheck \/ (f.at # "scan" /\ dorecheck)
                     \/ f.mintime <= eventtab2[s].evtime
MiscInv == \A k \in DOMAIN stack : stack[k].in = "misc" => ScanInv(stack[k])

IInv == Types /\ StackInv /\ TimesInv /\ TimerInv /\ MiscInv

-----------------------------------------------------------------------------
(* Least and greatest elements of finite sets of numbers.                  *)
LEMMA FiniteHasLeast ==
  ASSUME NEW S, S \subseteq Int, IsFiniteSet(S), S # {}
  PROVE  \E i \in S : \A j \in S : i <= j
<1> DEFINE Upto(i) == {j \in S : j <= i}
           T == {Upto(i) : i \in S}
           R == StrictSubsetOrdering(S)
<1>1. IsWellFoundedOn(R, SUBSET S)
  <2>1. FiniteSubsetsOf(S) = SUBSET S
    BY FS_FiniteSubsetsOfFinite
  <2>2. IsWellFoundedOn(R, FiniteSubsetsOf(S))
    BY FS_StrictSubsetOrderingWellFounded
  <2> QED
    BY <2>1, <2>2
<1>2. T \subseteq SUBSET S /\ T # {}
  OBVIOUS
<1>3. PICK x \in T : \A y \in T : ~ (<<y, x>> \in R)
  <2> HIDE DEF T, R
  <2> QED
    BY <1>1, <1>2, WFMin
<1>4. PICK i \in S : x = Upto(i)
  OBVIOUS
<1>5. ASSUME NEW j \in S, j < i PROVE FALSE
  <2>1. i \in Int /\ j \in Int /\ \A k \in S : k \in Int
    OBVIOUS
  <2>2. \A k \in S : k <= j => k <= i
    BY <1>5, <2>1
  <2>3. Upto(j) \in T /\ Upto(j) \subseteq Upto(i)
    BY <2>2, Zenon
  <2>4. i \in Upto(i) /\ i \notin Upto(j)
    BY <1>5, <2>1
  <2>5. <<Upto(j), Upto(i)>> \in R
    BY <1>2, <2>3, <2>4 DEF StrictSubsetOrdering
  <2> QED
    BY <1>3, <1>4, <2>3, <2>5
<1> QED
  BY <1>5

LEMMA MinIsLeast ==
  ASSUME NEW S, S \subseteq Int, IsFiniteSet(S), S # {}
  PROVE  Min(S) \in S /\ \A j \in S : Min(S) <= j
<1>1. \E i \in S : \A j \in S : i <= j
  BY FiniteHasLeast
<1> QED
  BY <1>1 DEF Min

LEMMA MaxIsGreatest ==
  ASSUME NEW S, S \subseteq Int, IsFiniteSet(S), S # {}
  PROVE  Max(S) \in S /\ \A j \in S : Max(S) >= j
<1> DEFINE N == {-i : i \in S}
<1>1. N \subseteq Int /\ N # {}
  OBVIOUS
<1>2. IsFiniteSet(N)
  <2> DEFINE f == [i \in S |-> -i]
  <2>1. f \in Surjection(S, N)
    BY DEF Surjection
  <2> QED
    BY <2>1, FS_Surjection
<1>3. PICK n \in N : \A m \in N : n <= m
  BY <1>1, <1>2, FiniteHasLeast
<1>4. PICK i \in S : n = -i
  OBVIOUS
<1>5. \A j \in S : i >= j
  <2> SUFFICES ASSUME NEW j \in S PROVE i >= j
    OBVIOUS
  <2>1. -j \in N /\ j \in Int /\ i \in Int
    OBVIOUS
  <2>2. -i <= -j
    BY <1>3, <1>4, <2>1
  <2> QED
    BY <2>1, <2>2
<1> QED
  BY <1>5 DEF Max

LEMMA Constants ==
  /\ ev2_misc \in Nat /\ ev2_max \in Nat /\ ev2_misc < ev2_max /\ CYCLE_UNIT \in Nat /\ CYCLE_UNIT > 1
  /\ PerHandler \in Nat /\ MaxClears \in Nat /\ MaxEvents \in Nat /\ Horizon \in Nat
  /\ Max(Delays) \in Nat /\ \A t \in Delays : t \in Nat \ {0} /\ t <= Max(Delays)
  /\ Never \in Nat /\ Never = Horizon + MaxEvents + Max(Delays) + CYCLE_UNIT
  /\ General \subseteq Slots /\ NoSlot \notin Slots /\ ev2_misc \in General
<1>1. Max(Delays) \in Delays /\ \A t \in Delays : t <= Max(Delays)
  <2>1. Delays \subseteq Int /\ IsFiniteSet(Delays) /\ Delays # {} /\ \A t \in Delays : t \in Nat
    BY EventAssumption
  <2>2. Max(Delays) \in Delays /\ \A t \in Delays : Max(Delays) >= t
    BY <2>1, MaxIsGreatest
  <2> QED
    BY <2>1, <2>2
<1>2. \A t \in Delays : t \in Nat \ {0}
  BY EventAssumption
<1> QED
  BY <1>1, <1>2, EventAssumption DEF Never, General, Slots, NoSlot

(* The earliest of some slots. *)
LEMMA EarliestIsLeast ==
  ASSUME Types, NEW S, S \subseteq Slots
  PROVE  /\ Earliest(S) \in Times
         /\ \A s \in S : Earliest(S) <= eventtab2[s].evtime
         /\ Earliest(S) = Never \/ \E s \in S : Earliest(S) = eventtab2[s].evtime
<1> DEFINE E == {eventtab2[s].evtime : s \in S} \cup {Never}
<1>1. E \subseteq Times /\ E # {}
  <2>1. \A s \in S : eventtab2[s] \in Events
    BY DEF Types
  <2>2. \A s \in S : eventtab2[s].evtime \in Times
    BY <2>1 DEF Events
  <2>3. Never \in Times
    BY Constants DEF Times
  <2> QED
    BY <2>2, <2>3
<1>2. IsFiniteSet(E) /\ E \subseteq Int
  <2>1. IsFiniteSet(Times) /\ Times \subseteq Int
    BY Constants, FS_Interval DEF Times
  <2> QED
    BY <1>1, <2>1, FS_Subset
<1>3. Min(E) \in E /\ \A e \in E : Min(E) <= e
  BY <1>1, <1>2, MinIsLeast
<1>4. Earliest(S) = Min(E)
  BY DEF Earliest
<1> QED
  BY <1>1, <1>3, <1>4

-----------------------------------------------------------------------------
(* The C stack. *)
LEMMA FrameKinds ==
  ASSUME NEW f \in Frames
  PROVE  /\ f.in \in {"misc", "handler", "new"}
         /\ f.in = "misc" => f \in MiscFrames
         /\ f.in = "handler" => f \in HandlerFrames
         /\ f.in = "new" => f \in NewFrames
  BY DEF Frames, MiscFrames, HandlerFrames, NewFrames

LEMMA NewFramesAre ==
  /\ Scanning \in MiscFrames /\ Scanning.in = "misc" /\ Scanning.at = "scan" /\ Scanning.i = 0
  /\ Scanning.mintime = Never /\ Scanning \in Frames
  /\ Handler \in HandlerFrames /\ Handler.in = "handler" /\ Handler \in Frames
  BY Constants DEF Scanning, Handler, Frames, MiscFrames, HandlerFrames, Times

LEMMA Pushed ==
  ASSUME NEW st \in Seq(Frames), NEW f \in Frames
  PROVE  /\ Append(st, f) \in Seq(Frames) /\ Len(st) \in Nat /\ Len(Append(st, f)) = Len(st) + 1
         /\ DOMAIN Append(st, f) = 1 .. Len(st) + 1 /\ DOMAIN st = 1 .. Len(st)
         /\ Append(st, f)[Len(st) + 1] = f
         /\ \A k \in 1 .. Len(st) : Append(st, f)[k] = st[k]
         /\ \A k \in 1 .. Len(st) + 1 : k = Len(st) + 1 \/ k \in 1 .. Len(st)
<1>1. /\ Append(st, f) \in Seq(Frames) /\ Len(Append(st, f)) = Len(st) + 1 /\ Len(st) \in Nat
      /\ Append(st, f)[Len(st) + 1] = f
      /\ \A k \in 1 .. Len(st) : Append(st, f)[k] = st[k]
  BY AppendProperties, LenProperties
<1> QED
  BY <1>1, LenProperties

LEMMA NewsPushed ==
  ASSUME NEW st \in Seq(Frames), NEW f \in Frames
  PROVE  /\ Cardinality(News(st)) \in Nat
         /\ Cardinality(News(Append(st, f))) =
              Cardinality(News(st)) + (IF f.in = "new" THEN 1 ELSE 0)
<1>1. IsFiniteSet(News(st)) /\ Cardinality(News(st)) \in Nat
  <2>1. IsFiniteSet(1 .. Len(st)) /\ DOMAIN st = 1 .. Len(st)
    BY Pushed, FS_Interval
  <2>2. IsFiniteSet(News(st))
    BY <2>1, FS_Subset DEF News
  <2> QED
    BY <2>2, FS_CardinalityType
<1>2. News(Append(st, f)) = IF f.in = "new" THEN News(st) \cup {Len(st) + 1} ELSE News(st)
  BY Pushed DEF News
<1>3. Len(st) + 1 \notin News(st)
  BY Pushed DEF News
<1>4. Cardinality(News(st) \cup {Len(st) + 1}) = Cardinality(News(st)) + 1
  BY <1>1, <1>3, FS_AddElement
<1> QED
  BY <1>1, <1>2, <1>4

LEMMA LastOf ==
  ASSUME NEW n \in Nat \ {0}
  PROVE  n - 1 + 1 = n /\ \A k \in 1 .. n : k = n \/ k \in 1 .. n - 1
OBVIOUS

LEMMA TopAndBelow ==
  ASSUME Types, stack # <<>>
  PROVE  /\ Len(stack) \in Nat \ {0} /\ DOMAIN stack = 1 .. Len(stack)
         /\ Top \in Frames /\ Top = stack[Len(stack)] /\ Len(stack) \in DOMAIN stack
         /\ Below \in Seq(Frames) /\ Len(Below) = Len(stack) - 1 /\ DOMAIN Below = 1 .. Len(stack) - 1
         /\ \A k \in 1 .. Len(stack) - 1 : Below[k] = stack[k]
         /\ stack = Append(Below, Top)
<1>1. stack \in Seq(Frames)
  BY DEF Types
<1>2. Len(stack) \in Nat /\ DOMAIN stack = 1 .. Len(stack) /\ Len(stack) # 0
  BY <1>1, EmptySeq, LenProperties
<1>3. \A k \in 1 .. Len(stack) : stack[k] \in Frames
  BY <1>1, ElementOfSeq
<1>4. /\ Below \in Seq(Frames) /\ Len(Below) = Len(stack) - 1
      /\ \A k \in 1 .. Len(stack) - 1 : Below[k] = stack[k]
  <2>1. /\ SubSeq(stack, 1, Len(stack) - 1) \in Seq(Frames)
        /\ Len(SubSeq(stack, 1, Len(stack) - 1)) = Len(stack) - 1
        /\ \A k \in 1 .. Len(stack) - 1 : SubSeq(stack, 1, Len(stack) - 1)[k] = stack[k]
    <3>1. \A k \in 1 .. Len(stack) - 1 : stack[k] \in Frames
      BY <1>2, <1>3
    <3> QED
      BY <1>1, <1>2, <3>1, SubSeqProperties
  <2> QED
    BY <2>1 DEF Below, Front
<1>5. Top \in Frames /\ Top = stack[Len(stack)] /\ Len(stack) \in DOMAIN stack
  BY <1>2, <1>3 DEF Top
<1>6. DOMAIN Below = 1 .. Len(stack) - 1
  BY <1>2, <1>4, LenProperties
<1> HIDE DEF Below, Top
<1>7. stack = Append(Below, Top)
  <2>1. /\ Append(Below, Top) \in Seq(Frames) /\ Len(Append(Below, Top)) = Len(stack)
        /\ \A k \in 1 .. Len(stack) : Append(Below, Top)[k] = stack[k]
    <3>1. /\ Append(Below, Top) \in Seq(Frames) /\ Len(Append(Below, Top)) = Len(Below) + 1
          /\ Append(Below, Top)[Len(Below) + 1] = Top
          /\ \A k \in 1 .. Len(Below) : Append(Below, Top)[k] = Below[k]
      BY <1>4, <1>5, Pushed
    <3>2. Len(Below) + 1 = Len(stack)
      BY <1>2, <1>4
    <3>3. \A k \in 1 .. Len(stack) : k = Len(stack) \/ k \in 1 .. Len(stack) - 1
      BY <1>2, LastOf
    <3> QED
      BY <1>4, <1>5, <3>1, <3>2, <3>3
  <2> QED
    BY <1>1, <2>1, SeqEqual
<1> QED
  BY <1>2, <1>4, <1>5, <1>6, <1>7

(* What the stack looks like to a caller: the same frames, one less at     *)
(* most, and a MISC_handler among them is not scanning.                    *)
Context(st) ==
  /\ st \in Seq(Frames)
  /\ \A k \in DOMAIN st : /\ k \in DOMAIN stack /\ st[k].in = stack[k].in
                          /\ st[k].in # "handler" => st[k] = stack[k]
                          /\ st[k].in = "misc" => st[k].at # "scan"
  /\ \A k \in DOMAIN stack : stack[k].in = "misc" => k \in DOMAIN st

LEMMA BelowIsContext ==
  ASSUME Types, StackInv, stack # <<>>, Top.in # "misc"
  PROVE  /\ Context(Below)
         /\ \A f \in Frames : f.in = "handler" /\ Top.in = "handler" => Context(Append(Below, f))
         /\ Cardinality(News(stack)) =
              Cardinality(News(Below)) + (IF Top.in = "new" THEN 1 ELSE 0)
<1>1. Context(Below)
  <2>1. \A k \in DOMAIN Below : k \in DOMAIN stack /\ Below[k] = stack[k] /\ k # Len(stack)
    BY TopAndBelow
  <2>2. \A k \in DOMAIN stack : k = Len(stack) \/ k \in DOMAIN Below
    BY TopAndBelow
  <2>3. \A k \in DOMAIN Below : Below[k].in = "misc" => Below[k].at # "scan"
    BY <2>1 DEF StackInv
  <2> QED
    BY <2>1, <2>2, <2>3, TopAndBelow DEF Context
<1>2. ASSUME NEW f \in Frames, f.in = "handler", Top.in = "handler" PROVE Context(Append(Below, f))
  <2>1. /\ Append(Below, f) \in Seq(Frames) /\ DOMAIN Append(Below, f) = 1 .. Len(stack)
        /\ Append(Below, f)[Len(stack)] = f
        /\ \A k \in 1 .. Len(stack) - 1 : Append(Below, f)[k] = Below[k]
        /\ \A k \in 1 .. Len(stack) : k = Len(stack) \/ k \in 1 .. Len(stack) - 1
    <3>1. /\ Append(Below, f) \in Seq(Frames) /\ DOMAIN Append(Below, f) = 1 .. Len(Below) + 1
          /\ Append(Below, f)[Len(Below) + 1] = f
          /\ \A k \in 1 .. Len(Below) : Append(Below, f)[k] = Below[k]
      BY TopAndBelow, Pushed
    <3>2. Len(Below) = Len(stack) - 1 /\ Len(Below) + 1 = Len(stack)
      BY TopAndBelow, LastOf
    <3>3. \A k \in 1 .. Len(stack) : k = Len(stack) \/ k \in 1 .. Len(stack) - 1
      BY TopAndBelow, LastOf
    <3> QED
      BY <3>1, <3>2, <3>3
  <2> QED
    BY <1>1, <1>2, <2>1, TopAndBelow DEF Context
<1>3. Cardinality(News(Append(Below, Top))) = Cardinality(News(Below)) + (IF Top.in = "new" THEN 1 ELSE 0)
  BY TopAndBelow, NewsPushed
<1> QED
  BY <1>1, <1>2, <1>3, TopAndBelow

-----------------------------------------------------------------------------
(* Steps that put an event into the table, or have a full table execute    *)
(* one: called from st, with a time that is ahead.                         *)
Ahead(et) == et \in Times /\ currcycle < et /\ et <= currcycle + Max(Delays)
RoomIn(st) == ids + 1 + Cardinality(News(st)) <= MaxEvents
First(s) == s \in Active(eventtab2) /\ \A r \in Active(eventtab2) : eventtab2[s].evtime <= eventtab2[r].evtime
Installs ==
  \E no \in Slots, et \in Times, kind \in Kinds \cup {Owner} : \E st :
    /\ Context(st) /\ Ahead(et) /\ RoomIn(st) /\ next' \in General
    /\ Install(no, et, kind, st)
Overflows ==
  \E s \in Slots, f \in NewFrames : \E st :
    /\ First(s) /\ Context(st) /\ Ahead(f.et) /\ RoomIn(st)
    /\ Execute(s, eventtab2, Append(st, f), "overflow")
    /\ UNCHANGED <<currcycle, ev_misc, last_event2, next, dorecheck, ids, clears>>

LEMMA FindSteps ==
  ASSUME Types, NEW no, NEW et, NEW kind \in Kinds, NEW st, Context(st), Ahead(et), RoomIn(st),
         FindSlot(no, et, kind, st)
  PROVE  Installs \/ Overflows
<1> DEFINE found == {s \in Visited(no) : Usable(s, et, kind)}
<1>1. CASE found # {}
  <2>1. PICK s \in found : next' = s /\ Install(s, et, kind, st)
    BY <1>1 DEF FindSlot
  <2>2. s \in General /\ s \in Slots
    BY Constants DEF Visited
  <2>3. et \in Times
    BY DEF Ahead
  <2> QED
    BY <2>1, <2>2, <2>3 DEF Installs
<1>2. CASE found = {}
  <2> DEFINE f == [in |-> "new", no |-> next, et |-> et, kind |-> kind]
  <2>1. PICK s \in Active(eventtab2) :
          /\ \A r \in Active(eventtab2) :
               \/ eventtab2[s].evtime < eventtab2[r].evtime
               \/ eventtab2[s].evtime = eventtab2[r].evtime /\ s <= r
          /\ Execute(s, eventtab2, Append(st, f), "overflow")
          /\ UNCHANGED <<currcycle, ev_misc, last_event2, next, dorecheck, ids, clears>>
    BY <1>2 DEF FindSlot
  <2>2. First(s)
    <3>1. \A r \in Active(eventtab2) : eventtab2[r].evtime \in Nat
      <4>1. \A r \in Active(eventtab2) : eventtab2[r] \in Events
        BY DEF Types, Active
      <4> QED
        BY <4>1, Constants DEF Events, Times
    <3> QED
      BY <2>1, <3>1 DEF First
  <2>3. f \in NewFrames /\ f.et = et
    BY DEF NewFrames, Ahead, Types
  <2> HIDE DEF f
  <2> QED
    BY <2>1, <2>2, <2>3 DEF Overflows, Active
<1> QED
  BY <1>1, <1>2

(* Who schedules has a context, and counts as a search that is under way.  *)
LEMMA CallerIsContext ==
  ASSUME Types, StackInv, MaySchedule
  PROVE  Context(Caller) /\ RoomIn(Caller)
<1>1. ids + Cardinality(News(stack)) < MaxEvents
  BY DEF MaySchedule, News
<1>2. CASE stack = <<>>
  <2>1. Caller = stack /\ DOMAIN stack = {} /\ stack \in Seq(Frames)
    BY <1>2 DEF Caller, Types
  <2>2. Cardinality(News(Caller)) \in Nat
    BY <2>1, NewFramesAre, NewsPushed
  <2> QED
    BY <1>1, <2>1, <2>2, Constants DEF Context, RoomIn, Types
<1>3. CASE InHandler /\ Top.left > 0 /\ stack # <<>>
  <2> DEFINE f == [Top EXCEPT !.left = @ - 1]
  <2>1. Top \in HandlerFrames /\ Top.in = "handler"
    BY <1>3, TopAndBelow, FrameKinds DEF InHandler
  <2>2. f \in HandlerFrames /\ f.in = "handler"
    BY <1>3, <2>1, Constants DEF HandlerFrames
  <2>3. f \in Frames
    BY <2>2 DEF Frames
  <2>4. Caller = Append(Below, f)
    BY <1>3 DEF Caller
  <2> HIDE DEF f
  <2>5. Context(Caller)
    BY <1>3, <2>1, <2>2, <2>3, <2>4, BelowIsContext
  <2>6. Cardinality(News(Caller)) = Cardinality(News(Below)) /\ Cardinality(News(Below)) \in Nat
    BY <1>3, <2>2, <2>3, <2>4, TopAndBelow, NewsPushed
  <2>7. Cardinality(News(stack)) = Cardinality(News(Below))
    BY <1>3, <2>1, <2>6, BelowIsContext
  <2> QED
    BY <1>1, <2>5, <2>6, <2>7, Constants DEF RoomIn, Types
<1> QED
  BY <1>2, <1>3 DEF MaySchedule, InHandler

LEMMA DelaysAreAhead ==
  ASSUME Types, ids < MaxEvents, NEW t \in Delays PROVE Ahead(currcycle + t)
BY Constants DEF Ahead, Types, Times

LEMMA ScheduleSteps ==
  ASSUME Types, StackInv,
         \/ \E t \in Delays : \/ \E kind \in Kinds : NewEvent(t, kind)
                              \/ \E no \in Slots \ General : NewEventAt(no, t)
         \/ SearchAgain
  PROVE  Installs \/ Overflows
<1>0. MaySchedule => ids < MaxEvents
  <2>1. CASE stack = <<>>
    <3>1. News(stack) = {}
      BY <2>1 DEF News
    <3>2. Cardinality(News(stack)) = 0
      BY <3>1, FS_EmptySet
    <3> QED
      BY <3>2, Constants DEF MaySchedule, News, Types
  <2>2. CASE stack # <<>>
    <3>1. Cardinality(News(stack)) \in Nat
      BY NewFramesAre, NewsPushed DEF Types
    <3> QED
      BY <3>1, Constants DEF MaySchedule, News, Types
  <2> QED
    BY <2>1, <2>2
<1>1. ASSUME NEW t \in Delays, NEW kind \in Kinds, NewEvent(t, kind) PROVE Installs \/ Overflows
  <2>1. Context(Caller) /\ RoomIn(Caller) /\ Ahead(currcycle + t)
    BY <1>0, <1>1, CallerIsContext, DelaysAreAhead DEF NewEvent
  <2> QED
    BY <1>1, <2>1, FindSteps DEF NewEvent
<1>2. ASSUME NEW t \in Delays, NEW no \in Slots \ General, NewEventAt(no, t) PROVE Installs
  <2>1. Context(Caller) /\ RoomIn(Caller) /\ Ahead(currcycle + t)
    BY <1>0, <1>2, CallerIsContext, DelaysAreAhead DEF NewEventAt
  <2>2. Install(no, currcycle + t, Owner, Caller) /\ next' \in General /\ currcycle + t \in Times
    BY <1>2, <2>1 DEF NewEventAt, Types, Ahead
  <2> QED
    BY <2>1, <2>2 DEF Installs
<1>3. ASSUME SearchAgain PROVE Installs \/ Overflows
  <2>1. stack # <<>> /\ Top.in = "new" /\ FindSlot(Top.no, Top.et, Top.kind, Below)
    BY <1>3 DEF SearchAgain
  <2>2. Top \in NewFrames /\ Len(stack) \in DOMAIN stack /\ Top = stack[Len(stack)]
    BY <2>1, TopAndBelow, FrameKinds
  <2>3. Top.et \in Times /\ Top.kind \in Kinds
    BY <2>2 DEF NewFrames
  <2>4. Ahead(Top.et)
    BY <2>1, <2>2, <2>3 DEF StackInv, Ahead
  <2>5. Cardinality(News(stack)) = Cardinality(News(Below)) + 1 /\ Cardinality(News(Below)) \in Nat
    <3>1. Cardinality(News(Below)) \in Nat
      BY <2>1, TopAndBelow, NewFramesAre, NewsPushed
    <3> QED
      BY <2>1, <3>1, BelowIsContext
  <2>6. RoomIn(Below)
    BY <2>5, Constants DEF RoomIn, Types
  <2>7. Context(Below)
    BY <2>1, BelowIsContext
  <2> QED
    BY <2>1, <2>3, <2>4, <2>6, <2>7, FindSteps
<1> QED
  BY <1>1, <1>2, <1>3

-----------------------------------------------------------------------------
(* An event is put into slot no. *)
LEMMA TableAfterInstall ==
  ASSUME Types, NEW no \in Slots, NEW et, NEW kind \in Kinds \cup {Owner}, NEW st,
         st \in Seq(Frames), Ahead(et), RoomIn(st), Install(no, et, kind, st)
  PROVE  /\ eventtab2' \in [Slots -> Events] /\ ids' = ids + 1 /\ ids' + Cardinality(News(st)) <= MaxEvents
         /\ \A s \in Slots : eventtab2'[s].active =>
              \/ s = no /\ et <= eventtab2'[s].evtime /\ eventtab2'[s].evtime <= et + 1
              \/ s \in Active(eventtab2) /\ eventtab2'[s].evtime = eventtab2[s].evtime
<1>1. Cardinality(News(st)) \in Nat
  BY NewFramesAre, NewsPushed
<1>2. ids' = ids + 1 /\ ids' \in 0 .. MaxEvents
  <2>1. ids' = ids + 1
    BY DEF Install
  <2>2. ids \in Nat /\ MaxEvents \in Nat
    BY Constants DEF Types
  <2>3. ids + 1 + Cardinality(News(st)) <= MaxEvents
    BY DEF RoomIn
  <2> QED
    BY <1>1, <2>1, <2>2, <2>3
<1>3. \A s \in Slots : eventtab2[s] \in Events
  BY DEF Types
<1> DEFINE e == [active |-> TRUE, evtime |-> IF Chains(no, et) THEN et + 1 ELSE et, kind |-> kind,
                 next |-> eventtab2[no].next, id |-> ids', asked |-> et, after |-> Previous(et)]
           c(s) == [eventtab2[s] EXCEPT !.next = no]
<1>4. e \in Events /\ e.active /\ et <= e.evtime /\ e.evtime <= et + 1
  <2>1. et \in Times /\ et + 1 \in Times /\ et \in Nat
    BY Constants DEF Ahead, Types, Times
  <2>2. Previous(et) \in 0 .. MaxEvents
    BY <1>3, Constants DEF Previous, Events, Types
  <2>3. eventtab2[no].next \in Slots \cup {NoSlot}
    BY <1>3 DEF Events
  <2> HIDE DEF Previous, Chains
  <2>4. e.evtime \in Times /\ et <= e.evtime /\ e.evtime <= et + 1
    BY <2>1 DEF Times
  <2> QED
    BY <1>2, <2>1, <2>2, <2>3, <2>4 DEF Events
<1>5. \A s \in Slots : c(s) \in Events /\ c(s).active = eventtab2[s].active /\ c(s).evtime = eventtab2[s].evtime
  BY <1>3 DEF Events
<1>6. eventtab2' = [s \in Slots |-> IF s = no THEN e
                                    ELSE IF Chains(no, et) /\ s = last_event2 THEN c(s) ELSE eventtab2[s]]
  BY DEF Install
<1> HIDE DEF e, c
<1>7. \A s \in Slots : (eventtab2'[s] = e /\ s = no) \/ eventtab2'[s] = c(s) \/ eventtab2'[s] = eventtab2[s]
  BY <1>6
<1>8. eventtab2' \in [Slots -> Events]
  BY <1>3, <1>4, <1>5, <1>6
<1> QED
  BY <1>1, <1>2, <1>4, <1>5, <1>7, <1>8 DEF RoomIn, Active

LEMMA InstallsKeep == ASSUME IInv, Installs PROVE IInv'
<1> USE DEF IInv
<1>0. PICK no \in Slots, et \in Times, kind \in Kinds \cup {Owner} : \E st :
        /\ Context(st) /\ Ahead(et) /\ RoomIn(st) /\ next' \in General
        /\ Install(no, et, kind, st)
  BY DEF Installs
<1>1. PICK st : /\ Context(st) /\ Ahead(et) /\ RoomIn(st) /\ next' \in General
                /\ Install(no, et, kind, st)
  BY <1>0
<1>2. /\ st \in Seq(Frames) /\ Len(st) \in Nat /\ DOMAIN st = 1 .. Len(st)
      /\ \A k \in DOMAIN st : /\ k \in DOMAIN stack /\ st[k].in = stack[k].in
                              /\ st[k].in # "handler" => st[k] = stack[k]
                              /\ st[k].in = "misc" => st[k].at # "scan"
      /\ \A k \in DOMAIN stack : stack[k].in = "misc" => k \in DOMAIN st
  BY <1>1, LenProperties DEF Context
<1>3. /\ eventtab2' \in [Slots -> Events] /\ ids' = ids + 1 /\ ids' + Cardinality(News(st)) <= MaxEvents
      /\ \A s \in Slots : eventtab2'[s].active =>
           \/ s = no /\ et <= eventtab2'[s].evtime /\ eventtab2'[s].evtime <= et + 1
           \/ s \in Active(eventtab2) /\ eventtab2'[s].evtime = eventtab2[s].evtime
  BY <1>1, <1>2, TableAfterInstall
<1>4. /\ UNCHANGED <<currcycle, clears, ran>> /\ last_event2' = no /\ CallMisc(st)
      /\ currcycle \in Nat /\ et \in Nat /\ currcycle < et /\ et <= currcycle + Max(Delays)
      /\ Max(Delays) \in Nat /\ ids \in Nat
  BY <1>1, Constants DEF Install, Ahead, Types, Times
<1>5. \A s \in Slots : eventtab2'[s].active =>
        /\ eventtab2'[s].evtime \in Nat /\ currcycle <= eventtab2'[s].evtime
        /\ eventtab2'[s].evtime <= currcycle + Max(Delays) + 1
        /\ s \notin Active(eventtab2) \/ eventtab2'[s].evtime # eventtab2[s].evtime =>
             currcycle < eventtab2'[s].evtime
  <2>1. \A s \in Slots : eventtab2'[s].evtime \in Nat
    BY <1>3, Constants DEF Events, Times
  <2> QED
    BY <1>3, <1>4, <2>1 DEF TimesInv
<1>6. TimesInv'
  BY <1>3, <1>4, <1>5 DEF TimesInv, Active
<1>7. Recursive(st) <=> Recursive(stack)
  BY <1>2 DEF Recursive
<1>8. NoSlot # no
  BY Constants
<1>9. CASE Recursive(st)
  <2>1. stack' = st /\ dorecheck' = TRUE /\ UNCHANGED ev_misc
    BY <1>4, <1>9 DEF CallMisc
  <2>2. Types'
    BY <1>1, <1>2, <1>3, <1>4, <1>8, <2>1 DEF Types
  <2>3. StackInv'
    <3>1. \A j, k \in DOMAIN st : st[j].in = "misc" /\ st[k].in = "misc" => j = k
      BY <1>2 DEF StackInv
    <3>2. \A k \in DOMAIN st : st[k].in = "misc" => st[k].at # "scan" /\ st[k].i < ev2_max
      BY <1>2 DEF StackInv
    <3>3. \A k \in DOMAIN st : st[k].in = "new" => currcycle < st[k].et /\ st[k].et <= currcycle + Max(Delays)
      BY <1>2 DEF StackInv
    <3> QED
      BY <1>4, <2>1, <3>1, <3>2, <3>3 DEF StackInv
  <2>4. TimerInv'
    BY <1>7, <1>9, <2>1 DEF TimerInv
  <2>5. MiscInv'
    <3> SUFFICES ASSUME NEW k \in DOMAIN st, st[k].in = "misc"
                 PROVE  /\ currcycle < st[k].mintime
                        /\ \A s \in Slots : eventtab2'[s].active /\ (s < st[k].i \/ s = st[k].i) =>
                             currcycle < eventtab2'[s].evtime
                        /\ st[k].at # "scan"
      BY <1>4, <2>1 DEF MiscInv, ScanInv, Active
    <3>1. ScanInv(stack[k]) /\ st[k] = stack[k] /\ st[k].at # "scan"
      BY <1>2 DEF MiscInv
    <3>2. \A s \in Active(eventtab2) : s < st[k].i \/ s = st[k].i => currcycle < eventtab2[s].evtime
      BY <3>1 DEF ScanInv
    <3>3. currcycle < st[k].mintime
      BY <3>1 DEF ScanInv
    <3> QED
      BY <1>5, <3>1, <3>2, <3>3
  <2> QED
    BY <1>6, <2>2, <2>3, <2>4, <2>5
<1>10. CASE ~ Recursive(st)
  <2>1. /\ stack' = Append(st, Scanning) /\ UNCHANGED dorecheck
        /\ ev_misc' = [ev_misc EXCEPT !.active = FALSE]
    BY <1>4, <1>10 DEF CallMisc
  <2>2. /\ stack' \in Seq(Frames) /\ DOMAIN stack' = 1 .. Len(st) + 1 /\ Len(stack') = Len(st) + 1
        /\ stack'[Len(st) + 1] = Scanning /\ \A k \in 1 .. Len(st) : stack'[k] = st[k]
        /\ \A k \in 1 .. Len(st) + 1 : k = Len(st) + 1 \/ k \in 1 .. Len(st)
        /\ Cardinality(News(stack')) = Cardinality(News(st)) + 0
    BY <1>2, <2>1, NewFramesAre, Pushed, NewsPushed
  <2>3. ev_misc' \in [active : BOOLEAN, evtime : Times] /\ ~ ev_misc'.active
    BY <2>1 DEF Types
  <2>4. Types'
    <3>1. Cardinality(News(st)) \in Nat
      BY <1>2, NewFramesAre, NewsPushed
    <3>2. ids' + Cardinality(News(stack')) <= MaxEvents
      BY <1>3, <1>4, <2>2, <3>1, Constants
    <3> QED
      BY <1>1, <1>3, <1>4, <1>8, <2>1, <2>2, <2>3, <3>2 DEF Types
  <2>5. \A k \in DOMAIN stack' : stack'[k].in = "misc" => k = Len(st) + 1
    BY <1>2, <1>10, <2>2 DEF Recursive
  <2>6. StackInv'
    <3>1. \A k \in DOMAIN stack' : stack'[k].in = "new" =>
            currcycle < stack'[k].et /\ stack'[k].et <= currcycle + Max(Delays)
      BY <1>2, <2>2, NewFramesAre DEF StackInv
    <3>2. stack'[Len(stack')].at = "scan"
      BY <2>2, NewFramesAre
    <3> QED
      BY <1>4, <2>2, <2>5, <3>1, <3>2 DEF StackInv
  <2>7. TimerInv'
    <3>1. Len(st) + 1 \in DOMAIN stack' /\ stack'[Len(st) + 1].in = "misc"
      BY <1>2, <2>2, NewFramesAre
    <3> QED
      BY <2>3, <3>1 DEF TimerInv, Recursive
  <2>8. MiscInv'
    <3> SUFFICES ASSUME NEW k \in DOMAIN stack', stack'[k].in = "misc"
                 PROVE  ScanInv(stack[k])'
      BY DEF MiscInv
    <3>1. stack'[k] = Scanning
      BY <2>2, <2>5
    <3>2. currcycle < Never /\ \A s \in Slots : ~ (s < 0)
      BY Constants DEF Types, Slots
    <3> QED
      BY <1>4, <3>1, <3>2, NewFramesAre DEF ScanInv, Active
  <2> QED
    BY <1>6, <2>4, <2>6, <2>7, <2>8
<1> QED
  BY <1>9, <1>10

-----------------------------------------------------------------------------
(* Steps that leave the times alone, while the events become fewer and     *)
(* other frames than MISC_handler's come and go: a handler is called or    *)
(* returns, events are removed.                                            *)
LEMMA CallsKeep ==
  ASSUME IInv, eventtab2' \in [Slots -> Events],
         \A s \in Slots : eventtab2'[s].active =>
           eventtab2[s].active /\ eventtab2'[s].evtime = eventtab2[s].evtime,
         UNCHANGED <<currcycle, ev_misc, last_event2, next, dorecheck, ids, clears>>,
         stack' \in Seq(Frames), ids + Cardinality(News(stack')) <= MaxEvents,
         \A k \in DOMAIN stack' : stack'[k].in = "misc" =>
           k \in DOMAIN stack /\ stack'[k] = stack[k] /\ (stack[k].at = "scan" => k = Len(stack')),
         \A k \in DOMAIN stack : stack[k].in = "misc" => k \in DOMAIN stack' /\ stack'[k].in = "misc",
         \A k \in DOMAIN stack' : stack'[k].in = "new" =>
           currcycle < stack'[k].et /\ stack'[k].et <= currcycle + Max(Delays)
  PROVE  IInv'
<1> USE DEF IInv
<1>1. Types'
  BY DEF Types
<1>2. StackInv'
  <2>1. \A j, k \in DOMAIN stack' : stack'[j].in = "misc" /\ stack'[k].in = "misc" => j = k
    BY DEF StackInv
  <2>2. \A k \in DOMAIN stack' : stack'[k].in = "misc" =>
          IF stack'[k].at = "scan" THEN k = Len(stack') ELSE stack'[k].i < ev2_max
    BY DEF StackInv
  <2> QED
    BY <2>1, <2>2 DEF StackInv
<1>3. TimesInv'
  BY DEF TimesInv, Active
<1>4. TimerInv'
  <2>1. Recursive(stack') <=> Recursive(stack)
    BY DEF Recursive
  <2> QED
    BY <2>1 DEF TimerInv, Active
<1>5. MiscInv'
  <2> SUFFICES ASSUME NEW k \in DOMAIN stack', stack'[k].in = "misc" PROVE ScanInv(stack[k])'
    BY DEF MiscInv
  <2>1. k \in DOMAIN stack /\ stack'[k] = stack[k] /\ stack[k].in = "misc"
    OBVIOUS
  <2>2. ScanInv(stack[k])
    BY <2>1 DEF MiscInv
  <2> QED
    BY <2>1, <2>2 DEF ScanInv, Active
<1> QED
  BY <1>1, <1>2, <1>3, <1>4, <1>5

(* e->active = false *)
LEMMA FewerActive ==
  ASSUME Types, NEW s \in Slots, NEW tab \in [Slots -> Events],
         \A r \in Slots : tab[r].active = eventtab2[r].active /\ tab[r].evtime = eventtab2[r].evtime,
         NEW st, NEW by, Execute(s, tab, st, by)
  PROVE  /\ eventtab2' \in [Slots -> Events] /\ ~ eventtab2'[s].active /\ stack' = Append(st, Handler)
         /\ \A r \in Slots : eventtab2'[r].active =>
              eventtab2[r].active /\ eventtab2'[r].evtime = eventtab2[r].evtime
<1>1. eventtab2' = [tab EXCEPT ![s].active = FALSE] /\ stack' = Append(st, Handler)
  BY DEF Execute
<1> DEFINE e == [tab[s] EXCEPT !.active = FALSE]
<1>2. e \in Events /\ ~ e.active
  BY DEF Events
<1>3. eventtab2' = [tab EXCEPT ![s] = e]
  BY <1>1
<1> HIDE DEF e
<1> QED
  BY <1>1, <1>2, <1>3

LEMMA TwoPushed ==
  ASSUME NEW st \in Seq(Frames), NEW f \in Frames
  PROVE  LET two == Append(Append(st, f), Handler) IN
         /\ two \in Seq(Frames) /\ DOMAIN two = 1 .. Len(st) + 2
         /\ two[Len(st) + 1] = f /\ two[Len(st) + 2] = Handler
         /\ \A k \in 1 .. Len(st) : two[k] = st[k] /\ k \in 1 .. Len(st) + 2
         /\ \A k \in 1 .. Len(st) + 2 : k = Len(st) + 2 \/ k = Len(st) + 1 \/ k \in 1 .. Len(st)
         /\ Cardinality(News(two)) = Cardinality(News(st)) + (IF f.in = "new" THEN 1 ELSE 0)
         /\ Cardinality(News(st)) \in Nat
         /\ Len(st) + 1 \in 1 .. Len(st) + 2 /\ Len(two) = Len(st) + 2
<1> DEFINE one == Append(st, f)
           two == Append(one, Handler)
<1>1. /\ one \in Seq(Frames) /\ Len(st) \in Nat /\ Len(one) = Len(st) + 1 /\ one[Len(st) + 1] = f
      /\ \A k \in 1 .. Len(st) : one[k] = st[k]
      /\ Cardinality(News(one)) = Cardinality(News(st)) + (IF f.in = "new" THEN 1 ELSE 0)
      /\ Cardinality(News(st)) \in Nat
  BY Pushed, NewsPushed
<1> HIDE DEF one
<1>2. /\ two \in Seq(Frames) /\ Len(two) = Len(one) + 1 /\ two[Len(one) + 1] = Handler
      /\ DOMAIN two = 1 .. Len(one) + 1 /\ \A k \in 1 .. Len(one) : two[k] = one[k]
      /\ Cardinality(News(two)) = Cardinality(News(one)) + 0 /\ Cardinality(News(one)) \in Nat
  BY <1>1, NewFramesAre, Pushed, NewsPushed
<1> HIDE DEF two
<1>3. Len(one) + 1 = Len(st) + 2
  BY <1>1
<1>4. /\ \A k \in 1 .. Len(st) : k \in 1 .. Len(one) /\ k \in 1 .. Len(st) + 2
      /\ Len(st) + 1 \in 1 .. Len(one) /\ Len(st) + 1 \in 1 .. Len(st) + 2
      /\ \A k \in 1 .. Len(st) + 2 : k = Len(st) + 2 \/ k = Len(st) + 1 \/ k \in 1 .. Len(st)
  BY <1>1
<1>5. Cardinality(News(two)) = Cardinality(News(one))
  BY <1>2
<1>6. two[Len(st) + 2] = Handler /\ DOMAIN two = 1 .. Len(st) + 2 /\ Len(two) = Len(st) + 2
  BY <1>2, <1>3
<1>7. two[Len(st) + 1] = f /\ \A k \in 1 .. Len(st) : two[k] = st[k]
  BY <1>1, <1>2, <1>4
<1>8. Cardinality(News(two)) = Cardinality(News(st)) + (IF f.in = "new" THEN 1 ELSE 0)
  BY <1>1, <1>5
<1> QED
  BY <1>1, <1>2, <1>4, <1>6, <1>7, <1>8 DEF two, one

LEMMA OverflowsKeep == ASSUME IInv, Overflows PROVE IInv'
<1> USE DEF IInv
<1>0. PICK s \in Slots, f \in NewFrames : \E st :
        /\ Context(st) /\ Ahead(f.et) /\ RoomIn(st)
        /\ Execute(s, eventtab2, Append(st, f), "overflow")
        /\ UNCHANGED <<currcycle, ev_misc, last_event2, next, dorecheck, ids, clears>>
  BY DEF Overflows
<1>1. PICK st : /\ Context(st) /\ Ahead(f.et) /\ RoomIn(st)
                /\ Execute(s, eventtab2, Append(st, f), "overflow")
                /\ UNCHANGED <<currcycle, ev_misc, last_event2, next, dorecheck, ids, clears>>
  BY <1>0
<1>2. /\ st \in Seq(Frames) /\ Len(st) \in Nat /\ DOMAIN st = 1 .. Len(st)
      /\ \A k \in DOMAIN st : /\ k \in DOMAIN stack /\ st[k].in = stack[k].in
                              /\ st[k].in # "handler" => st[k] = stack[k]
                              /\ st[k].in = "misc" => st[k].at # "scan"
      /\ \A k \in DOMAIN stack : stack[k].in = "misc" => k \in DOMAIN st
  BY <1>1, LenProperties DEF Context
<1>3. f \in Frames /\ f.in = "new"
  BY DEF Frames, NewFrames
<1>4. eventtab2 \in [Slots -> Events]
  BY DEF Types
<1>5. /\ eventtab2' \in [Slots -> Events] /\ stack' = Append(Append(st, f), Handler)
      /\ \A r \in Slots : eventtab2'[r].active =>
           eventtab2[r].active /\ eventtab2'[r].evtime = eventtab2[r].evtime
  BY <1>1, <1>4, FewerActive
<1>6. /\ stack' \in Seq(Frames) /\ DOMAIN stack' = 1 .. Len(st) + 2
      /\ stack'[Len(st) + 1] = f /\ stack'[Len(st) + 2] = Handler
      /\ \A k \in 1 .. Len(st) : stack'[k] = st[k] /\ k \in 1 .. Len(st) + 2
      /\ \A k \in 1 .. Len(st) + 2 : k = Len(st) + 2 \/ k = Len(st) + 1 \/ k \in 1 .. Len(st)
      /\ Cardinality(News(stack')) = Cardinality(News(st)) + 1
      /\ Cardinality(News(st)) \in Nat
  BY <1>2, <1>3, <1>5, TwoPushed
<1>7. ids + Cardinality(News(stack')) <= MaxEvents
  BY <1>1, <1>6, Constants DEF RoomIn, Types
<1>8. \A k \in DOMAIN stack' : stack'[k].in = "misc" =>
        k \in DOMAIN stack /\ stack'[k] = stack[k] /\ (stack[k].at = "scan" => k = Len(stack'))
  BY <1>2, <1>3, <1>6, NewFramesAre
<1>9. \A k \in DOMAIN stack : stack[k].in = "misc" => k \in DOMAIN stack' /\ stack'[k].in = "misc"
  BY <1>2, <1>6
<1>10. \A k \in DOMAIN stack' : stack'[k].in = "new" =>
         currcycle < stack'[k].et /\ stack'[k].et <= currcycle + Max(Delays)
  <2>1. \A k \in DOMAIN st : st[k].in = "new" =>
          currcycle < st[k].et /\ st[k].et <= currcycle + Max(Delays)
    BY <1>2 DEF StackInv
  <2> QED
    BY <1>1, <1>2, <1>6, <2>1, NewFramesAre DEF Ahead
<1> QED
  BY <1>1, <1>5, <1>6, <1>7, <1>8, <1>9, <1>10, CallsKeep

LEMMA HandlerReturnsKeeps == ASSUME IInv, HandlerReturns PROVE IInv'
<1> USE DEF IInv
<1>1. /\ stack # <<>> /\ Top.in = "handler" /\ stack' = Below
      /\ UNCHANGED <<currcycle, eventtab2, ev_misc, last_event2, next, dorecheck, ids, clears>>
  BY DEF HandlerReturns, InHandler
<1>2. /\ Context(Below) /\ Cardinality(News(stack)) = Cardinality(News(Below)) + 0
  BY <1>1, BelowIsContext
<1>3. Cardinality(News(Below)) \in Nat
  BY <1>1, TopAndBelow, NewFramesAre, NewsPushed
<1>4. ids + Cardinality(News(stack')) <= MaxEvents
  <2>1. News(stack') = News(Below)
    BY <1>1
  <2> QED
    BY <1>2, <1>3, <2>1, Constants DEF Types
<1>5. eventtab2' \in [Slots -> Events] /\ stack' \in Seq(Frames)
  BY <1>1, <1>2 DEF Types, Context
<1>6. \A k \in DOMAIN stack' : k \in DOMAIN stack /\ stack'[k] = stack[k] /\ k # Len(stack)
  BY <1>1, TopAndBelow
<1>7. \A k \in DOMAIN stack' : stack'[k].in = "misc" => stack'[k].at # "scan"
  BY <1>1, <1>2 DEF Context
<1>8. \A k \in DOMAIN stack : stack[k].in = "misc" => k \in DOMAIN stack'
  BY <1>1, <1>2 DEF Context
<1>9. \A k \in DOMAIN stack' : stack'[k].in = "new" =>
         currcycle < stack'[k].et /\ stack'[k].et <= currcycle + Max(Delays)
  BY <1>6 DEF StackInv
<1> QED
  BY <1>1, <1>4, <1>5, <1>6, <1>7, <1>8, <1>9, CallsKeep

LEMMA RemoveEventsKeeps == ASSUME IInv, NEW kind \in Removable, RemoveEvents(kind) PROVE IInv'
<1> USE DEF IInv
<1> DEFINE c(s) == [eventtab2[s] EXCEPT !.active = FALSE]
<1>1. /\ eventtab2' = [s \in Slots |-> IF eventtab2[s].kind = kind THEN c(s) ELSE eventtab2[s]]
      /\ UNCHANGED <<currcycle, ev_misc, last_event2, next, dorecheck, stack, ids, clears>>
  BY DEF RemoveEvents
<1>2. \A s \in Slots : eventtab2[s] \in Events /\ c(s) \in Events /\ ~ c(s).active
  BY DEF Types, Events
<1> HIDE DEF c
<1>3. eventtab2' \in [Slots -> Events]
  BY <1>1, <1>2
<1>4. \A s \in Slots : eventtab2'[s].active =>
        eventtab2[s].active /\ eventtab2'[s].evtime = eventtab2[s].evtime
  BY <1>1, <1>2
<1>5. stack' \in Seq(Frames) /\ ids + Cardinality(News(stack')) <= MaxEvents
  BY <1>1 DEF Types
<1> QED
  BY <1>1, <1>3, <1>4, <1>5, CallsKeep DEF StackInv

LEMMA ClearKeeps == ASSUME IInv, Clear PROVE IInv'
<1> USE DEF IInv
<1> DEFINE c(s) == [eventtab2[s] EXCEPT !.active = FALSE]
<1>1. /\ stack = <<>> /\ clears < MaxClears /\ clears' = clears + 1
      /\ eventtab2' = [s \in Slots |-> c(s)] /\ ev_misc' = [ev_misc EXCEPT !.active = FALSE]
      /\ UNCHANGED <<currcycle, last_event2, next, dorecheck, stack, ids>>
  BY DEF Clear
<1>2. \A s \in Slots : c(s) \in Events /\ ~ c(s).active
  BY DEF Types, Events
<1> HIDE DEF c
<1>3. eventtab2' \in [Slots -> Events] /\ \A s \in Slots : ~ eventtab2'[s].active
  BY <1>1, <1>2
<1>4. ev_misc' \in [active : BOOLEAN, evtime : Times] /\ ~ ev_misc'.active
  BY <1>1 DEF Types
<1>5. Types'
  BY <1>1, <1>3, <1>4, Constants DEF Types
<1>6. StackInv'
  BY <1>1 DEF StackInv
<1>7. TimesInv' /\ TimerInv' /\ MiscInv'
  BY <1>1, <1>3, <1>4 DEF TimesInv, TimerInv, MiscInv, Active, Recursive
<1> QED
  BY <1>5, <1>6, <1>7

-----------------------------------------------------------------------------
(* Steps of MISC_handler that go on with the frame f. *)
LEMMA MiscKeeps ==
  ASSUME IInv, InMisc, NEW f \in MiscFrames, f.at # "scan" => f.i < ev2_max,
         eventtab2' \in [Slots -> Events],
         \A s \in Slots : eventtab2'[s].active =>
           eventtab2[s].active /\ eventtab2'[s].evtime = eventtab2[s].evtime,
         UNCHANGED <<currcycle, ev_misc, last_event2, next, ids, clears>>, dorecheck' \in BOOLEAN,
         ScanInv(f)',
         stack' = IF f.at = "scan" THEN Append(Below, f) ELSE Append(Append(Below, f), Handler)
  PROVE  IInv'
<1> USE DEF IInv
<1>1. f \in Frames /\ f.in = "misc"
  BY DEF Frames, MiscFrames
<1>2. stack # <<>> /\ Top.in = "misc"
  BY DEF InMisc
<1>3. /\ Len(stack) \in Nat \ {0} /\ DOMAIN stack = 1 .. Len(stack) /\ stack[Len(stack)].in = "misc"
      /\ Len(stack) \in DOMAIN stack
      /\ Below \in Seq(Frames) /\ Len(Below) = Len(stack) - 1 /\ Len(Below) + 1 = Len(stack)
      /\ \A k \in 1 .. Len(stack) - 1 : Below[k] = stack[k]
      /\ stack = Append(Below, Top) /\ Top \in Frames
  BY <1>2, TopAndBelow, LastOf
<1>4. \A k \in 1 .. Len(Below) : /\ k \in DOMAIN stack /\ Below[k] = stack[k]
                                 /\ k # Len(stack) /\ Below[k].in # "misc"
  <2>1. \A k \in 1 .. Len(Below) : k \in DOMAIN stack /\ Below[k] = stack[k] /\ k # Len(stack)
    BY <1>3
  <2> QED
    BY <1>3, <2>1 DEF StackInv
<1>5. Cardinality(News(Below)) \in Nat /\ Cardinality(News(stack)) = Cardinality(News(Below))
  <2>1. Cardinality(News(Append(Below, Top))) = Cardinality(News(Below)) + 0
    BY <1>2, <1>3, NewsPushed
  <2> QED
    BY <1>3, <2>1, NewFramesAre, NewsPushed
<1>6. /\ stack' \in Seq(Frames) /\ Cardinality(News(stack')) = Cardinality(News(Below))
      /\ Len(stack) \in DOMAIN stack' /\ stack'[Len(stack)] = f
      /\ f.at = "scan" => Len(stack') = Len(stack)
      /\ \A k \in DOMAIN stack' :
           \/ k = Len(stack)
           \/ k \in 1 .. Len(Below) /\ stack'[k] = Below[k]
           \/ stack'[k] = Handler
  <2>1. CASE f.at = "scan"
    <3>1. stack' = Append(Below, f)
      BY <2>1
    <3>2. /\ stack' \in Seq(Frames) /\ Len(stack') = Len(stack) /\ DOMAIN stack' = 1 .. Len(stack)
          /\ stack'[Len(stack)] = f /\ \A k \in 1 .. Len(Below) : stack'[k] = Below[k]
          /\ \A k \in 1 .. Len(stack) : k = Len(stack) \/ k \in 1 .. Len(Below)
      <4>1. /\ Append(Below, f) \in Seq(Frames) /\ Len(Append(Below, f)) = Len(Below) + 1
            /\ DOMAIN Append(Below, f) = 1 .. Len(Below) + 1 /\ Append(Below, f)[Len(Below) + 1] = f
            /\ \A k \in 1 .. Len(Below) : Append(Below, f)[k] = Below[k]
            /\ \A k \in 1 .. Len(Below) + 1 : k = Len(Below) + 1 \/ k \in 1 .. Len(Below)
        BY <1>1, <1>3, Pushed
      <4> QED
        BY <1>3, <3>1, <4>1
    <3>3. Cardinality(News(stack')) = Cardinality(News(Below)) + 0
      BY <1>1, <1>3, <3>1, NewsPushed
    <3> QED
      BY <1>3, <1>5, <3>2, <3>3
  <2>2. CASE f.at # "scan"
    <3>1. stack' = Append(Append(Below, f), Handler)
      BY <2>2
    <3>2. /\ stack' \in Seq(Frames) /\ DOMAIN stack' = 1 .. Len(Below) + 2
          /\ stack'[Len(Below) + 1] = f /\ stack'[Len(Below) + 2] = Handler
          /\ \A k \in 1 .. Len(Below) : stack'[k] = Below[k]
          /\ \A k \in 1 .. Len(Below) + 2 : k = Len(Below) + 2 \/ k = Len(Below) + 1 \/ k \in 1 .. Len(Below)
          /\ Cardinality(News(stack')) = Cardinality(News(Below)) + 0
          /\ Len(Below) + 1 \in 1 .. Len(Below) + 2
      BY <1>1, <1>3, <3>1, TwoPushed
    <3> QED
      BY <1>3, <1>5, <2>2, <3>2
  <2> QED
    BY <2>1, <2>2
<1>7. \A k \in DOMAIN stack' : stack'[k].in = "misc" => k = Len(stack)
  BY <1>4, <1>6, NewFramesAre
<1>8. Types'
  <2>1. ids' + Cardinality(News(stack')) <= MaxEvents
    BY <1>5, <1>6, Constants DEF Types
  <2> QED
    BY <1>6, <2>1 DEF Types
<1>9. StackInv'
  <2>1. \A k \in DOMAIN stack' : stack'[k].in = "new" =>
          currcycle < stack'[k].et /\ stack'[k].et <= currcycle + Max(Delays)
    BY <1>1, <1>4, <1>6, NewFramesAre DEF StackInv
  <2> QED
    BY <1>6, <1>7, <2>1 DEF StackInv
<1>10. TimesInv'
  BY DEF TimesInv, Active
<1>11. TimerInv'
  <2>1. Recursive(stack) /\ Recursive(stack')
    BY <1>1, <1>3, <1>6 DEF Recursive
  <2> QED
    BY <2>1 DEF TimerInv
<1>12. MiscInv'
  <2> SUFFICES ASSUME NEW k \in DOMAIN stack', stack'[k].in = "misc" PROVE ScanInv(stack[k])'
    BY DEF MiscInv
  <2>1. stack'[k] = f
    BY <1>6, <1>7
  <2> QED
    BY <2>1 DEF ScanInv
<1> QED
  BY <1>8, <1>9, <1>10, <1>11, <1>12

(* What MISC_handler knows when it is the innermost call. *)
LEMMA MiscTop ==
  ASSUME IInv, InMisc
  PROVE  /\ Top \in MiscFrames /\ ScanInv(Top) /\ Recursive(stack) /\ ~ ev_misc.active
         /\ Top.at # "scan" => Top.i < ev2_max
         /\ Below \in Seq(Frames) /\ ~ Recursive(Below)
         /\ stack # <<>>
<1> USE DEF IInv
<1>1. stack # <<>> /\ Top.in = "misc"
  BY DEF InMisc
<1>2. /\ Top \in Frames /\ Top = stack[Len(stack)] /\ Len(stack) \in DOMAIN stack
      /\ Below \in Seq(Frames) /\ DOMAIN Below = 1 .. Len(stack) - 1 /\ Len(stack) \in Nat \ {0}
      /\ DOMAIN stack = 1 .. Len(stack)
      /\ \A k \in 1 .. Len(stack) - 1 : Below[k] = stack[k]
  BY <1>1, TopAndBelow
<1>3. Top \in MiscFrames
  BY <1>1, <1>2, FrameKinds
<1>4. ScanInv(Top)
  BY <1>1, <1>2 DEF MiscInv
<1>5. Recursive(stack)
  BY <1>1, <1>2 DEF Recursive
<1>6. \A k \in DOMAIN Below : k \in DOMAIN stack /\ Below[k] = stack[k] /\ k # Len(stack)
  BY <1>2
<1>7. ~ Recursive(Below)
  BY <1>1, <1>2, <1>6 DEF Recursive, StackInv
<1>8. Top.at # "scan" => Top.i < ev2_max
  BY <1>1, <1>2 DEF StackInv
<1> QED
  BY <1>1, <1>2, <1>3, <1>4, <1>5, <1>7, <1>8 DEF TimerInv

-----------------------------------------------------------------------------
(* The scan of the table. *)
Due == {s \in Active(eventtab2) : s >= Top.i /\ eventtab2[s].evtime = currcycle}
Upto == IF Due = {} THEN ev2_max ELSE Min(Due)
Seen == {s \in Active(eventtab2) : s >= Top.i /\ s < Upto}
Mintime == Min({Top.mintime, Earliest(Seen)})

LEMMA ScanFinds ==
  ASSUME IInv, InMisc, Top.at = "scan"
  PROVE  /\ Upto \in 0 .. ev2_max /\ Mintime \in Times /\ currcycle < Mintime
         /\ Due # {} => Upto \in Due
         /\ \A s \in Active(eventtab2) : s < Upto =>
              /\ currcycle < eventtab2[s].evtime
              /\ Top.recheck \/ Mintime <= eventtab2[s].evtime
<1> USE DEF IInv
<1>1. /\ Top \in MiscFrames /\ ScanInv(Top) /\ Top.i \in Nat /\ Top.mintime \in Times
  BY MiscTop, Constants DEF MiscFrames
<1>2. \A s \in Active(eventtab2) :
        /\ s \in Slots /\ s \in Nat /\ s < ev2_max /\ eventtab2[s].evtime \in Nat
        /\ currcycle <= eventtab2[s].evtime
        /\ s < Top.i => /\ currcycle < eventtab2[s].evtime
                        /\ Top.recheck \/ Top.mintime <= eventtab2[s].evtime
  <2>1. \A s \in Active(eventtab2) : s \in Slots /\ eventtab2[s] \in Events
    BY DEF Active, Types
  <2>2. \A s \in Slots : s \in Nat /\ s < ev2_max
    BY Constants DEF Slots
  <2>3. \A e \in Events : e.evtime \in Nat
    BY Constants DEF Events, Times
  <2>4. \A s \in Active(eventtab2) : s < Top.i =>
          /\ currcycle < eventtab2[s].evtime
          /\ Top.recheck \/ Top.mintime <= eventtab2[s].evtime
    BY <1>1 DEF ScanInv
  <2> QED
    BY <2>1, <2>2, <2>3, <2>4 DEF TimesInv
<1>3. Due # {} => Upto \in Due /\ \A s \in Due : Upto <= s
  <2>1. Due \subseteq Slots
    BY <1>2 DEF Due
  <2>2. IsFiniteSet(Slots) /\ Slots \subseteq Int
    BY Constants, FS_Interval DEF Slots
  <2>3. IsFiniteSet(Due) /\ Due \subseteq Int
    BY <2>1, <2>2, FS_Subset
  <2>4. ASSUME Due # {} PROVE Min(Due) \in Due /\ \A s \in Due : Min(Due) <= s
    BY <2>3, <2>4, MinIsLeast
  <2> QED
    BY <2>4 DEF Upto
<1>4. Upto \in 0 .. ev2_max
  <2>1. CASE Due = {}
    BY <2>1, Constants DEF Upto
  <2>2. CASE Due # {}
    <3>1. Upto \in Active(eventtab2)
      BY <1>3, <2>2 DEF Due
    <3> QED
      BY <1>2, <3>1, Constants
  <2> QED
    BY <2>1, <2>2
<1>5. \A s \in Active(eventtab2) : s >= Top.i /\ s < Upto =>
        currcycle < eventtab2[s].evtime /\ s \in Seen
  <2> SUFFICES ASSUME NEW s \in Active(eventtab2), s >= Top.i, s < Upto
               PROVE  currcycle < eventtab2[s].evtime /\ s \in Seen
    OBVIOUS
  <2>1. s \in Nat /\ eventtab2[s].evtime \in Nat /\ currcycle <= eventtab2[s].evtime /\ Upto \in Nat
    BY <1>2, <1>4, Constants
  <2>2. s \notin Due
    <3>1. ASSUME s \in Due PROVE FALSE
      <4>1. Upto <= s
        BY <1>3, <3>1
      <4> QED
        BY <2>1, <4>1
    <3> QED
      BY <3>1
  <2>3. eventtab2[s].evtime # currcycle
    BY <2>2 DEF Due
  <2> QED
    BY <2>1, <2>3, Constants DEF Types, Seen
<1>6. /\ Earliest(Seen) \in Times /\ \A s \in Seen : Earliest(Seen) <= eventtab2[s].evtime
      /\ Earliest(Seen) = Never \/ \E s \in Seen : Earliest(Seen) = eventtab2[s].evtime
  <2>1. Seen \subseteq Slots
    BY <1>2 DEF Seen
  <2> QED
    BY <2>1, EarliestIsLeast
<1>7. currcycle < Earliest(Seen)
  <2>1. currcycle < Never
    BY Constants DEF Types
  <2>2. \A s \in Seen : currcycle < eventtab2[s].evtime
    BY <1>5 DEF Seen
  <2> QED
    BY <1>6, <2>1, <2>2
<1>8. Mintime \in {Top.mintime, Earliest(Seen)} /\ Mintime <= Top.mintime /\ Mintime <= Earliest(Seen)
  <2> DEFINE M == {Top.mintime, Earliest(Seen)}
  <2>1. IsFiniteSet(Times) /\ Times \subseteq Int /\ M \subseteq Times /\ M # {}
    BY <1>1, <1>6, Constants, FS_Interval DEF Times
  <2>2. IsFiniteSet(M) /\ M \subseteq Int
    BY <2>1, FS_Subset
  <2>3. Min(M) \in M /\ \A j \in M : Min(M) <= j
    BY <2>1, <2>2, MinIsLeast
  <2> QED
    BY <2>1, <2>3 DEF Mintime
<1>9. Mintime \in Times /\ currcycle < Mintime
  BY <1>1, <1>6, <1>7, <1>8 DEF ScanInv
<1>10. ASSUME NEW s \in Active(eventtab2), s < Upto
       PROVE  /\ currcycle < eventtab2[s].evtime
              /\ Top.recheck \/ Mintime <= eventtab2[s].evtime
  <2>1. Mintime \in Nat /\ Top.mintime \in Nat /\ Earliest(Seen) \in Nat /\ eventtab2[s].evtime \in Nat
        /\ s \in Nat /\ Top.i \in Nat
    BY <1>1, <1>2, <1>6, <1>9, Constants DEF Times
  <2>2. CASE s < Top.i
    BY <1>2, <1>8, <2>1, <2>2
  <2>3. CASE s >= Top.i
    BY <1>5, <1>6, <1>8, <1>10, <2>1, <2>3
  <2> QED
    BY <2>1, <2>2, <2>3
<1> QED
  BY <1>3, <1>4, <1>9, <1>10

LEMMA ScanKeeps == ASSUME IInv, Scan PROVE IInv'
<1> USE DEF IInv
<1>1. /\ InMisc /\ Top.at = "scan" /\ UNCHANGED <<currcycle, last_event2, next, dorecheck, ids, clears>>
      /\ Top \in MiscFrames
  BY MiscTop DEF Scan
<1>2. IF Due # {} THEN
        /\ Execute(Upto, eventtab2,
                   Append(Below, [Top EXCEPT !.i = Upto, !.at = "first", !.mintime = Mintime,
                                             !.id = eventtab2[Upto].id]), "due")
        /\ UNCHANGED ev_misc
      ELSE
        /\ stack' = IF Top.recheck THEN Append(Below, Scanning) ELSE Below
        /\ ev_misc' = IF Top.recheck \/ Mintime = Never THEN ev_misc
                      ELSE [active |-> TRUE, evtime |-> Mintime]
        /\ UNCHANGED <<eventtab2, ran>>
  BY DEF Scan, Due, Upto, Seen, Mintime
<1>3. /\ Upto \in 0 .. ev2_max /\ Mintime \in Times /\ currcycle < Mintime
      /\ Due # {} => Upto \in Due
      /\ \A s \in Active(eventtab2) : s < Upto =>
           /\ currcycle < eventtab2[s].evtime
           /\ Top.recheck \/ Mintime <= eventtab2[s].evtime
  BY <1>1, ScanFinds
<1>4. CASE Due # {}
  <2>1. Upto \in Slots /\ Upto < ev2_max
    <3>1. Upto \in Slots
      BY <1>3, <1>4 DEF Due, Active
    <3> QED
      BY <3>1, Constants DEF Slots
  <2>2. PICK f \in MiscFrames :
          /\ f = [Top EXCEPT !.i = Upto, !.at = "first", !.mintime = Mintime, !.id = eventtab2[Upto].id]
          /\ f.at = "first" /\ f.i = Upto /\ f.mintime = Mintime /\ f.recheck = Top.recheck
    <3> DEFINE g == [Top EXCEPT !.i = Upto, !.at = "first", !.mintime = Mintime, !.id = eventtab2[Upto].id]
    <3>1. eventtab2[Upto].id \in 0 .. MaxEvents
      BY <2>1 DEF Types, Events
    <3>2. /\ g \in MiscFrames /\ g.at = "first" /\ g.i = Upto /\ g.mintime = Mintime
          /\ g.recheck = Top.recheck
      BY <1>1, <1>3, <3>1 DEF MiscFrames
    <3> QED
      BY <3>2
  <2>3. /\ eventtab2' \in [Slots -> Events] /\ ~ eventtab2'[Upto].active
        /\ stack' = Append(Append(Below, f), Handler)
        /\ \A r \in Slots : eventtab2'[r].active =>
             eventtab2[r].active /\ eventtab2'[r].evtime = eventtab2[r].evtime
    <3>1. Execute(Upto, eventtab2, Append(Below, f), "due")
      BY <1>2, <1>4, <2>2
    <3>2. eventtab2 \in [Slots -> Events]
      BY DEF Types
    <3> QED
      BY <2>1, <3>1, <3>2, FewerActive
  <2>4. ScanInv(f)'
    <3>1. f.i = Upto /\ f.mintime = Mintime /\ f.recheck = Top.recheck
      BY <2>2
    <3>2. \A s \in Slots : eventtab2'[s].active =>
            s # Upto /\ s \in Active(eventtab2) /\ eventtab2'[s].evtime = eventtab2[s].evtime
      BY <2>3 DEF Active
    <3> QED
      BY <1>1, <1>3, <3>1, <3>2 DEF ScanInv, Active
  <2>5. dorecheck' \in BOOLEAN /\ UNCHANGED ev_misc
    BY <1>1, <1>2, <1>4 DEF Types
  <2> QED
    BY <1>1, <2>1, <2>2, <2>3, <2>4, <2>5, MiscKeeps
<1>5. CASE Due = {} /\ Top.recheck
  <2>1. stack' = Append(Below, Scanning) /\ UNCHANGED <<ev_misc, eventtab2>>
    BY <1>2, <1>5
  <2>2. ScanInv(Scanning)'
    <3>1. currcycle < Never /\ \A s \in Slots : ~ (s < 0)
      BY Constants DEF Types, Slots
    <3> QED
      BY <1>1, <3>1, NewFramesAre DEF ScanInv, Active
  <2>3. dorecheck' \in BOOLEAN /\ eventtab2' \in [Slots -> Events]
    BY <1>1, <2>1 DEF Types
  <2> QED
    BY <1>1, <2>1, <2>2, <2>3, NewFramesAre, MiscKeeps
<1>6. CASE Due = {} /\ ~ Top.recheck
  <2>1. /\ stack' = Below /\ UNCHANGED eventtab2
        /\ ev_misc' = IF Mintime = Never THEN ev_misc ELSE [active |-> TRUE, evtime |-> Mintime]
    BY <1>2, <1>6
  <2>2. \A s \in Active(eventtab2) : currcycle < eventtab2[s].evtime /\ Mintime <= eventtab2[s].evtime
    <3>1. Upto = ev2_max
      BY <1>6 DEF Upto
    <3>2. \A s \in Active(eventtab2) : s < ev2_max
      BY Constants DEF Active, Slots
    <3> QED
      BY <1>3, <1>6, <3>1, <3>2
  <2>3. \A s \in Active(eventtab2) : eventtab2[s].evtime < Never
    <3> SUFFICES ASSUME NEW s \in Active(eventtab2) PROVE eventtab2[s].evtime < Never
      OBVIOUS
    <3>1. ids > 0 /\ eventtab2[s].evtime <= currcycle + Max(Delays) + 1
      BY DEF TimesInv
    <3>2. ids <= MaxEvents
      <4>1. Cardinality(News(stack)) \in Nat /\ ids + Cardinality(News(stack)) <= MaxEvents /\ ids \in Nat
        BY NewFramesAre, NewsPushed DEF Types
      <4> QED
        BY <4>1, Constants
    <3>3. eventtab2[s].evtime \in Nat
      <4>1. eventtab2[s] \in Events
        BY DEF Types, Active
      <4> QED
        BY <4>1, Constants DEF Events, Times
    <3> QED
      BY <3>1, <3>2, <3>3, Constants DEF Types
  <2>4. Mintime \in Nat /\ \A s \in Active(eventtab2) : eventtab2[s].evtime \in Nat
    <3>1. \A s \in Active(eventtab2) : eventtab2[s] \in Events
      BY DEF Types, Active
    <3> QED
      BY <1>3, <3>1, Constants DEF Events, Times
  <2>5. Mintime = Never => Active(eventtab2) = {}
    BY <2>2, <2>3, <2>4, Constants
  <2>6. stack # <<>> /\ Below \in Seq(Frames) /\ ~ Recursive(Below) /\ ~ ev_misc.active
    BY <1>1, MiscTop
  <2>7. \A k \in DOMAIN Below : k \in DOMAIN stack /\ Below[k] = stack[k]
    BY <2>6, TopAndBelow
  <2>8. Cardinality(News(Below)) \in Nat /\ Cardinality(News(stack)) = Cardinality(News(Below))
    <3>1. Top.in = "misc" /\ Top \in Frames /\ stack = Append(Below, Top)
      BY <1>1, <2>6, TopAndBelow DEF InMisc
    <3>2. Cardinality(News(Append(Below, Top))) = Cardinality(News(Below)) + 0
      BY <2>6, <3>1, NewsPushed
    <3> QED
      BY <2>6, <3>1, <3>2, NewFramesAre, NewsPushed
  <2>9. ev_misc' \in [active : BOOLEAN, evtime : Times]
    BY <1>3, <2>1 DEF Types
  <2>10. Types'
    <3>1. News(stack') = News(Below)
      BY <2>1
    <3>2. ids' + Cardinality(News(stack')) <= MaxEvents
      BY <1>1, <2>8, <3>1 DEF Types
    <3> QED
      BY <1>1, <2>1, <2>6, <2>9, <3>2 DEF Types
  <2>11. \A k \in DOMAIN stack' : stack'[k].in # "misc"
    BY <2>1, <2>6 DEF Recursive
  <2>12. StackInv' /\ MiscInv'
    <3>1. \A k \in DOMAIN stack' : stack'[k].in = "new" =>
            currcycle < stack'[k].et /\ stack'[k].et <= currcycle + Max(Delays)
      BY <2>1, <2>7 DEF StackInv
    <3> QED
      BY <1>1, <2>11, <3>1 DEF StackInv, MiscInv
  <2>13. TimesInv'
    BY <1>1, <2>1 DEF TimesInv, Active
  <2>14. TimerInv'
    <3>1. ~ Recursive(stack')
      BY <2>1, <2>6
    <3>2. Active(eventtab2)' = Active(eventtab2)
      BY <2>1 DEF Active
    <3>3. CASE Mintime = Never
      BY <1>1, <2>1, <2>5, <2>6, <3>1, <3>2, <3>3 DEF TimerInv
    <3>4. CASE Mintime # Never
      <4>1. ev_misc'.active /\ ev_misc'.evtime = Mintime
        BY <2>1, <3>4
      <4> QED
        BY <1>1, <1>3, <2>1, <2>2, <3>1, <3>2, <4>1 DEF TimerInv
    <3> QED
      BY <3>3, <3>4
  <2> QED
    BY <2>10, <2>12, <2>13, <2>14
<1> QED
  BY <1>4, <1>5, <1>6

-----------------------------------------------------------------------------
(* MISC_handler goes on to the next slot: what it does not know of this    *)
(* one makes it look at all of them again.                                 *)
LEMMA NextSlotKnows ==
  ASSUME IInv, InMisc, Top.at # "scan"
  PROVE  /\ NextSlot \in MiscFrames /\ NextSlot.at = "scan" /\ currcycle < NextSlot.mintime
         /\ \A s \in Active(eventtab2) :
              /\ s < NextSlot.i => currcycle < eventtab2[s].evtime
              /\ s < NextSlot.i => NextSlot.recheck \/ NextSlot.mintime <= eventtab2[s].evtime
<1> USE DEF IInv
<1>1. Top \in MiscFrames /\ ScanInv(Top) /\ Top.i < ev2_max
  BY MiscTop
<1>2. Top.i \in Slots /\ Top.i \in Nat /\ Top.i + 1 \in 0 .. ev2_max
  BY <1>1, Constants DEF MiscFrames, Slots
<1>3. eventtab2[Top.i].active \in BOOLEAN
  BY <1>2 DEF Types, Events
<1> DEFINE r == Top.recheck \/ dorecheck \/ eventtab2[Top.i].active
<1>4. r \in BOOLEAN
  BY <1>1, <1>3 DEF Types, MiscFrames
<1>5. NextSlot = [Top EXCEPT !.i = Top.i + 1, !.at = "scan", !.id = 0, !.recheck = r]
  BY DEF NextSlot
<1>6. r <=> Top.recheck \/ dorecheck \/ eventtab2[Top.i].active
  OBVIOUS
<1> HIDE DEF r
<1>7. /\ NextSlot \in MiscFrames /\ NextSlot.i = Top.i + 1 /\ NextSlot.at = "scan"
      /\ NextSlot.mintime = Top.mintime /\ NextSlot.recheck = r
  <2>1. 0 \in 0 .. MaxEvents
    BY Constants
  <2>2. [Top EXCEPT !.id = 0] \in MiscFrames /\ [Top EXCEPT !.id = 0].mintime = Top.mintime
    BY <1>1, <2>1 DEF MiscFrames
  <2>3. NextSlot = [[Top EXCEPT !.id = 0] EXCEPT !.i = Top.i + 1, !.at = "scan", !.recheck = r]
    BY <1>1, <1>5 DEF MiscFrames
  <2> QED
    BY <1>2, <1>4, <2>2, <2>3 DEF MiscFrames
<1>8. \A s \in Active(eventtab2) : s < Top.i + 1 => s < Top.i \/ s = Top.i
  BY <1>2, Constants DEF Active, Slots
<1>9. \A s \in Active(eventtab2) :
        /\ s < Top.i + 1 => currcycle < eventtab2[s].evtime
        /\ s < Top.i + 1 => r \/ Top.mintime <= eventtab2[s].evtime
  <2> SUFFICES ASSUME NEW s \in Active(eventtab2), s < Top.i \/ s = Top.i
               PROVE  currcycle < eventtab2[s].evtime /\ (r \/ Top.mintime <= eventtab2[s].evtime)
    BY <1>8
  <2>1. currcycle < eventtab2[s].evtime
    BY <1>1 DEF ScanInv
  <2>2. s < Top.i => Top.recheck \/ dorecheck \/ Top.mintime <= eventtab2[s].evtime
    BY <1>1 DEF ScanInv
  <2>3. s = Top.i => eventtab2[Top.i].active
    BY DEF Active
  <2> QED
    BY <1>6, <2>1, <2>2, <2>3
<1> QED
  BY <1>1, <1>7, <1>9 DEF ScanInv

LEMMA AfterSecondKeeps == ASSUME IInv, AfterSecond PROVE IInv'
<1> USE DEF IInv
<1>1. /\ InMisc /\ Top.at # "scan" /\ stack' = Append(Below, NextSlot) /\ dorecheck' = FALSE
      /\ UNCHANGED <<currcycle, eventtab2, ev_misc, last_event2, next, ids, clears>>
  BY DEF AfterSecond
<1>2. PICK f \in MiscFrames : f = NextSlot
  BY <1>1, NextSlotKnows
<1>3. /\ f.at = "scan" /\ currcycle < f.mintime
      /\ \A s \in Active(eventtab2) :
           /\ s < f.i => currcycle < eventtab2[s].evtime
           /\ s < f.i => f.recheck \/ f.mintime <= eventtab2[s].evtime
  BY <1>1, <1>2, NextSlotKnows
<1>4. ScanInv(f)'
  BY <1>1, <1>3 DEF ScanInv, Active
<1>5. eventtab2' \in [Slots -> Events] /\ dorecheck' \in BOOLEAN /\ stack' = Append(Below, f)
  BY <1>1, <1>2 DEF Types
<1> QED
  BY <1>1, <1>3, <1>4, <1>5, MiscKeeps

LEMMA AfterFirstKeeps == ASSUME IInv, AfterFirst PROVE IInv'
<1> USE DEF IInv
<1>1. /\ InMisc /\ Top.at = "first"
      /\ UNCHANGED <<currcycle, ev_misc, last_event2, next, ids, clears>>
      /\ Top \in MiscFrames /\ ScanInv(Top) /\ Top.i < ev2_max /\ Top.i \in Slots
  <2>1. InMisc /\ Top.at = "first" /\ UNCHANGED <<currcycle, ev_misc, last_event2, next, ids, clears>>
    BY DEF AfterFirst
  <2>2. Top \in MiscFrames /\ ScanInv(Top) /\ Top.i < ev2_max
    BY <2>1, MiscTop
  <2> QED
    BY <2>1, <2>2, Constants DEF MiscFrames, Slots
<1> DEFINE c == [eventtab2[Top.i] EXCEPT !.next = NoSlot]
           tab == [eventtab2 EXCEPT ![Top.i] = c]
<1>2. /\ tab \in [Slots -> Events]
      /\ \A r \in Slots : tab[r].active = eventtab2[r].active /\ tab[r].evtime = eventtab2[r].evtime
  <2>1. eventtab2[Top.i] \in Events
    BY <1>1 DEF Types
  <2>2. c \in Events /\ c.active = eventtab2[Top.i].active /\ c.evtime = eventtab2[Top.i].evtime
    BY <2>1 DEF Events
  <2> HIDE DEF c
  <2> QED
    BY <1>1, <2>2 DEF Types
<1>3. CASE Chained(Top.i)
  <2>1. /\ Execute(eventtab2[Top.i].next, tab, Append(Below, [Top EXCEPT !.at = "second"]), LinkOf(Top.i))
        /\ UNCHANGED dorecheck
    BY <1>3 DEF AfterFirst
  <2>2. eventtab2[Top.i].next \in Slots
    <3>1. eventtab2[Top.i].next # NoSlot
      BY <1>3 DEF Chained
    <3> QED
      BY <1>1, <3>1 DEF Types, Events
  <2>3. PICK f \in MiscFrames :
          /\ f = [Top EXCEPT !.at = "second"] /\ f.at = "second" /\ f.i = Top.i
          /\ f.mintime = Top.mintime /\ f.recheck = Top.recheck
    <3> DEFINE g == [Top EXCEPT !.at = "second"]
    <3>1. /\ g \in MiscFrames /\ g.at = "second" /\ g.i = Top.i /\ g.mintime = Top.mintime
          /\ g.recheck = Top.recheck
      BY <1>1 DEF MiscFrames
    <3> QED
      BY <3>1
  <2> HIDE DEF tab
  <2>4. /\ eventtab2' \in [Slots -> Events] /\ stack' = Append(Append(Below, f), Handler)
        /\ \A r \in Slots : eventtab2'[r].active =>
             eventtab2[r].active /\ eventtab2'[r].evtime = eventtab2[r].evtime
    <3>1. PICK s \in Slots : s = eventtab2[Top.i].next
      BY <2>2
    <3>2. Execute(s, tab, Append(Below, f), LinkOf(Top.i))
      BY <2>1, <2>3, <3>1
    <3>3. /\ eventtab2' \in [Slots -> Events] /\ stack' = Append(Append(Below, f), Handler)
          /\ \A r \in Slots : eventtab2'[r].active =>
               eventtab2[r].active /\ eventtab2'[r].evtime = eventtab2[r].evtime
      BY <1>2, <3>2, FewerActive
    <3> QED
      BY <3>3
  <2>5. ScanInv(f)'
    <3>1. ScanInv(f)
      BY <1>1, <2>3 DEF ScanInv
    <3> QED
      BY <1>1, <2>1, <2>3, <2>4, <3>1 DEF ScanInv, Active
  <2>6. dorecheck' \in BOOLEAN /\ f.i < ev2_max
    BY <1>1, <2>1, <2>3 DEF Types
  <2> QED
    BY <1>1, <2>3, <2>4, <2>5, <2>6, MiscKeeps
<1>4. CASE ~ Chained(Top.i)
  <2>1. eventtab2' = tab /\ stack' = Append(Below, NextSlot) /\ dorecheck' = FALSE
    BY <1>4 DEF AfterFirst
  <2> HIDE DEF tab
  <2>2. PICK f \in MiscFrames : f = NextSlot
    BY <1>1, NextSlotKnows
  <2>3. /\ f.at = "scan" /\ currcycle < f.mintime
        /\ \A s \in Active(eventtab2) :
             /\ s < f.i => currcycle < eventtab2[s].evtime
             /\ s < f.i => f.recheck \/ f.mintime <= eventtab2[s].evtime
    BY <1>1, <2>2, NextSlotKnows
  <2>4. ScanInv(f)'
    BY <1>1, <1>2, <2>1, <2>3 DEF ScanInv, Active
  <2>5. dorecheck' \in BOOLEAN /\ stack' = Append(Below, f)
    BY <2>1, <2>2
  <2> QED
    BY <1>1, <1>2, <2>1, <2>3, <2>4, <2>5, MiscKeeps
<1> QED
  BY <1>3, <1>4

-----------------------------------------------------------------------------
(* The CPU's step ends at the timer's time at the latest. *)
LEMMA NextUnit ==
  ASSUME NEW c \in Nat
  PROVE  LET n == (c \div CYCLE_UNIT + 1) * CYCLE_UNIT IN n \in Nat /\ c < n /\ n <= c + CYCLE_UNIT
<1> DEFINE q == c \div CYCLE_UNIT
           r == c % CYCLE_UNIT
<1>1. q \in Nat /\ r \in Nat /\ r < CYCLE_UNIT /\ c = q * CYCLE_UNIT + r
  BY Constants
<1> HIDE DEF q, r
<1>2. (q + 1) * CYCLE_UNIT = q * CYCLE_UNIT + CYCLE_UNIT /\ q * CYCLE_UNIT \in Nat
  BY <1>1, Constants
<1>3. (q + 1) * CYCLE_UNIT \in Nat /\ c < (q + 1) * CYCLE_UNIT /\ (q + 1) * CYCLE_UNIT <= c + CYCLE_UNIT
  BY <1>1, <1>2, Constants
<1> QED
  BY <1>3 DEF q

LEMMA TickAdvances ==
  ASSUME IInv, Tick
  PROVE  /\ currcycle' \in Nat /\ currcycle < currcycle' /\ currcycle' < Horizon + CYCLE_UNIT
         /\ ev_misc.active => currcycle' <= ev_misc.evtime
<1> USE DEF IInv
<1> DEFINE n == (currcycle \div CYCLE_UNIT + 1) * CYCLE_UNIT
           T == {n} \cup {e.evtime : e \in {x \in {ev_misc} : x.active}}
<1>1. stack = <<>> /\ currcycle < Horizon /\ currcycle' = Min(T) /\ currcycle \in Nat
  BY DEF Tick, Types
<1>2. n \in Nat /\ currcycle < n /\ n <= currcycle + CYCLE_UNIT
  BY <1>1, NextUnit
<1>3. ev_misc.evtime \in Nat /\ ev_misc.active \in BOOLEAN
  BY Constants DEF Types, Times
<1>4. ev_misc.active => currcycle < ev_misc.evtime
  <2>1. ~ Recursive(stack)
    BY <1>1 DEF Recursive
  <2> QED
    BY <2>1 DEF TimerInv
<1> HIDE DEF n
<1>5. CASE ev_misc.active
  <2>1. T = {n, ev_misc.evtime}
    BY <1>5
  <2>2. IsFiniteSet(T)
    <3>1. IsFiniteSet({n} \cup {ev_misc.evtime})
      BY FS_Singleton, FS_AddElement
    <3> QED
      BY <2>1, <3>1
  <2>3. T \subseteq Int /\ T # {}
    BY <1>2, <1>3, <2>1
  <2> HIDE DEF T
  <2>4. Min(T) \in T /\ \A j \in T : Min(T) <= j
    BY <2>2, <2>3, MinIsLeast
  <2>5. currcycle' \in {n, ev_misc.evtime} /\ currcycle' <= n /\ currcycle' <= ev_misc.evtime
    BY <1>1, <2>1, <2>4
  <2> QED
    BY <1>1, <1>2, <1>3, <1>4, <1>5, <2>5, Constants
<1>6. CASE ~ ev_misc.active
  <2>1. T = {n}
    BY <1>6
  <2>2. IsFiniteSet(T) /\ T \subseteq Int /\ T # {}
    <3>1. IsFiniteSet({n})
      BY FS_Singleton
    <3>2. {n} \subseteq Int /\ {n} # {}
      BY <1>2
    <3> HIDE DEF T
    <3> QED
      BY <2>1, <3>1, <3>2
  <2> HIDE DEF T
  <2>3. Min(T) \in T
    BY <2>2, MinIsLeast
  <2>4. currcycle' = n
    BY <1>1, <2>1, <2>3
  <2> QED
    BY <1>1, <1>2, <1>6, <2>4, Constants
<1> QED
  BY <1>5, <1>6

LEMMA TickKeeps == ASSUME IInv, Tick PROVE IInv'
<1> USE DEF IInv
<1>1. /\ stack = <<>> /\ UNCHANGED <<eventtab2, last_event2, next, ids, clears>>
      /\ IF ev_misc.active /\ ev_misc.evtime = currcycle'
           THEN CallMisc(stack) ELSE UNCHANGED <<ev_misc, dorecheck, stack>>
  BY DEF Tick
<1>2. /\ currcycle' \in Nat /\ currcycle < currcycle' /\ currcycle' < Horizon + CYCLE_UNIT
      /\ ev_misc.active => currcycle' <= ev_misc.evtime
  BY TickAdvances
<1>3. ~ Recursive(stack) /\ DOMAIN stack = {}
  BY <1>1 DEF Recursive
<1>4. \A s \in Active(eventtab2) :
        /\ ev_misc.active /\ ev_misc.evtime <= eventtab2[s].evtime
        /\ eventtab2[s].evtime \in Nat /\ currcycle' <= eventtab2[s].evtime
        /\ ids > 0 /\ eventtab2[s].evtime <= currcycle + Max(Delays) + 1
  <2> SUFFICES ASSUME NEW s \in Active(eventtab2)
               PROVE  /\ ev_misc.active /\ ev_misc.evtime <= eventtab2[s].evtime
                      /\ eventtab2[s].evtime \in Nat /\ currcycle' <= eventtab2[s].evtime
                      /\ ids > 0 /\ eventtab2[s].evtime <= currcycle + Max(Delays) + 1
    OBVIOUS
  <2>1. ev_misc.active /\ ev_misc.evtime <= eventtab2[s].evtime
    BY <1>3 DEF TimerInv
  <2>2. eventtab2[s].evtime \in Nat
    <3>1. eventtab2[s] \in Events
      BY DEF Types, Active
    <3> QED
      BY <3>1, Constants DEF Events, Times
  <2>3. ev_misc.evtime \in Nat
    BY Constants DEF Types, Times
  <2> QED
    BY <1>2, <2>1, <2>2, <2>3 DEF TimesInv
<1>5. TimesInv'
  <2>1. Active(eventtab2)' = Active(eventtab2) /\ eventtab2' = eventtab2 /\ ids' = ids
    BY <1>1 DEF Active
  <2>2. currcycle \in Nat /\ currcycle' \in Nat /\ currcycle < currcycle' /\ Max(Delays) \in Nat
    BY <1>2, Constants DEF Types
  <2>3. ASSUME NEW s \in Active(eventtab2)
        PROVE  /\ ids > 0 /\ currcycle' <= eventtab2[s].evtime
               /\ eventtab2[s].evtime <= currcycle' + Max(Delays) + 1
    BY <1>4, <2>2, <2>3
  <2> QED
    BY <2>1, <2>3 DEF TimesInv
<1>6. CASE ev_misc.active /\ ev_misc.evtime = currcycle'
  <2>1. /\ ev_misc' = [ev_misc EXCEPT !.active = FALSE] /\ stack' = Append(stack, Scanning)
        /\ UNCHANGED dorecheck
    BY <1>1, <1>3, <1>6 DEF CallMisc
  <2>2. stack' = <<Scanning>>
    BY <1>1, <2>1
  <2>3. /\ stack' \in Seq(Frames) /\ DOMAIN stack' = {1} /\ stack'[1] = Scanning /\ Len(stack') = 1
    BY <2>2, NewFramesAre
  <2>4. ids' + Cardinality(News(stack')) <= MaxEvents
    <3>1. stack \in Seq(Frames)
      BY DEF Types
    <3>2. Cardinality(News(stack')) = Cardinality(News(stack)) + 0 /\ Cardinality(News(stack)) \in Nat
      BY <2>1, <3>1, NewFramesAre, NewsPushed
    <3> QED
      BY <1>1, <3>2, Constants DEF Types
  <2>5. ev_misc' \in [active : BOOLEAN, evtime : Times] /\ ~ ev_misc'.active
    BY <2>1 DEF Types
  <2>6. Types'
    BY <1>1, <1>2, <2>1, <2>3, <2>4, <2>5 DEF Types
  <2>7. StackInv' /\ TimerInv'
    BY <2>3, <2>5, NewFramesAre DEF StackInv, TimerInv, Recursive
  <2>8. MiscInv'
    <3> SUFFICES ASSUME NEW k \in DOMAIN stack' PROVE ScanInv(stack[k])'
      BY DEF MiscInv
    <3>1. stack'[k] = Scanning
      BY <2>3
    <3>2. currcycle' < Never /\ \A s \in Slots : ~ (s < 0)
      BY <1>2, Constants DEF Slots
    <3> QED
      BY <1>1, <3>1, <3>2, NewFramesAre DEF ScanInv, Active
  <2> QED
    BY <1>5, <2>6, <2>7, <2>8
<1>7. CASE ~ (ev_misc.active /\ ev_misc.evtime = currcycle')
  <2>1. UNCHANGED <<ev_misc, dorecheck, stack>>
    BY <1>1, <1>7
  <2>2. Types'
    BY <1>1, <1>2, <2>1 DEF Types
  <2>3. StackInv' /\ MiscInv'
    BY <1>3, <2>1 DEF StackInv, MiscInv
  <2>4. TimerInv'
    <3>1. ev_misc.evtime \in Nat
      BY Constants DEF Types, Times
    <3>2. ev_misc.active => currcycle' < ev_misc.evtime
      BY <1>2, <1>7, <3>1
    <3>3. \A s \in Active(eventtab2) : currcycle' < eventtab2[s].evtime
      BY <1>2, <1>4, <3>1, <3>2
    <3> QED
      BY <1>1, <1>3, <1>4, <2>1, <3>2, <3>3 DEF TimerInv, Active
  <2> QED
    BY <1>5, <2>2, <2>3, <2>4
<1> QED
  BY <1>6, <1>7

-----------------------------------------------------------------------------
LEMMA Initially == ASSUME Init PROVE IInv
<1>1. \A s \in Slots : eventtab2[s] = Empty /\ ~ eventtab2[s].active
  BY DEF Init, Empty
<1>2. Empty \in Events
  BY Constants DEF Empty, Events, Times
<1>3. DOMAIN stack = {} /\ stack \in Seq(Frames) /\ ~ Recursive(stack)
  BY DEF Init, Recursive
<1>4. ids + Cardinality(News(stack)) <= MaxEvents
  <2>1. News(stack) = {}
    BY <1>3 DEF News
  <2>2. Cardinality(News(stack)) = 0
    BY <2>1, FS_EmptySet
  <2> QED
    BY <2>2, Constants DEF Init
<1>5. Types
  <2>1. eventtab2 \in [Slots -> Events]
    BY <1>2 DEF Init
  <2>2. ev_misc \in [active : BOOLEAN, evtime : Times]
    BY Constants DEF Init, Times
  <2>3. currcycle \in Nat /\ currcycle < Horizon + CYCLE_UNIT /\ ids = 0 /\ clears \in 0 .. MaxClears
    BY Constants DEF Init
  <2>4. last_event2 = NoSlot /\ next \in General /\ dorecheck \in BOOLEAN
    BY Constants DEF Init
  <2> QED
    BY <1>3, <1>4, <2>1, <2>2, <2>3, <2>4 DEF Types
<1>6. StackInv /\ TimesInv /\ TimerInv /\ MiscInv
  BY <1>1, <1>3 DEF Init, StackInv, TimesInv, TimerInv, MiscInv, Active
<1> QED
  BY <1>5, <1>6 DEF IInv

LEMMA Inductive == ASSUME IInv, [Next]_vars PROVE IInv'
<1>1. CASE \/ \E t \in Delays : \/ \E kind \in Kinds : NewEvent(t, kind)
                                \/ \E no \in Slots \ General : NewEventAt(no, t)
           \/ SearchAgain
  <2>1. Installs \/ Overflows
    BY <1>1, ScheduleSteps DEF IInv
  <2> QED
    BY <2>1, InstallsKeep, OverflowsKeep
<1>2. CASE HandlerReturns
  BY <1>2, HandlerReturnsKeeps
<1>3. CASE \E kind \in Removable : RemoveEvents(kind)
  BY <1>3, RemoveEventsKeeps
<1>4. CASE Scan
  BY <1>4, ScanKeeps
<1>5. CASE AfterFirst
  BY <1>5, AfterFirstKeeps
<1>6. CASE AfterSecond
  BY <1>6, AfterSecondKeeps
<1>7. CASE Tick
  BY <1>7, TickKeeps
<1>8. CASE Clear
  BY <1>8, ClearKeeps
<1>9. CASE UNCHANGED vars
  BY <1>9 DEF vars, IInv, Types, StackInv, TimesInv, TimerInv, MiscInv, ScanInv, Active
<1> QED
  BY <1>1, <1>2, <1>3, <1>4, <1>5, <1>6, <1>7, <1>8, <1>9 DEF Next

(* At every moment the timer, the pending scan or the handler that runs    *)
(* knows of every event in the table: the inductive invariant.             *)
THEOREM EventInvariant == Spec => []IInv
<1>1. Init => IInv
  BY Initially
<1>2. IInv /\ [Next]_vars => IInv'
  BY Inductive
<1> QED
  BY <1>1, <1>2, PTL DEF Spec

(* The variables and the C stack keep their types, and MISC_handler is     *)
(* never entered twice, however deep handlers and full tables nest.        *)
THEOREM TypeCorrect == Spec => []TypeOK
<1>1. IInv => TypeOK
  <2> SUFFICES ASSUME IInv PROVE TypeOK
    OBVIOUS
  <2> USE DEF IInv
  <2> DEFINE M == {k \in DOMAIN stack : stack[k].in = "misc"}
  <2>1. Cardinality(M) <= 1
    <3>1. CASE M = {}
      <4>1. Cardinality(M) = 0
        BY <3>1, FS_EmptySet
      <4> QED
        BY <4>1
    <3>2. CASE M # {}
      <4>1. PICK k \in M : TRUE
        BY <3>2
      <4>2. M = {k}
        BY <4>1 DEF StackInv
      <4>3. Cardinality({k}) = 1
        BY FS_Singleton
      <4> QED
        BY <4>2, <4>3
    <3> QED
      BY <3>1, <3>2
  <2>2. ids \in 0 .. MaxEvents
    <3>1. Cardinality(News(stack)) \in Nat
      BY NewFramesAre, NewsPushed DEF Types
    <3> QED
      BY <3>1, Constants DEF Types
  <2>3. currcycle \in 0 .. Horizon + CYCLE_UNIT
    BY Constants DEF Types
  <2> QED
    BY <2>1, <2>2, <2>3 DEF TypeOK, Types, Events
<1> QED
  BY <1>1, EventInvariant, PTL

(* Nothing is ever missed: whenever the CPU runs, the timer is set for the *)
(* first event of the table, and no event is overdue.                      *)
THEOREM NoneMissedAlways == Spec => []NoneMissed
<1>1. IInv => NoneMissed
  <2> SUFFICES ASSUME IInv, stack = <<>>, NEW s \in Active(eventtab2)
               PROVE  /\ currcycle < eventtab2[s].evtime
                      /\ ev_misc.active /\ currcycle < ev_misc.evtime
                      /\ ev_misc.evtime <= eventtab2[s].evtime
    BY DEF NoneMissed
  <2>1. ~ Recursive(stack)
    BY DEF Recursive
  <2> QED
    BY <2>1 DEF IInv, TimerInv
<1> QED
  BY <1>1, EventInvariant, PTL

-----------------------------------------------------------------------------
(* No two events are the same one. *)
IdInv ==
  /\ \A s \in Slots : /\ eventtab2[s].id <= ids /\ eventtab2[s].after <= ids
                      /\ eventtab2[s].active => eventtab2[s].id > eventtab2[s].after
  /\ ids > 0 => eventtab2[last_event2].id = ids
  /\ \A r, s \in Slots : eventtab2[r].id = eventtab2[s].id /\ eventtab2[s].id > 0 => r = s

(* Chaining moves an event by one unit, however many wait for its time.    *)
AskedInv ==
  \A s \in Active(eventtab2) :
    eventtab2[s].asked <= eventtab2[s].evtime /\ eventtab2[s].evtime <= eventtab2[s].asked + 1

(* An event that was put behind one that still waits is chained to it.     *)
LinkInv ==
  \A p, s \in Active(eventtab2) :
    eventtab2[s].after > 0 /\ eventtab2[p].id = eventtab2[s].after =>
      eventtab2[p].next = s /\ eventtab2[s].evtime = eventtab2[p].evtime + 1

(* The slot of the event that MISC_handler found due is free, and has the  *)
(* time it had, until another event takes it.                              *)
FirstInv ==
  \A k \in DOMAIN stack : stack[k].in = "misc" /\ stack[k].at = "first" =>
    /\ 0 < stack[k].id /\ stack[k].id <= ids
    /\ eventtab2[stack[k].i].id = stack[k].id =>
         ~ eventtab2[stack[k].i].active /\ eventtab2[stack[k].i].evtime = currcycle

RanInv == ran.after \in 0 .. ids /\ OnTime /\ FirstByOwnLink

OrderInv == IdInv /\ AskedInv /\ LinkInv /\ FirstInv /\ RanInv

-----------------------------------------------------------------------------
(* Steps that put nothing into the table.  A link is dropped only when it  *)
(* leads to no event of the next unit.                                     *)
Fewer ==
  /\ UNCHANGED <<ids, last_event2>>
  /\ \A s \in Slots :
       /\ eventtab2'[s].id = eventtab2[s].id /\ eventtab2'[s].asked = eventtab2[s].asked
       /\ eventtab2'[s].after = eventtab2[s].after /\ eventtab2'[s].evtime = eventtab2[s].evtime
       /\ eventtab2'[s].active => eventtab2[s].active
Linked(p, s) == eventtab2[p].next = s /\ eventtab2[s].evtime = eventtab2[p].evtime + 1
KeepsLinks ==
  \A p, s \in Slots : eventtab2'[s].active /\ Linked(p, s) => eventtab2'[p].next = s
Runs(s, by) ==
  /\ s \in Active(eventtab2) /\ Fewer /\ KeepsLinks /\ ~ eventtab2'[s].active
  /\ ran' = [id |-> eventtab2[s].id, asked |-> eventtab2[s].asked, after |-> eventtab2[s].after,
             at |-> currcycle, by |-> by]

RunsDue      == \E s \in Slots : Runs(s, "due") /\ eventtab2[s].evtime = currcycle
RunsOverflow == \E s \in Slots : Runs(s, "overflow") /\ First(s)
RunsSecond   ==
  /\ InMisc /\ Top.at = "first" /\ Top.i \in Slots /\ Chained(Top.i)
  /\ \E s \in Slots : Runs(s, LinkOf(Top.i)) /\ s = eventtab2[Top.i].next

LEMMA SlotTypes ==
  ASSUME Types, NEW s \in Slots
  PROVE  /\ eventtab2[s] \in Events /\ eventtab2[s].active \in BOOLEAN
         /\ eventtab2[s].evtime \in Nat /\ eventtab2[s].asked \in Nat
         /\ eventtab2[s].id \in Nat /\ eventtab2[s].after \in Nat
<1>1. eventtab2[s] \in Events
  BY DEF Types
<1> QED
  BY <1>1, Constants DEF Events, Times

LEMMA ExecuteRuns ==
  ASSUME Types, NEW s \in Active(eventtab2), NEW st, NEW by, UNCHANGED <<ids, last_event2>>,
         Execute(s, eventtab2, st, by)
  PROVE  Runs(s, by)
<1>1. s \in Slots /\ eventtab2 \in [Slots -> Events]
  BY DEF Active, Types
<1> DEFINE e == [eventtab2[s] EXCEPT !.active = FALSE]
<1>2. /\ e.id = eventtab2[s].id /\ e.asked = eventtab2[s].asked /\ e.after = eventtab2[s].after
      /\ e.evtime = eventtab2[s].evtime /\ ~ e.active /\ e.next = eventtab2[s].next
  BY <1>1, SlotTypes DEF Events
<1>3. eventtab2' = [eventtab2 EXCEPT ![s] = e]
  BY DEF Execute
<1> HIDE DEF e
<1>4. \A r \in Slots : eventtab2'[r] = IF r = s THEN e ELSE eventtab2[r]
  BY <1>1, <1>3
<1>5. Fewer
  BY <1>1, <1>2, <1>4 DEF Fewer
<1>6. KeepsLinks
  BY <1>1, <1>2, <1>4 DEF KeepsLinks, Linked
<1>7. ~ eventtab2'[s].active
  BY <1>1, <1>2, <1>4
<1>8. ran' = [id |-> eventtab2[s].id, asked |-> eventtab2[s].asked, after |-> eventtab2[s].after,
              at |-> currcycle, by |-> by]
  BY DEF Execute
<1> QED
  BY <1>5, <1>6, <1>7, <1>8 DEF Runs

Quiet == Fewer /\ KeepsLinks /\ ran' = ran

LEMMA SameIsQuiet == ASSUME UNCHANGED <<eventtab2, ids, last_event2, ran>> PROVE Quiet
BY DEF Quiet, Fewer, KeepsLinks, Linked

LEMMA DeactivatesIsQuiet ==
  ASSUME Types, NEW S,
         eventtab2' = [s \in Slots |-> IF s \in S THEN [eventtab2[s] EXCEPT !.active = FALSE]
                                        ELSE eventtab2[s]],
         UNCHANGED <<ids, last_event2, ran>>
  PROVE  Quiet
<1> DEFINE e(s) == [eventtab2[s] EXCEPT !.active = FALSE]
<1>1. \A s \in Slots :
        /\ e(s).id = eventtab2[s].id /\ e(s).asked = eventtab2[s].asked /\ e(s).after = eventtab2[s].after
        /\ e(s).evtime = eventtab2[s].evtime /\ ~ e(s).active /\ e(s).next = eventtab2[s].next
  BY SlotTypes DEF Events
<1> HIDE DEF e
<1>2. \A s \in Slots : eventtab2'[s] = e(s) \/ eventtab2'[s] = eventtab2[s]
  BY DEF e
<1>3. Fewer
  BY <1>1, <1>2 DEF Fewer
<1>4. KeepsLinks
  BY <1>1, <1>2 DEF KeepsLinks, Linked
<1> QED
  BY <1>3, <1>4 DEF Quiet

LEMMA ScanRuns == ASSUME IInv, Scan PROVE RunsDue \/ Quiet
<1> USE DEF IInv
<1>1. InMisc /\ Top.at = "scan" /\ UNCHANGED <<ids, last_event2>>
  BY DEF Scan
<1>2. CASE Due # {}
  <2>1. PICK st : Execute(Upto, eventtab2, st, "due")
    BY <1>2 DEF Scan, Due, Upto, Seen
  <2>2. Upto \in Due
    BY <1>1, <1>2, ScanFinds
  <2>3. Upto \in Active(eventtab2) /\ eventtab2[Upto].evtime = currcycle /\ Upto \in Slots
    BY <2>2 DEF Due, Active
  <2>4. Runs(Upto, "due")
    BY <1>1, <2>1, <2>3, ExecuteRuns
  <2> QED
    BY <2>3, <2>4 DEF RunsDue
<1>3. CASE Due = {}
  <2>1. UNCHANGED <<eventtab2, ids, last_event2, ran>>
    BY <1>1, <1>3 DEF Scan, Due
  <2> QED
    BY <2>1, SameIsQuiet
<1> QED
  BY <1>2, <1>3

LEMMA AfterFirstRuns == ASSUME IInv, AfterFirst PROVE RunsSecond \/ Quiet
<1> USE DEF IInv
<1>1. InMisc /\ Top.at = "first" /\ UNCHANGED <<ids, last_event2>> /\ Top.i \in Slots
  <2>1. InMisc /\ Top.at = "first" /\ UNCHANGED <<ids, last_event2>>
    BY DEF AfterFirst
  <2>2. Top \in MiscFrames /\ Top.i < ev2_max
    BY <2>1, MiscTop
  <2> QED
    BY <2>1, <2>2, Constants DEF MiscFrames, Slots
<1> DEFINE c == [eventtab2[Top.i] EXCEPT !.next = NoSlot]
           tab == [eventtab2 EXCEPT ![Top.i] = c]
<1>2. /\ c.id = eventtab2[Top.i].id /\ c.asked = eventtab2[Top.i].asked
      /\ c.after = eventtab2[Top.i].after /\ c.evtime = eventtab2[Top.i].evtime
      /\ c.active = eventtab2[Top.i].active /\ c \in Events
  BY <1>1, SlotTypes DEF Events
<1>3. tab = [eventtab2 EXCEPT ![Top.i].next = NoSlot]
  OBVIOUS
<1> HIDE DEF c
<1>4. /\ tab \in [Slots -> Events]
      /\ \A r \in Slots :
           /\ tab[r].id = eventtab2[r].id /\ tab[r].asked = eventtab2[r].asked
           /\ tab[r].after = eventtab2[r].after /\ tab[r].evtime = eventtab2[r].evtime
           /\ tab[r].active = eventtab2[r].active
           /\ r # Top.i => tab[r].next = eventtab2[r].next
  BY <1>1, <1>2 DEF Types
<1> HIDE DEF tab
<1>5. CASE Chained(Top.i)
  <2>1. PICK s \in Slots : s = eventtab2[Top.i].next /\ s \in Active(eventtab2)
    <3>1. eventtab2[Top.i].next # NoSlot /\ eventtab2[eventtab2[Top.i].next].active
      BY <1>5 DEF Chained
    <3>2. eventtab2[Top.i].next \in Slots \cup {NoSlot}
      BY <1>1, SlotTypes DEF Events
    <3> QED
      BY <3>1, <3>2 DEF Active
  <2>2. PICK st : Execute(s, tab, st, LinkOf(Top.i))
    BY <1>3, <1>5, <2>1 DEF AfterFirst
  <2> DEFINE e == [tab[s] EXCEPT !.active = FALSE]
  <2>3. /\ e.id = tab[s].id /\ e.asked = tab[s].asked /\ e.after = tab[s].after
        /\ e.evtime = tab[s].evtime /\ ~ e.active /\ e.next = tab[s].next
    BY <1>4 DEF Events
  <2>4. eventtab2' = [tab EXCEPT ![s] = e]
    BY <2>2 DEF Execute
  <2> HIDE DEF e
  <2>5. \A r \in Slots : eventtab2'[r] = IF r = s THEN e ELSE tab[r]
    BY <1>4, <2>4
  <2>6. /\ Fewer /\ ~ eventtab2'[s].active
        /\ \A r \in Slots : r # Top.i => eventtab2'[r].next = eventtab2[r].next
    BY <1>1, <1>4, <2>1, <2>3, <2>5 DEF Fewer, Active
  <2>7. KeepsLinks
    BY <2>1, <2>6 DEF KeepsLinks, Linked
  <2>8. ran' = [id |-> eventtab2[s].id, asked |-> eventtab2[s].asked, after |-> eventtab2[s].after,
                at |-> currcycle, by |-> LinkOf(Top.i)]
    BY <1>4, <2>2 DEF Execute
  <2>9. Runs(s, LinkOf(Top.i))
    BY <2>1, <2>6, <2>7, <2>8 DEF Runs
  <2> QED
    BY <1>1, <1>5, <2>1, <2>9 DEF RunsSecond
<1>6. CASE ~ Chained(Top.i)
  <2>1. eventtab2' = tab /\ ran' = ran
    BY <1>3, <1>6 DEF AfterFirst
  <2>2. Fewer
    BY <1>1, <1>4, <2>1 DEF Fewer
  <2>3. \A s \in Slots : ~ (eventtab2'[s].active /\ Linked(Top.i, s))
    <3>1. \A s \in Slots : eventtab2'[s].active => eventtab2[s].active /\ s # NoSlot
      BY <2>2, Constants DEF Fewer
    <3> QED
      BY <1>6, <3>1 DEF Chained, Linked
  <2>4. KeepsLinks
    BY <1>4, <2>1, <2>3 DEF KeepsLinks, Linked
  <2> QED
    BY <2>1, <2>2, <2>4 DEF Quiet
<1> QED
  BY <1>5, <1>6

LEMMA StepKinds ==
  ASSUME IInv, [Next]_vars
  PROVE  Installs \/ RunsDue \/ RunsOverflow \/ RunsSecond \/ Quiet
<1> USE DEF IInv
<1>1. CASE \/ \E t \in Delays : \/ \E kind \in Kinds : NewEvent(t, kind)
                                \/ \E no \in Slots \ General : NewEventAt(no, t)
           \/ SearchAgain
  <2>1. Installs \/ Overflows
    BY <1>1, ScheduleSteps
  <2>2. ASSUME Overflows PROVE RunsOverflow
    <3>1. PICK s \in Slots : /\ First(s) /\ UNCHANGED <<ids, last_event2>>
                             /\ \E st : Execute(s, eventtab2, st, "overflow")
      BY <2>2 DEF Overflows
    <3>2. Runs(s, "overflow")
      BY <3>1, ExecuteRuns DEF First
    <3> QED
      BY <3>1, <3>2 DEF RunsOverflow
  <2> QED
    BY <2>1, <2>2
<1>2. CASE HandlerReturns \/ AfterSecond \/ Tick \/ UNCHANGED vars
  <2>1. UNCHANGED <<eventtab2, ids, last_event2, ran>>
    BY <1>2 DEF HandlerReturns, AfterSecond, Tick, vars
  <2> QED
    BY <2>1, SameIsQuiet
<1>3. CASE \E kind \in Removable : RemoveEvents(kind)
  <2>1. PICK kind \in Removable : RemoveEvents(kind)
    BY <1>3
  <2> DEFINE S == {s \in Slots : eventtab2[s].kind = kind}
  <2>2. eventtab2' = [s \in Slots |-> IF s \in S THEN [eventtab2[s] EXCEPT !.active = FALSE]
                                       ELSE eventtab2[s]]
    BY <2>1 DEF RemoveEvents
  <2>3. UNCHANGED <<ids, last_event2, ran>>
    BY <2>1 DEF RemoveEvents
  <2> HIDE DEF S
  <2> QED
    BY <2>2, <2>3, DeactivatesIsQuiet
<1>4. CASE Clear
  <2>1. eventtab2' = [s \in Slots |-> IF s \in Slots THEN [eventtab2[s] EXCEPT !.active = FALSE]
                                       ELSE eventtab2[s]]
    BY <1>4 DEF Clear
  <2>2. UNCHANGED <<ids, last_event2, ran>>
    BY <1>4 DEF Clear
  <2> QED
    BY <2>1, <2>2, DeactivatesIsQuiet
<1>5. CASE Scan
  BY <1>5, ScanRuns
<1>6. CASE AfterFirst
  BY <1>6, AfterFirstRuns
<1> QED
  BY <1>1, <1>2, <1>3, <1>4, <1>5, <1>6 DEF Next

(* What a new event's slot holds, and what the others keep. *)
LEMMA SlotsAfterInstall ==
  ASSUME Types, NEW no \in Slots, NEW et, NEW kind, NEW st, Install(no, et, kind, st)
  PROVE  /\ ids' = ids + 1 /\ last_event2' = no /\ ran' = ran
         /\ eventtab2'[no].active /\ eventtab2'[no].id = ids + 1 /\ eventtab2'[no].asked = et
         /\ eventtab2'[no].after = Previous(et)
         /\ eventtab2'[no].evtime = IF Chains(no, et) THEN et + 1 ELSE et
         /\ \A s \in Slots \ {no} :
              /\ eventtab2'[s].active = eventtab2[s].active /\ eventtab2'[s].id = eventtab2[s].id
              /\ eventtab2'[s].asked = eventtab2[s].asked /\ eventtab2'[s].after = eventtab2[s].after
              /\ eventtab2'[s].evtime = eventtab2[s].evtime
              /\ eventtab2'[s].next = IF Chains(no, et) /\ s = last_event2 THEN no ELSE eventtab2[s].next
<1> DEFINE e == [active |-> TRUE, evtime |-> IF Chains(no, et) THEN et + 1 ELSE et, kind |-> kind,
                 next |-> eventtab2[no].next, id |-> ids', asked |-> et, after |-> Previous(et)]
           c(s) == [eventtab2[s] EXCEPT !.next = no]
<1>1. /\ ids' = ids + 1 /\ last_event2' = no /\ ran' = ran
      /\ eventtab2' = [s \in Slots |-> IF s = no THEN e
                                       ELSE IF Chains(no, et) /\ s = last_event2 THEN c(s) ELSE eventtab2[s]]
  BY DEF Install
<1>2. /\ e.active /\ e.id = ids' /\ e.asked = et /\ e.after = Previous(et)
      /\ e.evtime = IF Chains(no, et) THEN et + 1 ELSE et
  OBVIOUS
<1>3. \A s \in Slots :
        /\ c(s).active = eventtab2[s].active /\ c(s).id = eventtab2[s].id
        /\ c(s).asked = eventtab2[s].asked /\ c(s).after = eventtab2[s].after
        /\ c(s).evtime = eventtab2[s].evtime /\ c(s).next = no
  BY SlotTypes DEF Events
<1> HIDE DEF e, c
<1>4. eventtab2'[no] = e
  BY <1>1
<1>5. \A s \in Slots \ {no} : eventtab2'[s] = IF Chains(no, et) /\ s = last_event2 THEN c(s) ELSE eventtab2[s]
  BY <1>1
<1> QED
  BY <1>1, <1>2, <1>3, <1>4, <1>5

(* An event is put behind the one that was scheduled last, if that waits   *)
(* for the same time; it is then chained to it, unless it takes its slot.  *)
LEMMA PreviousIs ==
  ASSUME Types, IdInv, NEW no \in Slots, NEW et \in Nat, Previous(et) > 0
  PROVE  /\ last_event2 \in Active(eventtab2) /\ eventtab2[last_event2].id = Previous(et)
         /\ eventtab2[last_event2].evtime = et /\ Previous(et) <= ids
         /\ last_event2 # no => Chains(no, et)
<1>1. /\ ids > 0 /\ eventtab2[last_event2].active /\ eventtab2[last_event2].evtime = et
      /\ Previous(et) = eventtab2[last_event2].id
  <2>1. ~ (0 > 0)
    OBVIOUS
  <2> QED
    BY <2>1 DEF Previous
<1>2. last_event2 \in Slots /\ last_event2 # NoSlot
  BY <1>1 DEF Types
<1> QED
  BY <1>1, <1>2 DEF IdInv, Chains, Active

LEMMA InstallOrders == ASSUME IInv, OrderInv, Installs PROVE IdInv' /\ AskedInv' /\ LinkInv' /\ RanInv'
<1> USE DEF IInv
<1>0. PICK no \in Slots, et \in Times, kind \in Kinds \cup {Owner} : \E st : Install(no, et, kind, st)
  BY DEF Installs
<1>1. PICK st : Install(no, et, kind, st)
  BY <1>0
<1>2. et \in Nat /\ ids \in Nat /\ \A s \in Slots : eventtab2[s].id \in Nat /\ eventtab2[s].after \in Nat
                /\ eventtab2[s].evtime \in Nat /\ eventtab2[s].asked \in Nat
  BY SlotTypes, Constants DEF Times, Types
<1>3. /\ ids' = ids + 1 /\ last_event2' = no /\ ran' = ran
      /\ eventtab2'[no].active /\ eventtab2'[no].id = ids + 1 /\ eventtab2'[no].asked = et
      /\ eventtab2'[no].after = Previous(et)
      /\ eventtab2'[no].evtime = IF Chains(no, et) THEN et + 1 ELSE et
      /\ \A s \in Slots \ {no} :
           /\ eventtab2'[s].active = eventtab2[s].active /\ eventtab2'[s].id = eventtab2[s].id
           /\ eventtab2'[s].asked = eventtab2[s].asked /\ eventtab2'[s].after = eventtab2[s].after
           /\ eventtab2'[s].evtime = eventtab2[s].evtime
           /\ eventtab2'[s].next = IF Chains(no, et) /\ s = last_event2 THEN no ELSE eventtab2[s].next
  BY <1>1, SlotsAfterInstall
<1>4. Previous(et) \in Nat /\ Previous(et) <= ids
  <2>1. CASE ids > 0 /\ eventtab2[last_event2].active /\ eventtab2[last_event2].evtime = et
    <3>1. last_event2 \in Slots /\ Previous(et) = eventtab2[last_event2].id
      BY <2>1 DEF Previous, Types
    <3> QED
      BY <1>2, <3>1 DEF OrderInv, IdInv
  <2>2. CASE ~ (ids > 0 /\ eventtab2[last_event2].active /\ eventtab2[last_event2].evtime = et)
    <3>1. Previous(et) = 0
      BY <2>2 DEF Previous
    <3> QED
      BY <1>2, <3>1
  <2> QED
    BY <2>1, <2>2
<1>5. IdInv'
  <2>1. ASSUME NEW s \in Slots
        PROVE  /\ eventtab2'[s].id <= ids' /\ eventtab2'[s].after <= ids'
               /\ eventtab2'[s].active => eventtab2'[s].id > eventtab2'[s].after
    <3>1. CASE s = no
      BY <1>2, <1>3, <1>4, <3>1
    <3>2. CASE s # no
      BY <1>2, <1>3, <3>2 DEF OrderInv, IdInv
    <3> QED
      BY <3>1, <3>2
  <2>2. ASSUME NEW r \in Slots, NEW s \in Slots, eventtab2'[r].id = eventtab2'[s].id, eventtab2'[s].id > 0
        PROVE  r = s
    <3>1. \A x \in Slots \ {no} : eventtab2'[x].id = eventtab2[x].id /\ eventtab2[x].id <= ids
      BY <1>3 DEF OrderInv, IdInv
    <3>2. \A x \in Slots \ {no} : eventtab2'[x].id # ids + 1
      BY <1>2, <3>1
    <3>3. CASE r = no \/ s = no
      BY <1>3, <2>2, <3>2, <3>3
    <3>4. CASE r # no /\ s # no
      BY <2>2, <3>1, <3>4 DEF OrderInv, IdInv
    <3> QED
      BY <3>3, <3>4
  <2>3. eventtab2'[last_event2'].id = ids'
    BY <1>3
  <2> QED
    BY <2>1, <2>2, <2>3 DEF IdInv
<1>6. AskedInv'
  <2> SUFFICES ASSUME NEW s \in Slots, eventtab2'[s].active
               PROVE  eventtab2'[s].asked <= eventtab2'[s].evtime /\ eventtab2'[s].evtime <= eventtab2'[s].asked + 1
    BY DEF AskedInv, Active
  <2>1. CASE s = no
    <3>1. eventtab2'[no].evtime \in {et, et + 1}
      BY <1>3
    <3> QED
      BY <1>2, <1>3, <2>1, <3>1
  <2>2. CASE s # no
    BY <1>3, <2>2 DEF OrderInv, AskedInv, Active
  <2> QED
    BY <2>1, <2>2
<1>7. LinkInv'
  <2> SUFFICES ASSUME NEW p \in Slots, NEW s \in Slots, eventtab2'[p].active, eventtab2'[s].active,
                      eventtab2'[s].after > 0, eventtab2'[p].id = eventtab2'[s].after
               PROVE  eventtab2'[p].next = s /\ eventtab2'[s].evtime = eventtab2'[p].evtime + 1
    BY DEF LinkInv, Active
  <2>1. p # no
    <3>1. eventtab2'[s].after <= ids
      <4>1. CASE s = no
        BY <1>3, <1>4, <4>1
      <4>2. CASE s # no
        BY <1>3, <4>2 DEF OrderInv, IdInv
      <4> QED
        BY <4>1, <4>2
    <3>2. eventtab2'[p].id # ids + 1
      BY <1>2, <1>4, <3>1
    <3> QED
      BY <1>3, <3>2
  <2>2. /\ eventtab2'[p].id = eventtab2[p].id /\ eventtab2[p].active
        /\ eventtab2'[p].evtime = eventtab2[p].evtime
        /\ eventtab2'[p].next = IF Chains(no, et) /\ p = last_event2 THEN no ELSE eventtab2[p].next
    BY <1>3, <2>1
  <2>3. CASE s = no
    <3>1. Previous(et) > 0 /\ eventtab2[p].id = Previous(et)
      BY <1>3, <2>2, <2>3
    <3>2. /\ last_event2 \in Slots /\ eventtab2[last_event2].id = Previous(et)
          /\ eventtab2[last_event2].evtime = et /\ (last_event2 # no => Chains(no, et))
      BY <1>2, <3>1, PreviousIs DEF OrderInv, Active
    <3>3. p = last_event2
      BY <3>1, <3>2 DEF OrderInv, IdInv
    <3>4. Chains(no, et)
      BY <2>1, <3>2, <3>3
    <3> QED
      BY <1>3, <2>2, <2>3, <3>2, <3>3, <3>4
  <2>4. CASE s # no
    <3>1. /\ eventtab2[s].active /\ eventtab2[s].after > 0 /\ eventtab2[p].id = eventtab2[s].after
          /\ eventtab2'[s].evtime = eventtab2[s].evtime
      BY <1>3, <2>2, <2>4
    <3>2. eventtab2[p].next = s /\ eventtab2[s].evtime = eventtab2[p].evtime + 1
      BY <2>2, <3>1 DEF OrderInv, LinkInv, Active
    <3>3. p # last_event2
      <4>1. eventtab2[s].id <= ids /\ eventtab2[s].id > eventtab2[s].after
        BY <3>1 DEF OrderInv, IdInv
      <4>2. ids > 0 => eventtab2[last_event2].id = ids
        BY DEF OrderInv, IdInv
      <4> QED
        BY <1>2, <3>1, <4>1, <4>2
    <3> QED
      BY <2>2, <3>1, <3>2, <3>3
  <2> QED
    BY <2>3, <2>4
<1>8. RanInv'
  <2>1. ran.after \in 0 .. ids'
    BY <1>2, <1>3 DEF OrderInv, RanInv
  <2>2. OnTime'
    BY <1>3 DEF OrderInv, RanInv, OnTime
  <2>3. ASSUME PreviousFirst PROVE PreviousFirst'
    <3>1. ran.after # ids + 1
      BY <1>2 DEF OrderInv, RanInv
    <3> QED
      BY <1>3, <2>3, <3>1 DEF PreviousFirst, Active
  <2> QED
    BY <1>3, <2>1, <2>2, <2>3 DEF OrderInv, RanInv, FirstByOwnLink
<1> QED
  BY <1>5, <1>6, <1>7, <1>8

(* A step that puts nothing into the table leaves what waits in order. *)
LEMMA FewerOrders ==
  ASSUME Types, IdInv, AskedInv, LinkInv, Fewer, KeepsLinks PROVE IdInv' /\ AskedInv' /\ LinkInv'
<1>1. /\ ids' = ids /\ last_event2' = last_event2
      /\ \A s \in Slots :
           /\ eventtab2'[s].id = eventtab2[s].id /\ eventtab2'[s].asked = eventtab2[s].asked
           /\ eventtab2'[s].after = eventtab2[s].after /\ eventtab2'[s].evtime = eventtab2[s].evtime
           /\ eventtab2'[s].active => eventtab2[s].active
  BY DEF Fewer
<1>2. IdInv'
  <2>1. ids > 0 => last_event2 \in Slots
    BY DEF Types
  <2> QED
    BY <1>1, <2>1 DEF IdInv
<1>3. AskedInv'
  BY <1>1 DEF AskedInv, Active
<1>4. LinkInv'
  <2> SUFFICES ASSUME NEW p \in Slots, NEW s \in Slots, eventtab2'[p].active, eventtab2'[s].active,
                      eventtab2'[s].after > 0, eventtab2'[p].id = eventtab2'[s].after
               PROVE  eventtab2'[p].next = s /\ eventtab2'[s].evtime = eventtab2'[p].evtime + 1
    BY DEF LinkInv, Active
  <2>1. eventtab2[p].next = s /\ eventtab2[s].evtime = eventtab2[p].evtime + 1
    BY <1>1 DEF LinkInv, Active
  <2> QED
    BY <1>1, <2>1 DEF KeepsLinks, Linked
<1> QED
  BY <1>2, <1>3, <1>4

LEMMA QuietOrders == ASSUME IInv, OrderInv, Quiet PROVE IdInv' /\ AskedInv' /\ LinkInv' /\ RanInv'
<1> USE DEF IInv
<1>1. IdInv' /\ AskedInv' /\ LinkInv'
  BY FewerOrders DEF OrderInv, Quiet
<1>2. Fewer /\ ran' = ran
  BY DEF Quiet
<1>3. (OnTime => OnTime') /\ (PreviousFirst => PreviousFirst')
  BY <1>2 DEF OnTime, PreviousFirst, Fewer, Active
<1>4. RanInv'
  BY <1>2, <1>3 DEF OrderInv, RanInv, Fewer, FirstByOwnLink
<1> QED
  BY <1>1, <1>4

(* The event that runs is on time when its time is now or the next unit,   *)
(* and in order when none that waits is the one it was put behind.         *)
LEMMA RunsInOrder ==
  ASSUME IInv, OrderInv, NEW s \in Slots, NEW by, Runs(s, by)
  PROVE  /\ s \in Active(eventtab2) /\ ran'.by = by /\ ran'.after \in 0 .. ids'
         /\ eventtab2[s].evtime \in {currcycle, currcycle + 1} => OnTime'
         /\ (\A p \in Active(eventtab2) : p # s =>
               ~ (eventtab2[s].after > 0 /\ eventtab2[p].id = eventtab2[s].after)) => PreviousFirst'
<1> USE DEF IInv
<1>1. /\ s \in Active(eventtab2) /\ Fewer /\ ~ eventtab2'[s].active
      /\ ran'.by = by /\ ran'.at = currcycle /\ ran'.asked = eventtab2[s].asked
      /\ ran'.after = eventtab2[s].after
  BY DEF Runs
<1>2. /\ eventtab2[s].after \in Nat /\ eventtab2[s].asked \in Nat /\ eventtab2[s].evtime \in Nat
      /\ ids \in Nat /\ currcycle \in Nat
  BY SlotTypes DEF Types
<1>3. ran'.after \in 0 .. ids'
  BY <1>1, <1>2 DEF OrderInv, IdInv, Fewer
<1>4. ASSUME eventtab2[s].evtime \in {currcycle, currcycle + 1} PROVE OnTime'
  <2>1. eventtab2[s].asked <= eventtab2[s].evtime /\ eventtab2[s].evtime <= eventtab2[s].asked + 1
    BY <1>1 DEF OrderInv, AskedInv
  <2>2. currcycle \in eventtab2[s].asked - 1 .. eventtab2[s].asked + 1
    BY <1>2, <1>4, <2>1
  <2> QED
    BY <1>1, <2>2 DEF OnTime
<1>5. ASSUME \A p \in Active(eventtab2) : p # s =>
               ~ (eventtab2[s].after > 0 /\ eventtab2[p].id = eventtab2[s].after)
      PROVE  PreviousFirst'
  <2>1. \A p \in Slots : eventtab2'[p].active =>
          p # s /\ p \in Active(eventtab2) /\ eventtab2'[p].id = eventtab2[p].id
    BY <1>1 DEF Fewer, Active
  <2> QED
    BY <1>1, <1>5, <2>1 DEF PreviousFirst, Active
<1> QED
  BY <1>1, <1>3, <1>4, <1>5

(* An event that is due, or the first of a full table: the one it was put  *)
(* behind would be a unit earlier. *)
LEMMA NonePrevious ==
  ASSUME IInv, OrderInv, NEW s \in Active(eventtab2),
         eventtab2[s].evtime = currcycle \/ First(s), NEW p \in Active(eventtab2)
  PROVE  ~ (eventtab2[s].after > 0 /\ eventtab2[p].id = eventtab2[s].after)
<1> USE DEF IInv
<1> SUFFICES ASSUME eventtab2[s].after > 0, eventtab2[p].id = eventtab2[s].after PROVE FALSE
  OBVIOUS
<1>1. eventtab2[s].evtime = eventtab2[p].evtime + 1
  BY DEF OrderInv, LinkInv
<1>2. s \in Slots /\ p \in Slots
  BY DEF Active
<1>3. eventtab2[s].evtime \in Nat /\ eventtab2[p].evtime \in Nat /\ currcycle \in Nat
  BY <1>2, SlotTypes DEF Types
<1>4. currcycle <= eventtab2[p].evtime
  BY DEF TimesInv
<1>5. CASE eventtab2[s].evtime = currcycle
  BY <1>1, <1>3, <1>4, <1>5
<1>6. CASE First(s)
  <2>1. eventtab2[s].evtime <= eventtab2[p].evtime
    BY <1>6 DEF First
  <2> QED
    BY <1>1, <1>3, <2>1
<1> QED
  BY <1>5, <1>6

(* The event that a link leads to, when the slot it was read from has no   *)
(* new event: its time is the unit after now, and if the link was its own,  *)
(* the event it was put behind is the one that has just run.               *)
LEMMA SecondInOrder ==
  ASSUME IInv, OrderInv, InMisc, Top.at = "first", Top.i \in Slots, Chained(Top.i),
         NEW s \in Slots, s = eventtab2[Top.i].next, LinkOf(Top.i) # "reused"
  PROVE  /\ eventtab2[s].evtime = currcycle + 1
         /\ LinkOf(Top.i) = "chained" =>
              \A p \in Active(eventtab2) : eventtab2[p].id # eventtab2[s].after
<1> USE DEF IInv
<1>1. stack # <<>> /\ Top.in = "misc"
  BY DEF InMisc
<1>2. Top = stack[Len(stack)] /\ Len(stack) \in DOMAIN stack
  BY <1>1, TopAndBelow
<1>3. eventtab2[Top.i].id = Top.id
  BY DEF LinkOf
<1>4. 0 < Top.id /\ ~ eventtab2[Top.i].active /\ eventtab2[Top.i].evtime = currcycle
  BY <1>1, <1>2, <1>3 DEF OrderInv, FirstInv
<1>5. eventtab2[s].evtime = currcycle + 1
  BY <1>4 DEF Chained
<1>6. ASSUME LinkOf(Top.i) = "chained", NEW p \in Active(eventtab2), eventtab2[p].id = eventtab2[s].after
      PROVE  FALSE
  <2>1. eventtab2[s].after = Top.id
    BY <1>3, <1>6 DEF LinkOf
  <2>2. p \in Slots /\ eventtab2[p].active
    BY DEF Active
  <2>3. eventtab2[p].id = eventtab2[Top.i].id /\ eventtab2[Top.i].id > 0
    BY <1>3, <1>4, <1>6, <2>1, SlotTypes
  <2>4. p = Top.i
    BY <2>2, <2>3 DEF OrderInv, IdInv
  <2> QED
    BY <1>4, <2>2, <2>4
<1> QED
  BY <1>5, <1>6

LEMMA RunsOrders ==
  ASSUME IInv, OrderInv, RunsDue \/ RunsOverflow \/ RunsSecond
  PROVE  IdInv' /\ AskedInv' /\ LinkInv' /\ RanInv'
<1> USE DEF IInv
<1>1. ASSUME NEW s \in Slots, NEW by, Runs(s, by)
      PROVE  IdInv' /\ AskedInv' /\ LinkInv' /\ ran'.after \in 0 .. ids' /\ ran'.by = by
  <2>1. Fewer /\ KeepsLinks /\ Types
    BY <1>1 DEF Runs
  <2>2. IdInv' /\ AskedInv' /\ LinkInv'
    BY <2>1, FewerOrders DEF OrderInv
  <2> QED
    BY <1>1, <2>2, RunsInOrder
<1>2. CASE RunsDue
  <2>1. PICK s \in Slots : Runs(s, "due") /\ eventtab2[s].evtime = currcycle
    BY <1>2 DEF RunsDue
  <2>2. s \in Active(eventtab2)
    BY <2>1, RunsInOrder
  <2>3. OnTime' /\ PreviousFirst'
    BY <2>1, <2>2, RunsInOrder, NonePrevious
  <2> QED
    BY <1>1, <2>1, <2>3 DEF RanInv, FirstByOwnLink
<1>3. CASE RunsOverflow
  <2>1. PICK s \in Slots : Runs(s, "overflow") /\ First(s)
    BY <1>3 DEF RunsOverflow
  <2>2. s \in Active(eventtab2) /\ ran'.by = "overflow"
    BY <2>1, RunsInOrder
  <2>3. OnTime' /\ PreviousFirst'
    BY <2>1, <2>2, RunsInOrder, NonePrevious DEF OnTime
  <2> QED
    BY <1>1, <2>1, <2>3 DEF RanInv, FirstByOwnLink
<1>4. CASE RunsSecond
  <2>1. /\ InMisc /\ Top.at = "first" /\ Top.i \in Slots /\ Chained(Top.i)
        /\ \E s \in Slots : Runs(s, LinkOf(Top.i)) /\ s = eventtab2[Top.i].next
    BY <1>4 DEF RunsSecond
  <2>2. PICK s \in Slots : Runs(s, LinkOf(Top.i)) /\ s = eventtab2[Top.i].next
    BY <2>1
  <2>3. ran'.by = LinkOf(Top.i) /\ LinkOf(Top.i) \in {"reused", "stray", "chained"}
    BY <1>1, <2>2 DEF LinkOf
  <2>4. OnTime'
    <3>1. CASE LinkOf(Top.i) = "reused"
      BY <2>3, <3>1 DEF OnTime
    <3>2. CASE LinkOf(Top.i) # "reused"
      <4>1. eventtab2[s].evtime = currcycle + 1
        BY <2>1, <2>2, <3>2, SecondInOrder
      <4> QED
        BY <2>2, <4>1, RunsInOrder
    <3> QED
      BY <3>1, <3>2
  <2>5. FirstByOwnLink'
    <3>1. CASE LinkOf(Top.i) # "chained"
      BY <2>3, <3>1 DEF FirstByOwnLink
    <3>2. CASE LinkOf(Top.i) = "chained"
      <4>1. \A p \in Active(eventtab2) : eventtab2[p].id # eventtab2[s].after
        BY <2>1, <2>2, <3>2, SecondInOrder
      <4>2. PreviousFirst'
        BY <2>2, <4>1, RunsInOrder
      <4> QED
        BY <4>2 DEF FirstByOwnLink
    <3> QED
      BY <3>1, <3>2
  <2> QED
    BY <1>1, <2>2, <2>4, <2>5 DEF RanInv
<1> QED
  BY <1>2, <1>3, <1>4

-----------------------------------------------------------------------------
(* A MISC_handler frame that waits for its first handler was there before,  *)
(* or has just executed an event that was due.                             *)
OldFrame(k) == k \in DOMAIN stack /\ stack'[k] = stack[k]
NewFirst(k) ==
  \E s \in Slots : /\ Runs(s, "due") /\ eventtab2[s].evtime = currcycle
                   /\ stack'[k].i = s /\ stack'[k].id = eventtab2[s].id

LEMMA FramesInContext ==
  ASSUME Types, NEW st, Context(st), NEW f \in Frames, f.in # "misc" \/ f.at = "scan"
  PROVE  /\ st \in Seq(Frames)
         /\ \A k \in DOMAIN st : st[k].in = "misc" => k \in DOMAIN stack /\ st[k] = stack[k]
         /\ \A k \in DOMAIN Append(st, f) :
              Append(st, f)[k].in = "misc" /\ Append(st, f)[k].at = "first" =>
                k \in DOMAIN stack /\ Append(st, f)[k] = stack[k]
<1>1. /\ st \in Seq(Frames)
      /\ \A k \in DOMAIN st : st[k].in = "misc" => k \in DOMAIN stack /\ st[k] = stack[k]
  BY DEF Context
<1>2. /\ DOMAIN Append(st, f) = 1 .. Len(st) + 1 /\ DOMAIN st = 1 .. Len(st)
      /\ Append(st, f)[Len(st) + 1] = f
      /\ \A k \in 1 .. Len(st) : Append(st, f)[k] = st[k]
      /\ \A k \in 1 .. Len(st) + 1 : k = Len(st) + 1 \/ k \in 1 .. Len(st)
  BY <1>1, Pushed
<1> QED
  BY <1>1, <1>2

LEMMA FirstFrames ==
  ASSUME IInv, [Next]_vars, NEW k \in DOMAIN stack', stack'[k].in = "misc", stack'[k].at = "first"
  PROVE  (OldFrame(k) \/ NewFirst(k)) /\ currcycle' = currcycle
<1> USE DEF IInv
<1>1. CASE \/ \E t \in Delays : \/ \E kind \in Kinds : NewEvent(t, kind)
                                \/ \E no \in Slots \ General : NewEventAt(no, t)
           \/ SearchAgain
  <2>1. Installs \/ Overflows
    BY <1>1, ScheduleSteps
  <2>2. CASE Installs
    <3>1. PICK no \in Slots, et \in Times, kind \in Kinds \cup {Owner} :
            \E st : Context(st) /\ Install(no, et, kind, st)
      BY <2>2 DEF Installs
    <3>2. PICK st : Context(st) /\ Install(no, et, kind, st)
      BY <3>1
    <3>3. currcycle' = currcycle /\ (stack' = st \/ stack' = Append(st, Scanning))
      BY <3>2 DEF Install, CallMisc
    <3>4. Scanning \in Frames /\ Scanning.at = "scan"
      BY NewFramesAre
    <3>5. OldFrame(k)
      BY <3>2, <3>3, <3>4, FramesInContext DEF OldFrame
    <3> QED
      BY <3>3, <3>5
  <2>3. CASE Overflows
    <3>1. PICK s \in Slots, f \in NewFrames :
            \E st : /\ Context(st) /\ Execute(s, eventtab2, Append(st, f), "overflow")
                    /\ UNCHANGED currcycle
      BY <2>3 DEF Overflows
    <3>2. PICK st : /\ Context(st) /\ Execute(s, eventtab2, Append(st, f), "overflow")
                    /\ UNCHANGED currcycle
      BY <3>1
    <3>3. stack' = Append(Append(st, f), Handler) /\ f \in Frames /\ f.in = "new"
      BY <3>2 DEF Execute, Frames, NewFrames
    <3>4. /\ st \in Seq(Frames)
          /\ \A j \in DOMAIN st : st[j].in = "misc" => j \in DOMAIN stack /\ st[j] = stack[j]
      BY <3>2, <3>3, FramesInContext
    <3>5. /\ DOMAIN stack' = 1 .. Len(st) + 2 /\ DOMAIN st = 1 .. Len(st)
          /\ stack'[Len(st) + 1] = f /\ stack'[Len(st) + 2] = Handler
          /\ \A j \in 1 .. Len(st) : stack'[j] = st[j]
          /\ \A j \in 1 .. Len(st) + 2 : j = Len(st) + 2 \/ j = Len(st) + 1 \/ j \in 1 .. Len(st)
      BY <3>3, <3>4, TwoPushed, LenProperties
    <3>6. k \in 1 .. Len(st)
      BY <3>3, <3>5, NewFramesAre
    <3> QED
      BY <3>2, <3>4, <3>5, <3>6 DEF OldFrame
  <2> QED
    BY <2>1, <2>2, <2>3
<1>2. CASE HandlerReturns
  <2>1. stack # <<>> /\ stack' = Below /\ currcycle' = currcycle
    BY <1>2 DEF HandlerReturns, InHandler
  <2>2. \A j \in DOMAIN Below : j \in DOMAIN stack /\ Below[j] = stack[j]
    BY <2>1, TopAndBelow
  <2> QED
    BY <2>1, <2>2 DEF OldFrame
<1>3. CASE Scan
  <2>1. /\ InMisc /\ Top.at = "scan" /\ currcycle' = currcycle /\ UNCHANGED <<ids, last_event2>>
        /\ Top \in MiscFrames /\ Below \in Seq(Frames) /\ stack # <<>>
    BY <1>3, MiscTop DEF Scan
  <2>2. \A j \in DOMAIN Below : j \in DOMAIN stack /\ Below[j] = stack[j]
    BY <2>1, TopAndBelow
  <2>3. CASE Due # {}
    <3> DEFINE f == [Top EXCEPT !.i = Upto, !.at = "first", !.mintime = Mintime,
                                !.id = eventtab2[Upto].id]
    <3>1. Execute(Upto, eventtab2, Append(Below, f), "due")
      BY <1>3, <2>3 DEF Scan, Due, Upto, Seen, Mintime
    <3>2. Upto \in Active(eventtab2) /\ eventtab2[Upto].evtime = currcycle /\ Upto \in Slots
      <4>1. Upto \in Due
        BY <2>1, <2>3, ScanFinds
      <4> QED
        BY <4>1 DEF Due, Active
    <3>3. Runs(Upto, "due")
      BY <2>1, <3>1, <3>2, ExecuteRuns
    <3>4. f \in Frames /\ f.i = Upto /\ f.id = eventtab2[Upto].id
      <4>1. Upto \in 0 .. ev2_max /\ Mintime \in Times
        BY <2>1, ScanFinds
      <4>2. eventtab2[Upto].id \in 0 .. MaxEvents
        BY <3>2 DEF Types, Events
      <4>3. f \in MiscFrames /\ f.i = Upto /\ f.id = eventtab2[Upto].id
        BY <2>1, <4>1, <4>2 DEF MiscFrames
      <4> QED
        BY <4>3 DEF Frames
    <3>5. stack' = Append(Append(Below, f), Handler)
      BY <3>1 DEF Execute
    <3> HIDE DEF f
    <3>6. /\ DOMAIN stack' = 1 .. Len(Below) + 2 /\ DOMAIN Below = 1 .. Len(Below)
          /\ stack'[Len(Below) + 1] = f /\ stack'[Len(Below) + 2] = Handler
          /\ \A j \in 1 .. Len(Below) : stack'[j] = Below[j]
          /\ \A j \in 1 .. Len(Below) + 2 : j = Len(Below) + 2 \/ j = Len(Below) + 1 \/ j \in 1 .. Len(Below)
      BY <2>1, <3>4, <3>5, TwoPushed, LenProperties
    <3>7. k # Len(Below) + 2
      BY <3>6, NewFramesAre
    <3>8. CASE k = Len(Below) + 1
      BY <2>1, <3>2, <3>3, <3>4, <3>6, <3>8 DEF NewFirst
    <3>9. CASE k \in 1 .. Len(Below)
      BY <2>1, <2>2, <3>6, <3>9 DEF OldFrame
    <3> QED
      BY <3>6, <3>7, <3>8, <3>9
  <2>4. CASE Due = {}
    <3>1. stack' = Below \/ stack' = Append(Below, Scanning)
      BY <1>3, <2>4 DEF Scan, Due
    <3>2. CASE stack' = Below
      BY <2>1, <2>2, <3>2 DEF OldFrame
    <3>3. CASE stack' = Append(Below, Scanning)
      <4>1. /\ DOMAIN stack' = 1 .. Len(Below) + 1 /\ DOMAIN Below = 1 .. Len(Below)
            /\ stack'[Len(Below) + 1] = Scanning
            /\ \A j \in 1 .. Len(Below) : stack'[j] = Below[j]
            /\ \A j \in 1 .. Len(Below) + 1 : j = Len(Below) + 1 \/ j \in 1 .. Len(Below)
        BY <2>1, <3>3, NewFramesAre, Pushed
      <4>2. k \in 1 .. Len(Below)
        BY <4>1, NewFramesAre
      <4> QED
        BY <2>1, <2>2, <4>1, <4>2 DEF OldFrame
    <3> QED
      BY <3>1, <3>2, <3>3
  <2> QED
    BY <2>3, <2>4
<1>4. CASE AfterFirst \/ AfterSecond
  <2>1. /\ InMisc /\ Top.at # "scan" /\ currcycle' = currcycle
        /\ Top \in MiscFrames /\ Below \in Seq(Frames) /\ stack # <<>>
    BY <1>4, MiscTop DEF AfterFirst, AfterSecond
  <2>2. \A j \in DOMAIN Below : j \in DOMAIN stack /\ Below[j] = stack[j]
    BY <2>1, TopAndBelow
  <2>3. PICK f \in MiscFrames :
          f.at # "first" /\ (stack' = Append(Below, f) \/ stack' = Append(Append(Below, f), Handler))
    <3>1. NextSlot \in MiscFrames /\ NextSlot.at = "scan"
      BY <2>1, NextSlotKnows
    <3>2. [Top EXCEPT !.at = "second"] \in MiscFrames /\ [Top EXCEPT !.at = "second"].at = "second"
      BY <2>1 DEF MiscFrames
    <3>3. CASE AfterFirst
      <4>1. CASE Chained(Top.i)
        <5>1. stack' = Append(Append(Below, [Top EXCEPT !.at = "second"]), Handler)
          BY <3>3, <4>1 DEF AfterFirst, Execute
        <5> QED
          BY <3>2, <5>1
      <4>2. CASE ~ Chained(Top.i)
        <5>1. stack' = Append(Below, NextSlot)
          BY <3>3, <4>2 DEF AfterFirst
        <5> QED
          BY <3>1, <5>1
      <4> QED
        BY <4>1, <4>2
    <3>4. CASE AfterSecond
      <4>1. stack' = Append(Below, NextSlot)
        BY <3>4 DEF AfterSecond
      <4> QED
        BY <3>1, <4>1
    <3> QED
      BY <1>4, <3>3, <3>4
  <2>4. f \in Frames
    BY DEF Frames
  <2>5. CASE stack' = Append(Below, f)
    <3>1. /\ DOMAIN stack' = 1 .. Len(Below) + 1 /\ DOMAIN Below = 1 .. Len(Below)
          /\ stack'[Len(Below) + 1] = f
          /\ \A j \in 1 .. Len(Below) : stack'[j] = Below[j]
          /\ \A j \in 1 .. Len(Below) + 1 : j = Len(Below) + 1 \/ j \in 1 .. Len(Below)
      BY <2>1, <2>4, <2>5, Pushed
    <3>2. k \in 1 .. Len(Below)
      BY <2>3, <3>1
    <3> QED
      BY <2>1, <2>2, <3>1, <3>2 DEF OldFrame
  <2>6. CASE stack' = Append(Append(Below, f), Handler)
    <3>1. /\ DOMAIN stack' = 1 .. Len(Below) + 2 /\ DOMAIN Below = 1 .. Len(Below)
          /\ stack'[Len(Below) + 1] = f /\ stack'[Len(Below) + 2] = Handler
          /\ \A j \in 1 .. Len(Below) : stack'[j] = Below[j]
          /\ \A j \in 1 .. Len(Below) + 2 : j = Len(Below) + 2 \/ j = Len(Below) + 1 \/ j \in 1 .. Len(Below)
      BY <2>1, <2>4, <2>6, TwoPushed, LenProperties
    <3>2. k \in 1 .. Len(Below)
      BY <2>3, <3>1, NewFramesAre
    <3> QED
      BY <2>1, <2>2, <3>1, <3>2 DEF OldFrame
  <2> QED
    BY <2>3, <2>5, <2>6
<1>5. CASE Tick
  <2>1. stack = <<>> /\ (stack' = stack \/ stack' = Append(stack, Scanning))
    BY <1>5 DEF Tick, CallMisc
  <2>2. stack' = Append(stack, Scanning)
    BY <2>1
  <2>3. stack \in Seq(Frames) /\ Len(stack) = 0
    BY <2>1 DEF Types
  <2>4. DOMAIN stack' = 1 .. 1 /\ stack'[1] = Scanning
    BY <2>2, <2>3, NewFramesAre, Pushed
  <2> QED
    BY <2>4, NewFramesAre
<1>6. CASE (\E kind \in Removable : RemoveEvents(kind)) \/ Clear \/ UNCHANGED vars
  <2>1. UNCHANGED <<stack, currcycle>>
    BY <1>6 DEF RemoveEvents, Clear, vars
  <2> QED
    BY <2>1 DEF OldFrame
<1> QED
  BY <1>1, <1>2, <1>3, <1>4, <1>5, <1>6 DEF Next

LEMMA FirstOrders == ASSUME IInv, OrderInv, [Next]_vars PROVE FirstInv'
<1> USE DEF IInv
<1> SUFFICES ASSUME NEW k \in DOMAIN stack', stack'[k].in = "misc", stack'[k].at = "first"
             PROVE  /\ 0 < stack'[k].id /\ stack'[k].id <= ids'
                    /\ eventtab2'[stack'[k].i].id = stack'[k].id =>
                         /\ ~ eventtab2'[stack'[k].i].active
                         /\ eventtab2'[stack'[k].i].evtime = currcycle'
  BY DEF FirstInv
<1>1. (OldFrame(k) \/ NewFirst(k)) /\ currcycle' = currcycle
  BY FirstFrames
<1>2. CASE NewFirst(k)
  <2>1. PICK s \in Slots : /\ Runs(s, "due") /\ eventtab2[s].evtime = currcycle
                           /\ stack'[k].i = s /\ stack'[k].id = eventtab2[s].id
    BY <1>2 DEF NewFirst
  <2>2. /\ eventtab2[s].active /\ Fewer /\ ~ eventtab2'[s].active
        /\ eventtab2'[s].evtime = eventtab2[s].evtime /\ ids' = ids
    BY <2>1 DEF Runs, Active, Fewer
  <2>3. 0 < eventtab2[s].id /\ eventtab2[s].id <= ids
    BY <2>2, SlotTypes DEF OrderInv, IdInv
  <2> QED
    BY <1>1, <2>1, <2>2, <2>3
<1>3. CASE OldFrame(k)
  <2> DEFINE f == stack[k]
  <2>1. k \in DOMAIN stack /\ stack'[k] = f /\ f.in = "misc" /\ f.at = "first"
    BY <1>3 DEF OldFrame
  <2>2. /\ 0 < f.id /\ f.id <= ids
        /\ eventtab2[f.i].id = f.id => ~ eventtab2[f.i].active /\ eventtab2[f.i].evtime = currcycle
    BY <2>1 DEF OrderInv, FirstInv
  <2>3. f.i \in Slots /\ f.id \in Nat
    <3>1. f \in MiscFrames /\ f.i < ev2_max
      <4>1. f \in Frames
        BY <2>1, ElementOfSeq, LenProperties DEF Types
      <4> QED
        BY <2>1, <4>1, FrameKinds DEF StackInv
    <3> QED
      BY <3>1, Constants DEF MiscFrames, Slots
  <2> HIDE DEF f
  <2>4. CASE Fewer
    BY <1>1, <2>1, <2>2, <2>3, <2>4 DEF Fewer
  <2>5. CASE Installs
    <3>0. PICK no \in Slots, et \in Times, kind \in Kinds \cup {Owner} : \E st : Install(no, et, kind, st)
      BY <2>5 DEF Installs
    <3>1. PICK st : Install(no, et, kind, st)
      BY <3>0
    <3>2. /\ ids' = ids + 1 /\ eventtab2'[no].id = ids + 1 /\ ids \in Nat
          /\ \A s \in Slots \ {no} :
               /\ eventtab2'[s].active = eventtab2[s].active /\ eventtab2'[s].id = eventtab2[s].id
               /\ eventtab2'[s].evtime = eventtab2[s].evtime
      BY <3>1, SlotsAfterInstall DEF Types
    <3>3. CASE f.i = no
      BY <2>1, <2>2, <2>3, <3>2, <3>3
    <3>4. CASE f.i # no
      <4>1. /\ eventtab2'[f.i].active = eventtab2[f.i].active /\ eventtab2'[f.i].id = eventtab2[f.i].id
            /\ eventtab2'[f.i].evtime = eventtab2[f.i].evtime
        BY <2>3, <3>2, <3>4
      <4> QED
        BY <1>1, <2>1, <2>2, <2>3, <3>2, <4>1
    <3> QED
      BY <3>3, <3>4
  <2>6. Installs \/ Fewer
    BY StepKinds DEF RunsDue, RunsOverflow, RunsSecond, Runs, Quiet
  <2> QED
    BY <2>4, <2>5, <2>6
<1> QED
  BY <1>1, <1>2, <1>3

LEMMA OrderInductive == ASSUME IInv, OrderInv, [Next]_vars PROVE OrderInv'
<1>1. Installs \/ RunsDue \/ RunsOverflow \/ RunsSecond \/ Quiet
  BY StepKinds
<1>2. IdInv' /\ AskedInv' /\ LinkInv' /\ RanInv'
  BY <1>1, InstallOrders, RunsOrders, QuietOrders
<1> QED
  BY <1>2, FirstOrders DEF OrderInv

LEMMA OrderInitially == ASSUME Init PROVE OrderInv
<1>1. \A s \in Slots : /\ eventtab2[s].id = 0 /\ eventtab2[s].after = 0 /\ ~ eventtab2[s].active
  BY DEF Init, Empty
<1>2. ids = 0 /\ ran.after = 0 /\ ran.by = "none" /\ DOMAIN stack = {}
  BY DEF Init
<1>3. OnTime /\ FirstByOwnLink
  BY <1>2 DEF OnTime, FirstByOwnLink
<1> QED
  BY <1>1, <1>2, <1>3 DEF OrderInv, IdInv, AskedInv, LinkInv, FirstInv, RanInv, Active

(* What waits in the table is in order, and so is what runs except through *)
(* a link that is not the executed event's own: the inductive invariant.   *)
THEOREM OrderInvariant == Spec => []OrderInv
<1>1. Init => OrderInv
  BY OrderInitially
<1>2. IInv /\ OrderInv /\ [Next]_vars => OrderInv'
  BY OrderInductive
<1> QED
  BY <1>1, <1>2, EventInvariant, PTL DEF Spec

(* Whatever handlers schedule and whatever is removed, moved or cleared,   *)
(* an event that MISC_handler finds due, or reaches through a link of the   *)
(* slot whose event has just run, runs at the time it was asked for: the    *)
(* test "e2->evtime == e->evtime + 1" holds off every old link, unless a    *)
(* new event is in the slot e.                                             *)
THEOREM OnTimeAlways == Spec => []OnTime
<1>1. OrderInv => OnTime
  BY DEF OrderInv, RanInv
<1> QED
  BY <1>1, OrderInvariant, PTL

(* "make sure it gets executed first" holds of every event that is found    *)
(* due, that a full table makes run ahead of time, or that is reached       *)
(* through the link made when it was scheduled: removals, full tables and   *)
(* nested handlers do not break it.  Old links can.                        *)
THEOREM FirstByOwnLinkAlways == Spec => []FirstByOwnLink
<1>1. OrderInv => FirstByOwnLink
  BY DEF OrderInv, RanInv
<1> QED
  BY <1>1, OrderInvariant, PTL
=============================================================================
