----------------------------- MODULE EventTable -----------------------------
(***************************************************************************)
(* The table of delayed calls of events.cpp (eventtab2), run by            *)
(* MISC_handler from the one timer eventtab[ev_misc].  The emulated CPU    *)
(* and the handlers themselves put events into the table; a new event      *)
(* calls MISC_handler, also from inside a handler that MISC_handler runs,  *)
(* and a full table runs a handler from inside event2_newevent_xx.         *)
(*                                                                         *)
(* The C call stack is the variable stack; a step runs from one call or    *)
(* return of a handler to the next.  Two events with the same time differ  *)
(* by one unit after chaining; the CPU's steps are multiples of CYCLE_UNIT  *)
(* units.                                                                  *)
(***************************************************************************)
EXTENDS Integers, FiniteSetsExt, SequencesExt

CONSTANTS
  ev2_misc,     \* slots below it belong to one user each (blitter, disk)
  ev2_max,      \* number of slots
  Kinds,        \* handlers of the other events, each with its data
  CYCLE_UNIT,   \* units of time in a colour clock, which the CPU runs by
  Delays,       \* delays asked for, in units
  PerHandler,   \* events a handler schedules at most
  Removable,    \* kinds that are removed before their time, or moved
  MaxClears,    \* bound: savestate restores and resets
  MaxEvents,    \* bound: events scheduled
  Horizon       \* bound: time

Slots   == 0 .. ev2_max - 1
General == ev2_misc .. ev2_max - 1
NoSlot  == -1
Owner   == "owner"   \* the handler of a slot below ev2_misc
Never   == Horizon + MaxEvents + Max(Delays) + CYCLE_UNIT   \* EVT_MAX

ASSUME EventAssumption ==
  /\ ev2_misc \in Nat /\ ev2_max \in Nat /\ ev2_misc < ev2_max
  /\ CYCLE_UNIT \in Nat /\ CYCLE_UNIT > 1
  /\ IsFiniteSet(Delays) /\ Delays # {} /\ \A t \in Delays : t \in Nat \ {0}
  /\ PerHandler \in Nat /\ MaxClears \in Nat /\ MaxEvents \in Nat /\ Horizon \in Nat
  /\ Removable \subseteq Kinds \cup {Owner} /\ Owner \notin Kinds

VARIABLES
  currcycle,
  eventtab2,    \* the slots, with the history fields id, asked and after
  ev_misc,      \* eventtab[ev_misc]
  last_event2,  \* slot of the event scheduled last
  next,         \* the static search position of event2_newevent_xx
  dorecheck,    \* the static flag of MISC_handler
  stack,        \* C frames: "misc", "handler" or "new", the innermost last
  ids, clears,  \* events scheduled so far, tables cleared so far
  ran           \* the event executed last (history)

vars == <<currcycle, eventtab2, ev_misc, last_event2, next, dorecheck, stack, ids, clears, ran>>

Empty == [active |-> FALSE, evtime |-> 0, kind |-> Owner, next |-> NoSlot,
          id |-> 0, asked |-> 0, after |-> 0]

(* The field id is the event that was due at slot i (history). *)
Scanning == [in |-> "misc", i |-> 0, at |-> "scan", mintime |-> Never, recheck |-> FALSE, id |-> 0]
Handler  == [in |-> "handler", left |-> PerHandler]

Top == stack[Len(stack)]
Below == Front(stack)
InMisc == stack # <<>> /\ Top.in = "misc"
InHandler == stack # <<>> /\ Top.in = "handler"
Recursive(st) == \E k \in DOMAIN st : st[k].in = "misc"

Active(tab) == {s \in Slots : tab[s].active}
Earliest(S) == Min({eventtab2[s].evtime : s \in S} \cup {Never})

(* e->active = false; e->handler(e->data) *)
Execute(s, tab, st, by) ==
  /\ eventtab2' = [tab EXCEPT ![s].active = FALSE]
  /\ stack' = Append(st, Handler)
  /\ ran' = [id |-> tab[s].id, asked |-> tab[s].asked, after |-> tab[s].after,
             at |-> currcycle, by |-> by]

(* A call of MISC_handler from the C stack st. *)
CallMisc_NoGuard(st) ==
  /\ ev_misc' = [ev_misc EXCEPT !.active = FALSE]
  /\ stack' = Append(st, Scanning)
  /\ UNCHANGED dorecheck
CallMisc(st) ==
  IF Recursive(st)
    THEN dorecheck' = TRUE /\ stack' = st /\ UNCHANGED ev_misc
    ELSE /\ ev_misc' = [ev_misc EXCEPT !.active = FALSE]
         /\ stack' = Append(st, Scanning)
         /\ UNCHANGED dorecheck

-----------------------------------------------------------------------------
(* event2_newevent_xx, with no frame of its own unless the table is full. *)

(* "if previous event has same expiry time, make sure it gets executed     *)
(* first."                                                                 *)
Chains_Never(no, et) == FALSE
Chains(no, et) ==
  /\ last_event2 # NoSlot /\ last_event2 # no
  /\ eventtab2[last_event2].active /\ eventtab2[last_event2].evtime = et

(* The event scheduled last, if it waits for the same time (history). *)
Previous(et) ==
  IF ids > 0 /\ eventtab2[last_event2].active /\ eventtab2[last_event2].evtime = et
    THEN eventtab2[last_event2].id ELSE 0

Install(no, et, kind, st) ==
  /\ ids' = ids + 1
  /\ eventtab2' = [s \in Slots |->
       IF s = no THEN
         [active |-> TRUE, evtime |-> IF Chains(no, et) THEN et + 1 ELSE et, kind |-> kind,
          next |-> eventtab2[no].next, id |-> ids', asked |-> et,
          after |-> Previous(et)]
       ELSE IF Chains(no, et) /\ s = last_event2 THEN [eventtab2[s] EXCEPT !.next = no]
       ELSE eventtab2[s]]
  /\ last_event2' = no
  /\ CallMisc(st)
  /\ UNCHANGED <<currcycle, clears, ran>>

(* The slots the search visits from no on: up to next, or all of them. *)
Distance(a, b) == (b - a) % (ev2_max - ev2_misc)
Visited(no) ==
  {s \in General : no = next \/ Distance(no, s) < Distance(no, next)}
Usable(s, et, kind) ==
  ~ eventtab2[s].active \/ (eventtab2[s].evtime = et /\ eventtab2[s].kind = kind)

FindSlot(no, et, kind, st) ==
  LET found == {s \in Visited(no) : Usable(s, et, kind)} IN
  IF found # {}
    THEN \E s \in found :
           /\ \A r \in found : Distance(no, s) <= Distance(no, r)
           /\ next' = s
           /\ Install(s, et, kind, st)
    ELSE (* "out of event2's!  execute most recent event immediately" *)
         /\ \E s \in Active(eventtab2) :
              /\ \A r \in Active(eventtab2) :
                   \/ eventtab2[s].evtime < eventtab2[r].evtime
                   \/ eventtab2[s].evtime = eventtab2[r].evtime /\ s <= r
              /\ Execute(s, eventtab2,
                         Append(st, [in |-> "new", no |-> next, et |-> et, kind |-> kind]),
                         "overflow")
         /\ UNCHANGED <<currcycle, ev_misc, last_event2, next, dorecheck, ids, clears>>

(* Who schedules: the emulated CPU and its chips, or a handler. *)
Caller ==
  IF stack = <<>> THEN stack ELSE Append(Below, [Top EXCEPT !.left = @ - 1])
MaySchedule ==
  /\ ids + Cardinality({k \in DOMAIN stack : stack[k].in = "new"}) < MaxEvents
  /\ \/ stack = <<>> /\ currcycle % CYCLE_UNIT = 0
     \/ InHandler /\ Top.left > 0

NewEvent(t, kind) ==
  /\ MaySchedule
  /\ FindSlot(next, currcycle + t, kind, Caller)

(* An event with a slot of its own, scheduled, or moved (a blit started   *)
(* while another one runs).                                                *)
NewEventAt(no, t) ==
  /\ MaySchedule
  /\ eventtab2[no].active => Owner \in Removable
  /\ Install(no, currcycle + t, Owner, Caller)
  /\ UNCHANGED next

(* After the handler that a full table made it run, the search goes on. *)
SearchAgain ==
  /\ stack # <<>> /\ Top.in = "new"
  /\ FindSlot(Top.no, Top.et, Top.kind, Below)

HandlerReturns ==
  /\ InHandler
  /\ stack' = Below
  /\ UNCHANGED <<currcycle, eventtab2, ev_misc, last_event2, next, dorecheck, ids, clears, ran>>

(* event2_newevent_x_remove, event2_remevent; event2_newevent_x_replace is *)
(* a removal and NewEvent.                                                 *)
RemoveEvents(kind) ==
  /\ stack = <<>> \/ InHandler
  /\ \E s \in Active(eventtab2) : eventtab2[s].kind = kind
  /\ eventtab2' = [s \in Slots |-> IF eventtab2[s].kind = kind
                                     THEN [eventtab2[s] EXCEPT !.active = FALSE] ELSE eventtab2[s]]
  /\ UNCHANGED <<currcycle, ev_misc, last_event2, next, dorecheck, stack, ids, clears, ran>>

-----------------------------------------------------------------------------
(* MISC_handler: the scan up to the next event that is due, or to its end. *)
Scan ==
  /\ InMisc /\ Top.at = "scan"
  /\ LET due == {s \in Active(eventtab2) : s >= Top.i /\ eventtab2[s].evtime = currcycle}
         upto == IF due = {} THEN ev2_max ELSE Min(due)
         seen == {s \in Active(eventtab2) : s >= Top.i /\ s < upto}
         mintime == Min({Top.mintime, Earliest(seen)}) IN
     IF due # {} THEN
       /\ Execute(upto, eventtab2,
                  Append(Below, [Top EXCEPT !.i = upto, !.at = "first", !.mintime = mintime,
                                            !.id = eventtab2[upto].id]), "due")
       /\ UNCHANGED ev_misc
     ELSE
       /\ stack' = IF Top.recheck THEN Append(Below, Scanning) ELSE Below
       /\ ev_misc' = IF Top.recheck \/ mintime = Never THEN ev_misc
                     ELSE [active |-> TRUE, evtime |-> mintime]
       /\ UNCHANGED <<eventtab2, ran>>
  /\ UNCHANGED <<currcycle, last_event2, next, dorecheck, ids, clears>>

(* "if (dorecheck || e->active)", and on to the next slot. *)
NextSlot_NoRecheck == [Top EXCEPT !.i = @ + 1, !.at = "scan", !.id = 0]
NextSlot ==
  [Top EXCEPT !.i = @ + 1, !.at = "scan", !.id = 0,
              !.recheck = @ \/ dorecheck \/ eventtab2[Top.i].active]

Chained_NoTest(e) == LET e2 == eventtab2[e].next IN e2 # NoSlot /\ eventtab2[e2].active
Chained(e) ==
  LET e2 == eventtab2[e].next IN
    e2 # NoSlot /\ eventtab2[e2].active /\ eventtab2[e2].evtime = eventtab2[e].evtime + 1

(* Which link that is (history): the event's own; that of a new event its  *)
(* handler has put into slot e; or one made for an event that has left slot *)
(* e->next since.                                                          *)
LinkOf(e) ==
  IF eventtab2[e].id # Top.id THEN "reused"
  ELSE IF eventtab2[eventtab2[e].next].after # Top.id THEN "stray" ELSE "chained"

(* The event's handler has returned: the event chained to it is next. *)
AfterFirst ==
  /\ InMisc /\ Top.at = "first"
  /\ LET e == Top.i
         tab == [eventtab2 EXCEPT ![e].next = NoSlot] IN
     IF Chained(e)
       THEN /\ Execute(eventtab2[e].next, tab, Append(Below, [Top EXCEPT !.at = "second"]), LinkOf(e))
            /\ UNCHANGED dorecheck
       ELSE /\ eventtab2' = tab
            /\ stack' = Append(Below, NextSlot) /\ dorecheck' = FALSE
            /\ UNCHANGED ran
  /\ UNCHANGED <<currcycle, ev_misc, last_event2, next, ids, clears>>

AfterSecond ==
  /\ InMisc /\ Top.at = "second"
  /\ stack' = Append(Below, NextSlot) /\ dorecheck' = FALSE
  /\ UNCHANGED <<currcycle, eventtab2, ev_misc, last_event2, next, ids, clears, ran>>

-----------------------------------------------------------------------------
(* do_cycles_cpu_norm: the CPU takes one CYCLE_UNIT, or the time up to the *)
(* next event.                                                             *)
Tick ==
  /\ stack = <<>> /\ currcycle < Horizon
  /\ currcycle' = Min({(currcycle \div CYCLE_UNIT + 1) * CYCLE_UNIT}
                       \cup {e.evtime : e \in {x \in {ev_misc} : x.active}})
  /\ IF ev_misc.active /\ ev_misc.evtime = currcycle'
       THEN CallMisc(stack)
       ELSE UNCHANGED <<ev_misc, dorecheck, stack>>
  /\ UNCHANGED <<eventtab2, last_event2, next, ids, clears, ran>>

(* clear_events and init_eventtab: the links and last_event2 stay. *)
Clear ==
  /\ stack = <<>> /\ clears < MaxClears
  /\ clears' = clears + 1
  /\ eventtab2' = [s \in Slots |-> [eventtab2[s] EXCEPT !.active = FALSE]]
  /\ ev_misc' = [ev_misc EXCEPT !.active = FALSE]
  /\ UNCHANGED <<currcycle, last_event2, next, dorecheck, stack, ids, ran>>

Init ==
  /\ currcycle = 0
  /\ eventtab2 = [s \in Slots |-> Empty]
  /\ ev_misc = [active |-> FALSE, evtime |-> 0]
  /\ last_event2 = NoSlot /\ next = ev2_misc /\ dorecheck = FALSE
  /\ stack = <<>> /\ ids = 0 /\ clears = 0
  /\ ran = [id |-> 0, asked |-> 0, after |-> 0, at |-> 0, by |-> "none"]

Next ==
  \/ \E t \in Delays : \/ \E kind \in Kinds : NewEvent(t, kind)
                       \/ \E no \in Slots \ General : NewEventAt(no, t)
  \/ SearchAgain \/ HandlerReturns
  \/ \E kind \in Removable : RemoveEvents(kind)
  \/ Scan \/ AfterFirst \/ AfterSecond
  \/ Tick \/ Clear

Spec == Init /\ [][Next]_vars

-----------------------------------------------------------------------------
Times == 0 .. Never
TypeOK ==
  /\ currcycle \in 0 .. Horizon + CYCLE_UNIT /\ ids \in 0 .. MaxEvents /\ clears \in 0 .. MaxClears
  /\ eventtab2 \in [Slots -> [active : BOOLEAN, evtime : Times, kind : Kinds \cup {Owner},
                              next : Slots \cup {NoSlot}, id : 0 .. MaxEvents, asked : Times,
                              after : 0 .. MaxEvents]]
  /\ ev_misc \in [active : BOOLEAN, evtime : Times]
  /\ last_event2 \in Slots \cup {NoSlot} /\ next \in General /\ dorecheck \in BOOLEAN
  /\ Cardinality({k \in DOMAIN stack : stack[k].in = "misc"}) <= 1

(* Nothing is ever missed: whenever the CPU runs, every event in the table *)
(* is still to come and the timer rings for the first of them, whatever    *)
(* was scheduled from inside handlers while the table was scanned.         *)
NoneMissed ==
  stack = <<>> => \A s \in Active(eventtab2) :
    /\ currcycle < eventtab2[s].evtime
    /\ ev_misc.active /\ currcycle < ev_misc.evtime /\ ev_misc.evtime <= eventtab2[s].evtime

(* An event that MISC_handler executes is executed at the time it was      *)
(* asked for, give or take the unit that orders two events of one time: the *)
(* test of e2's time also holds off an old link to a slot that has another  *)
(* event by now.  The one exception is slot e with a new event from its own *)
(* handler: e->evtime is then that event's.                                *)
OnTime ==
  ran.by \in {"due", "chained", "stray"} => ran.at \in ran.asked - 1 .. ran.asked + 1

(* "if previous event has same expiry time, make sure it gets executed     *)
(* first" (events.cpp 435): an event never runs while the one it was put   *)
(* behind still waits.                                                     *)
PreviousFirst ==
  ran.after > 0 => \A s \in Active(eventtab2) : eventtab2[s].id # ran.after

(* The order of two events of one time is kept, whoever runs them, except   *)
(* through a link that is not the executed event's own.                     *)
FirstByOwnLink ==
  ran.by \in {"due", "chained", "overflow"} => PreviousFirst
=============================================================================
