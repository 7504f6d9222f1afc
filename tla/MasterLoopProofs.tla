--------------------------- MODULE MasterLoopProofs -------------------------
(***************************************************************************)
(* The scheduler and the loop of a device thread around it, for every set  *)
(* of actions, every interval, every length of the second, every duration  *)
(* of a command, every delay of a wake-up and every clock.  The first part *)
(* is about Scheduler alone.                                               *)
(***************************************************************************)
EXTENDS MasterLoop, BusTimingProofs

(* The interval initScheduler copies into an entry is a normalised time    *)
(* and not zero: an interval of an action is at least one microsecond.     *)
LEMMA IntervalFacts ==
    \A a \in Action : Interval(a) \in TimeVal /\ Interval(a) # Zero
  BY IntervalType, SchedulerAssumption DEF Interval

(* The loop of insertEventByDueDate finds one place, whatever the list.    *)
LEMMA DuePositionExists ==
    ASSUME NEW e \in Event, NEW l \in Seq(Event)
    PROVE  LET p == DuePosition(e, l)
           IN  /\ p \in 1 .. Len(l) + 1
               /\ \A j \in 1 .. p - 1 : ~Before(e.trigger, l[j].trigger)
               /\ p <= Len(l) => Before(e.trigger, l[p].trigger)
  <1> DEFINE T == {i \in 1 .. Len(l) : Before(e.trigger, l[i].trigger)}
                      \cup {Len(l) + 1}
             P(p) == /\ \A j \in 1 .. p - 1 : ~Before(e.trigger, l[j].trigger)
                     /\ p <= Len(l) => Before(e.trigger, l[p].trigger)
  <1>1. PICK m \in T : \A y \in T : m <= y
    <2>1. T \in SUBSET Nat /\ T # {}
      OBVIOUS
    <2> HIDE DEF T
    <2> QED  BY <2>1, LeastElement
  <1>2. m \in 1 .. Len(l) + 1
    OBVIOUS
  <1>3. P(m)
    BY <1>1, <1>2
  <1>4. QED
    BY <1>2, <1>3 DEF DuePosition

(* What insertEventByDueDate makes of a list, entry by entry.              *)
LEMMA InsertEntries ==
    ASSUME NEW e \in Event, NEW l \in Seq(Event)
    PROVE  LET p == DuePosition(e, l)
               r == insertEventByDueDate(e, l)
           IN  /\ r \in Seq(Event)
               /\ Len(r) = Len(l) + 1
               /\ \A i \in 1 .. p - 1 : r[i] = l[i]
               /\ r[p] = e
               /\ \A i \in p + 1 .. Len(l) + 1 : r[i] = l[i - 1]
  <1> DEFINE p == DuePosition(e, l)
             h == SubSeq(l, 1, p - 1)
             t == SubSeq(l, p, Len(l))
  <1>1. p \in 1 .. Len(l) + 1
    BY DuePositionExists
  <1>2. insertEventByDueDate(e, l) = h \o <<e>> \o t
    BY DEF insertEventByDueDate, InsertAt
  <1> HIDE DEF p
  <1>3. /\ h \in Seq(Event) /\ Len(h) = p - 1
        /\ \A i \in 1 .. p - 1 : h[i] = l[i]
    BY <1>1, SMT
  <1>4. /\ t \in Seq(Event) /\ Len(t) = Len(l) - p + 1
        /\ \A i \in 1 .. Len(l) - p + 1 : t[i] = l[p + i - 1]
    BY <1>1, SMT
  <1> HIDE DEF h, t
  <1> DEFINE r == h \o <<e>> \o t
  <1>5. /\ r \in Seq(Event)
        /\ Len(r) = Len(l) + 1
    BY <1>1, <1>3, <1>4, SMT
  <1>6. \A i \in 1 .. p - 1 : r[i] = l[i]
    BY <1>1, <1>3, <1>4, SMT
  <1>7. r[p] = e
    BY <1>1, <1>3, <1>4, SMT
  <1>8. \A i \in p + 1 .. Len(l) + 1 : r[i] = l[i - 1]
    <2> TAKE i \in p + 1 .. Len(l) + 1
    <2>1. r[i] = t[i - p]
      BY <1>1, <1>3, <1>4, SMT
    <2>2. i - p \in 1 .. Len(l) - p + 1 /\ p + (i - p) - 1 = i - 1
      BY <1>1, SMT
    <2>3. QED
      BY <1>4, <2>1, <2>2
  <1> HIDE DEF r
  <1>9. insertEventByDueDate(e, l) = r
    BY <1>2 DEF r
  <1>10. QED
    BY <1>5, <1>6, <1>7, <1>8, <1>9 DEF p

(* No entry is lost and only the new one is added.                         *)
LEMMA InsertContent ==
    ASSUME NEW e \in Event, NEW l \in Seq(Event)
    PROVE  ToSet(insertEventByDueDate(e, l)) = ToSet(l) \cup {e}
  <1> DEFINE p == DuePosition(e, l)
             r == insertEventByDueDate(e, l)
  <1>1. p \in 1 .. Len(l) + 1
    BY DuePositionExists
  <1>2. /\ r \in Seq(Event)
        /\ Len(r) = Len(l) + 1
        /\ \A i \in 1 .. p - 1 : r[i] = l[i]
        /\ r[p] = e
        /\ \A i \in p + 1 .. Len(l) + 1 : r[i] = l[i - 1]
    BY InsertEntries
  <1> HIDE DEF p, r
  <1>3. ASSUME NEW i \in DOMAIN r PROVE r[i] \in ToSet(l) \cup {e}
    BY <1>1, <1>2, SMT DEF ToSet
  <1>4. ASSUME NEW i \in DOMAIN l PROVE l[i] \in ToSet(r)
    <2>1. CASE i < p
      BY <1>1, <1>2, <2>1, SMT DEF ToSet
    <2>2. CASE i >= p
      <3>1. i + 1 \in p + 1 .. Len(l) + 1 /\ i + 1 \in DOMAIN r
        BY <1>1, <1>2, <2>2, SMT
      <3>2. r[i + 1] = l[i]
        BY <1>2, <3>1, SMT
      <3>3. QED
        BY <3>1, <3>2 DEF ToSet
    <2>3. QED
      BY <1>1, <2>1, <2>2, SMT
  <1>5. e \in ToSet(r)
    BY <1>1, <1>2, SMT DEF ToSet
  <1>6. ToSet(r) = ToSet(l) \cup {e}
    BY <1>3, <1>4, <1>5 DEF ToSet
  <1>7. QED
    BY <1>6 DEF r

(* Inserting into a list in due order leaves it in due order.              *)
LEMMA InsertKeepsDueOrder ==
    ASSUME NEW e \in Event, NEW l \in Seq(Event), InDueOrder(l)
    PROVE  InDueOrder(insertEventByDueDate(e, l))
  <1> DEFINE p == DuePosition(e, l)
             r == insertEventByDueDate(e, l)
  <1>1. /\ p \in 1 .. Len(l) + 1
        /\ \A j \in 1 .. p - 1 : NotAfter(l[j].trigger, e.trigger)
        /\ p <= Len(l) => Before(e.trigger, l[p].trigger)
    BY DuePositionExists DEF NotAfter
  <1>2. /\ r \in Seq(Event)
        /\ Len(r) = Len(l) + 1
        /\ \A i \in 1 .. p - 1 : r[i] = l[i]
        /\ r[p] = e
        /\ \A i \in p + 1 .. Len(l) + 1 : r[i] = l[i - 1]
    BY InsertEntries
  <1>3. \A j \in DOMAIN l : l[j].trigger \in TimeVal
    <2>1. \A j \in DOMAIN l : l[j] \in Event
      OBVIOUS
    <2>2. QED
      BY <2>1 DEF Event
  <1>4. e.trigger \in TimeVal
    BY SMT DEF Event
  <1> HIDE DEF p, r
  <1>5. \A j \in p .. Len(l) : NotAfter(e.trigger, l[j].trigger)
    <2> TAKE j \in p .. Len(l)
    <2>1. p \in DOMAIN l /\ j \in DOMAIN l /\ p <= Len(l)
      BY <1>1, SMT
    <2>2. NotAfter(e.trigger, l[p].trigger)
      BY <1>1, <1>3, <1>4, <2>1, BeforeIrreflexive, BeforeTransitive
         DEF NotAfter
    <2>3. j = p \/ NotAfter(l[p].trigger, l[j].trigger)
      BY <1>1, <2>1, SMT DEF InDueOrder
    <2>4. QED
      BY <1>3, <1>4, <2>1, <2>2, <2>3, NotAfterTransitive
  <1>6. SUFFICES ASSUME NEW i \in DOMAIN r, NEW j \in DOMAIN r, i < j
                 PROVE  NotAfter(r[i].trigger, r[j].trigger)
    BY DEF InDueOrder, r
  <1>7. i \in 1 .. Len(l) + 1 /\ j \in 1 .. Len(l) + 1
    BY <1>2, SMT
  <1>8. CASE j < p
    <2>1. i \in 1 .. p - 1 /\ j \in 1 .. p - 1 /\ i \in DOMAIN l /\ j \in DOMAIN l
      BY <1>1, <1>6, <1>7, <1>8, SMT
    <2>2. QED
      BY <1>2, <1>6, <2>1, Zenon DEF InDueOrder
  <1>9. CASE j = p
    <2>1. i \in 1 .. p - 1
      BY <1>1, <1>6, <1>7, <1>9, SMT
    <2>2. QED
      BY <1>1, <1>2, <1>9, <2>1
  <1>10. CASE j > p
    <2>1. j \in p + 1 .. Len(l) + 1 /\ j - 1 \in p .. Len(l)
          /\ j - 1 \in DOMAIN l
      BY <1>1, <1>7, <1>10, SMT
    <2>2. r[j] = l[j - 1]
      BY <1>2, <2>1
    <2>3. CASE i < p
      <3>1. i \in 1 .. p - 1 /\ i \in DOMAIN l /\ i < j - 1
        BY <1>1, <1>7, <1>10, <2>3, SMT
      <3>2. r[i] = l[i]
        BY <1>2, <3>1
      <3>3. QED
        BY <2>1, <2>2, <3>1, <3>2 DEF InDueOrder
    <2>4. CASE i = p
      BY <1>2, <1>5, <2>1, <2>2, <2>4
    <2>5. CASE i > p
      <3>1. /\ i \in p + 1 .. Len(l) + 1 /\ i - 1 \in DOMAIN l
            /\ i - 1 < j - 1
        BY <1>1, <1>6, <1>7, <2>5, SMT
      <3>2. r[i] = l[i - 1]
        BY <1>2, <3>1
      <3>3. QED
        BY <2>1, <2>2, <3>1, <3>2 DEF InDueOrder
    <2>6. QED
      BY <1>1, <1>7, <2>3, <2>4, <2>5, SMT
  <1>11. QED
    BY <1>1, <1>7, <1>8, <1>9, <1>10, SMT

(* Taking the head of a list that is in due order and has one entry per    *)
(* action: what determineNextEvent's TAILQ_REMOVE leaves.                  *)
LEMMA HeadAndTail ==
    ASSUME NEW l \in Seq(Event), l # <<>>
    PROVE  /\ Head(l) \in Event
           /\ Tail(l) \in Seq(Event)
           /\ Len(Tail(l)) = Len(l) - 1
           /\ ToSet(l) = {Head(l)} \cup ToSet(Tail(l))
           /\ ToSet(l) \subseteq Event
  <1>1. /\ Head(l) \in Event /\ Tail(l) \in Seq(Event)
        /\ Len(Tail(l)) = Len(l) - 1 /\ Len(l) \in Nat \ {0}
    OBVIOUS
  <1>2. ASSUME NEW i \in DOMAIN l
        PROVE  l[i] \in {Head(l)} \cup ToSet(Tail(l))
    <2>1. CASE i = 1
      BY <2>1
    <2>2. CASE i # 1
      <3>1. i - 1 \in DOMAIN Tail(l) /\ Tail(l)[i - 1] = l[i]
        BY <2>2, SMT
      <3>2. QED
        BY <3>1 DEF ToSet
    <2>3. QED
      BY <2>1, <2>2
  <1>3. ASSUME NEW i \in DOMAIN Tail(l) PROVE Tail(l)[i] \in ToSet(l)
    <2>1. i + 1 \in DOMAIN l /\ Tail(l)[i] = l[i + 1]
      BY <1>1, SMT
    <2>2. QED
      BY <2>1 DEF ToSet
  <1>4. Head(l) \in ToSet(l)
    <2>1. 1 \in DOMAIN l /\ Head(l) = l[1]
      BY <1>1, SMT
    <2>2. QED
      BY <2>1 DEF ToSet
  <1>5. ToSet(l) = {Head(l)} \cup ToSet(Tail(l))
    BY <1>2, <1>3, <1>4 DEF ToSet
  <1>6. ToSet(l) \subseteq Event
    BY DEF ToSet
  <1>7. QED
    BY <1>1, <1>5, <1>6

(* The head of a sorted list is due no later than any of its entries, and  *)
(* removing it, as determineNextEvent does, leaves a sorted list.          *)
LEMMA HeadIsEarliest ==
    ASSUME NEW l \in Seq(Event), l # <<>>, InDueOrder(l)
    PROVE  /\ \A e \in ToSet(l) : NotAfter(Head(l).trigger, e.trigger)
           /\ InDueOrder(Tail(l))
  <1>1. ASSUME NEW i \in DOMAIN l
        PROVE  NotAfter(Head(l).trigger, l[i].trigger)
    <2>1. Head(l) = l[1] /\ 1 \in DOMAIN l
      BY SMT
    <2>2. CASE i = 1
      <3>1. Head(l).trigger \in TimeVal
        BY HeadAndTail DEF Event
      <3>2. QED
        BY <2>1, <2>2, <3>1, BeforeIrreflexive DEF NotAfter
    <2>3. CASE i # 1
      <3>1. 1 < i
        BY <2>3, SMT
      <3>2. QED
        BY <2>1, <3>1 DEF InDueOrder
    <2>4. QED
      BY <2>2, <2>3
  <1>2. ASSUME NEW i \in DOMAIN Tail(l), NEW j \in DOMAIN Tail(l), i < j
        PROVE  NotAfter(Tail(l)[i].trigger, Tail(l)[j].trigger)
    <2>1. /\ i + 1 \in DOMAIN l /\ j + 1 \in DOMAIN l /\ i + 1 < j + 1
          /\ Tail(l)[i] = l[i + 1] /\ Tail(l)[j] = l[j + 1]
      BY <1>2, SMT
    <2>2. QED
      BY <2>1 DEF InDueOrder
  <1>3. QED
    BY <1>1, <1>2 DEF ToSet, InDueOrder

OneEntry(l) == \A i, j \in DOMAIN l : l[i].action = l[j].action => i = j

(* A list with one entry per action has none left for the action of its    *)
(* head once determineNextEvent has removed the head.                      *)
LEMMA TailKeepsOneEntry ==
    ASSUME NEW l \in Seq(Event), l # <<>>, OneEntry(l)
    PROVE  /\ OneEntry(Tail(l))
           /\ Head(l).action \notin ActionsOf(Tail(l))
  <1>1. ASSUME NEW i \in DOMAIN Tail(l)
        PROVE  /\ i + 1 \in DOMAIN l /\ i + 1 # 1 /\ 1 \in DOMAIN l
               /\ Tail(l)[i] = l[i + 1] /\ Head(l) = l[1]
    BY SMT
  <1>2. OneEntry(Tail(l))
    <2> SUFFICES ASSUME NEW i \in DOMAIN Tail(l), NEW j \in DOMAIN Tail(l),
                        Tail(l)[i].action = Tail(l)[j].action
                 PROVE  i = j
      BY DEF OneEntry
    <2>1. i + 1 = j + 1
      BY <1>1 DEF OneEntry
    <2>2. i \in Nat /\ j \in Nat
      BY SMT
    <2>3. QED
      BY <2>1, <2>2, SMT
  <1>3. Head(l).action \notin ActionsOf(Tail(l))
    BY <1>1 DEF OneEntry, ActionsOf, ToSet
  <1>4. QED
    BY <1>2, <1>3

(* insertEventByDueDate of an entry whose action is not in the list keeps  *)
(* one entry per action.                                                   *)
LEMMA InsertKeepsOneEntry ==
    ASSUME NEW e \in Event, NEW l \in Seq(Event), OneEntry(l),
           e.action \notin ActionsOf(l)
    PROVE  OneEntry(insertEventByDueDate(e, l))
  <1> DEFINE p == DuePosition(e, l)
             r == insertEventByDueDate(e, l)
  <1>1. p \in 1 .. Len(l) + 1
    BY DuePositionExists
  <1>2. /\ r \in Seq(Event)
        /\ Len(r) = Len(l) + 1
        /\ \A i \in 1 .. p - 1 : r[i] = l[i]
        /\ r[p] = e
        /\ \A i \in p + 1 .. Len(l) + 1 : r[i] = l[i - 1]
    BY InsertEntries
  <1>3. \A i \in DOMAIN l : l[i].action # e.action
    BY DEF ActionsOf, ToSet
  <1> HIDE DEF p, r
  <1> DEFINE old(i) == IF i < p THEN i ELSE i - 1
  <1>4. ASSUME NEW i \in DOMAIN r, i # p
        PROVE  old(i) \in DOMAIN l /\ r[i] = l[old(i)]
    <2>1. i \in 1 .. Len(l) + 1
      BY <1>2, SMT
    <2>2. CASE i < p
      <3>1. i \in 1 .. p - 1 /\ i \in DOMAIN l
        BY <1>1, <2>1, <2>2, SMT
      <3>2. QED
        BY <1>2, <2>2, <3>1
    <2>3. CASE ~(i < p)
      <3>1. i \in p + 1 .. Len(l) + 1 /\ i - 1 \in DOMAIN l
        BY <1>1, <1>4, <2>1, <2>3, SMT
      <3>2. QED
        BY <1>2, <2>3, <3>1
    <2>4. QED
      BY <2>2, <2>3
  <1>5. SUFFICES ASSUME NEW i \in DOMAIN r, NEW j \in DOMAIN r,
                        r[i].action = r[j].action
                 PROVE  i = j
    BY DEF OneEntry, r
  <1>6. CASE i = p \/ j = p
    BY <1>2, <1>3, <1>4, <1>5, <1>6
  <1>7. CASE i # p /\ j # p
    <2>1. old(i) = old(j)
      BY <1>4, <1>5, <1>7 DEF OneEntry
    <2>2. i \in Nat /\ j \in Nat /\ p \in Nat
      BY <1>1, <1>2, SMT
    <2>3. QED
      BY <1>7, <2>1, <2>2, SMT
  <1>8. QED
    BY <1>6, <1>7

(* The trigger time initScheduler computes is normalised and not before    *)
(* the time it was computed at.                                            *)
LEMMA FirstDueFacts ==
    \A t \in TimeVal, a \in Action :
        /\ FirstDue(t, a) \in TimeVal
        /\ NotAfter(t, FirstDue(t, a))
  <1> TAKE t \in TimeVal, a \in Action
  <1> DEFINE d == timespec_add(t, Interval(a))
  <1>1. d \in TimeVal /\ NotAfter(t, d)
    BY AddType, AddNotEarlier, IntervalFacts
  <1>2. FirstDue(t, a) = [d EXCEPT !.sec = @ + 1]
    BY DEF FirstDue
  <1> HIDE DEF d
  <1>3. QED
    BY <1>1, <1>2, SMT DEF TimeVal, NotAfter, Before
-----------------------------------------------------------------------------
(* The entry put back keeps its action and is due one interval later, at a *)
(* normalised time that is no earlier.                                     *)
LEMMA RescheduleFacts ==
    ASSUME NEW e \in Event
    PROVE  /\ reschedule(e) \in Event
           /\ reschedule(e).action = e.action
           /\ reschedule(e).trigger = timespec_add(e.trigger, Interval(e.action))
           /\ NotAfter(e.trigger, reschedule(e).trigger)
  <1>1. e.action \in Action /\ e.trigger \in TimeVal
    BY DEF Event
  <1>2. /\ timespec_add(e.trigger, Interval(e.action)) \in TimeVal
        /\ NotAfter(e.trigger, timespec_add(e.trigger, Interval(e.action)))
    BY <1>1, AddType, AddNotEarlier, IntervalFacts
  <1>3. reschedule(e) = [action |-> e.action,
                         trigger |-> timespec_add(e.trigger, Interval(e.action))]
    BY <1>1 DEF reschedule, Event
  <1>4. QED
    BY <1>1, <1>2, <1>3 DEF Event

(* The facts about the empty list, which TAILQ_INIT leaves behind.         *)
LEMMA EmptyList ==
    /\ <<>> \in Seq(Event) /\ ToSet(<<>>) = {} /\ ActionsOf(<<>>) = {}
    /\ InDueOrder(<<>>) /\ OneEntry(<<>>) /\ Len(<<>>) = 0
  BY DEF ToSet, ActionsOf, InDueOrder, OneEntry

(* The invariant holds before a thread has called initScheduler.           *)
LEMMA InitEstablishesInv == Init => SchedInv
  <1> SUFFICES ASSUME Init PROVE SchedInv
    OBVIOUS
  <1> USE DEF Init
  <1>1. Zero \in TimeVal
    BY NSECPositive, SMT DEF Zero, TimeVal
  <1>2. IsListOfActions(actionList)
    BY SchedulerAssumption
  <1>3. TypeOK
    BY <1>1, <1>2 DEF TypeOK, IsListOfActions
  <1>4. QED
    BY <1>2, <1>3, EmptyList
       DEF SchedInv, SortedByDueDate, OneEntryPerAction, OneEntry, FilledSoFar,
           EachActionOnce, NothingOverdueBeforeServed, DueWithinOneInterval

(* The invariant is kept by initScheduler up to its loop.                  *)
LEMMA InitBeginKeepsInv ==
    ASSUME SchedInv, NEW t \in TimeVal, InitBegin(t)
    PROVE  SchedInv'
  <1> USE DEF InitBegin
  <1>1. TypeOK'
    BY DEF SchedInv, TypeOK
  <1>2. IsListOfActions(actionList)'
    BY DEF SchedInv
  <1>3. FilledSoFar'
    <2>1. nextEvent' # NoEvent => NotAfter(nextEvent'.trigger, t)
      OBVIOUS
    <2>2. Len(actionList) \in Nat
      BY DEF SchedInv, TypeOK
    <2>3. QED
      BY <2>1, <2>2, EmptyList DEF FilledSoFar, SchedInv, IsListOfActions
  <1>4. QED
    BY <1>1, <1>2, <1>3, EmptyList
       DEF SchedInv, SortedByDueDate, OneEntryPerAction, OneEntry,
           EachActionOnce, NothingOverdueBeforeServed, DueWithinOneInterval

(* Taking the first action of the ones to insert.                          *)
LEMMA HeadOfActions ==
    ASSUME NEW s, IsListOfActions(s), s # <<>>
    PROVE  /\ Head(s) \in Action
           /\ IsListOfActions(Tail(s))
           /\ Len(Tail(s)) = Len(s) - 1
           /\ Head(s) \notin ToSet(Tail(s))
           /\ ToSet(s) = {Head(s)} \cup ToSet(Tail(s))
  <1> USE DEF IsListOfActions
  <1>1. /\ Head(s) \in Action /\ Tail(s) \in Seq(Action)
        /\ Len(Tail(s)) = Len(s) - 1 /\ Len(s) \in Nat \ {0}
    BY SMT
  <1>2. ASSUME NEW i \in DOMAIN Tail(s)
        PROVE  /\ i + 1 \in DOMAIN s /\ i + 1 # 1 /\ 1 \in DOMAIN s
               /\ Tail(s)[i] = s[i + 1] /\ i \in Nat
    BY <1>1, SMT
  <1>3. Head(s) = s[1] /\ 1 \in DOMAIN s
    BY <1>1, SMT
  <1>4. ASSUME NEW i \in DOMAIN s, i # 1
        PROVE  i - 1 \in DOMAIN Tail(s) /\ Tail(s)[i - 1] = s[i]
    BY <1>1, <1>4, SMT
  <1>5. IsListOfActions(Tail(s))
    <2> SUFFICES ASSUME NEW i \in DOMAIN Tail(s), NEW j \in DOMAIN Tail(s),
                        Tail(s)[i] = Tail(s)[j]
                 PROVE  i = j
      BY <1>1
    <2>1. i + 1 = j + 1
      BY <1>2
    <2>2. QED
      BY <1>2, <2>1, SMT
  <1>6. Head(s) \notin ToSet(Tail(s))
    BY <1>2, <1>3 DEF ToSet
  <1>7. ToSet(s) = {Head(s)} \cup ToSet(Tail(s))
    <2>1. ASSUME NEW i \in DOMAIN s
          PROVE  s[i] \in {Head(s)} \cup ToSet(Tail(s))
      BY <1>3, <1>4 DEF ToSet
    <2>2. ASSUME NEW i \in DOMAIN Tail(s) PROVE Tail(s)[i] \in ToSet(s)
      BY <1>2 DEF ToSet
    <2>3. Head(s) \in ToSet(s)
      BY <1>3 DEF ToSet
    <2>4. QED
      BY <2>1, <2>2, <2>3 DEF ToSet
  <1>8. QED
    BY <1>1, <1>5, <1>6, <1>7

(* The invariant is kept by a turn of the loop of initScheduler, the last  *)
(* of which makes the list ready.                                          *)
LEMMA InitInsertKeepsInv ==
    ASSUME SchedInv, InitInsert
    PROVE  SchedInv'
  <1> DEFINE a == Head(toInsert)
             e == [action |-> a, trigger |-> FirstDue(initTime, a)]
  <1>1. /\ sched = "filling" /\ toInsert # <<>> /\ IsListOfActions(toInsert)
        /\ nextEvent # NoEvent => NotAfter(nextEvent.trigger, initTime)
        /\ \A f \in ToSet(eventList) : f.trigger = FirstDue(initTime, f.action)
        /\ ActionsOf(eventList) \cap ToSet(toInsert) = {}
        /\ ActionsOf(eventList) \cup ToSet(toInsert) = ToSet(actionList)
        /\ Len(eventList) + Len(toInsert) = Len(actionList)
    BY DEF InitInsert, SchedInv, FilledSoFar
  <1>2. /\ eventList' = insertEventByDueDate(e, eventList)
        /\ toInsert' = Tail(toInsert)
        /\ sched' = IF Tail(toInsert) = <<>> THEN "ready" ELSE "filling"
        /\ UNCHANGED <<actionList, initTime, nextEvent, count>>
    BY DEF InitInsert
  <1>3. /\ a \in Action /\ IsListOfActions(Tail(toInsert))
        /\ Len(Tail(toInsert)) = Len(toInsert) - 1
        /\ a \notin ToSet(Tail(toInsert))
        /\ ToSet(toInsert) = {a} \cup ToSet(Tail(toInsert))
    BY <1>1, HeadOfActions
  <1>4. /\ initTime \in TimeVal /\ eventList \in Seq(Event)
        /\ nextEvent \in Event \cup {NoEvent} /\ actionList \in Seq(Action)
        /\ toInsert \in Seq(Action)
    BY DEF SchedInv, TypeOK
  <1>5. e \in Event /\ e.action = a /\ e.trigger = FirstDue(initTime, a)
    BY <1>3, <1>4, FirstDueFacts DEF Event
  <1> HIDE DEF e, a
  <1>6. /\ eventList' \in Seq(Event)
        /\ Len(eventList') = Len(eventList) + 1
        /\ ToSet(eventList') = ToSet(eventList) \cup {e}
    BY <1>2, <1>4, <1>5, InsertEntries, InsertContent
  <1>7. TypeOK'
    BY <1>2, <1>3, <1>6 DEF SchedInv, TypeOK, IsListOfActions
  <1>8. IsListOfActions(actionList)'
    BY <1>2 DEF SchedInv
  <1>9. SortedByDueDate'
    BY <1>2, <1>4, <1>5, InsertKeepsDueOrder DEF SchedInv, SortedByDueDate
  <1>10. OneEntryPerAction'
    <2>1. e.action \notin ActionsOf(eventList)
      BY <1>1, <1>3, <1>5
    <2>2. OneEntry(insertEventByDueDate(e, eventList))
      BY <1>4, <1>5, <2>1, InsertKeepsOneEntry
         DEF SchedInv, OneEntryPerAction, OneEntry
    <2>3. QED
      BY <1>2, <2>2 DEF OneEntryPerAction, OneEntry
  <1>11. ActionsOf(eventList') = ActionsOf(eventList) \cup {a}
    BY <1>5, <1>6 DEF ActionsOf
  <1>12. \A f \in ToSet(eventList') : f.trigger = FirstDue(initTime, f.action)
    BY <1>1, <1>5, <1>6
  <1>13. Len(eventList) \in Nat /\ Len(toInsert) \in Nat
    BY <1>4
  <1>14. ActionsOf(eventList') \cup ToSet(Tail(toInsert)) = ToSet(actionList)
    BY <1>1, <1>3, <1>11
  <1>15. FilledSoFar'
    <2>1. ActionsOf(eventList') \cap ToSet(Tail(toInsert)) = {}
      BY <1>1, <1>3, <1>11
    <2>2. Len(eventList') + Len(Tail(toInsert)) = Len(actionList)
      BY <1>1, <1>3, <1>6, <1>13, SMT
    <2>3. QED
      BY <1>1, <1>2, <1>3, <1>12, <1>14, <2>1, <2>2 DEF FilledSoFar
  <1>16. EachActionOnce'
    <2> SUFFICES ASSUME sched' = "ready" PROVE EachActionOnce'
      BY DEF EachActionOnce
    <2>1. Tail(toInsert) = <<>>
      BY <1>2
    <2>2. Len(toInsert) = 1
      <3>1. Len(Tail(toInsert)) = 0
        BY <2>1, EmptyList
      <3>2. QED
        BY <1>3, <1>13, <3>1, SMT
    <2>3. Len(eventList') = Len(actionList)
      BY <1>1, <1>6, <1>13, <2>2, SMT
    <2>4. eventList' # <<>>
      BY <1>6, <1>13, SMT
    <2>5. ActionsOf(eventList') = ToSet(actionList)
      BY <1>14, <2>1, EmptyList
    <2>6. QED
      BY <1>2, <2>3, <2>4, <2>5 DEF EachActionOnce
  <1>17. \A f \in ToSet(eventList') : f \in Event /\ f.action \in Action
    <2>1. ToSet(eventList') \subseteq Event
      BY <1>6 DEF ToSet
    <2>2. QED
      BY <2>1 DEF Event
  <1>18. NothingOverdueBeforeServed'
    <2> SUFFICES ASSUME nextEvent # NoEvent, NEW f \in ToSet(eventList')
                 PROVE  NotAfter(nextEvent.trigger, f.trigger)
      BY <1>2 DEF NothingOverdueBeforeServed
    <2>1. nextEvent.trigger \in TimeVal
      BY <1>4 DEF Event
    <2>2. /\ f.trigger = FirstDue(initTime, f.action)
          /\ FirstDue(initTime, f.action) \in TimeVal
          /\ NotAfter(initTime, FirstDue(initTime, f.action))
      BY <1>4, <1>12, <1>17, FirstDueFacts
    <2>3. NotAfter(nextEvent.trigger, initTime)
      BY <1>1
    <2>4. QED
      BY <1>4, <2>1, <2>2, <2>3, NotAfterTransitive
  <1>19. DueWithinOneInterval'
    <2> SUFFICES ASSUME NEW f \in ToSet(eventList')
                 PROVE  NotAfter(f.trigger, FirstDue(initTime, f.action))
      BY <1>2 DEF DueWithinOneInterval
    <2>1. /\ f.trigger = FirstDue(initTime, f.action)
          /\ FirstDue(initTime, f.action) \in TimeVal
      BY <1>4, <1>12, <1>17, FirstDueFacts
    <2>2. QED
      BY <2>1, BeforeIrreflexive DEF NotAfter
  <1>20. QED
    BY <1>7, <1>8, <1>9, <1>10, <1>15, <1>16, <1>18, <1>19 DEF SchedInv

(* The invariant is kept by getNextEvent, which returns an event that is   *)
(* due no earlier than the one before.                                     *)
LEMMA GetNextEventKeepsInv ==
    ASSUME SchedInv, GetNextEvent
    PROVE  /\ SchedInv'
           /\ nextEvent # NoEvent
                => NotAfter(nextEvent.trigger, nextEvent'.trigger)
  <1> DEFINE e == Head(eventList)
             T == Tail(eventList)
             n == reschedule(e)
  <1>1. /\ sched = "ready" /\ eventList # <<>>
        /\ nextEvent' = e
        /\ eventList' = insertEventByDueDate(n, T)
        /\ count' = [count EXCEPT ![e.action] = @ + 1]
        /\ UNCHANGED <<actionList, sched, toInsert, initTime>>
    BY DEF GetNextEvent
  <1>2. /\ eventList \in Seq(Event) /\ actionList \in Seq(Action)
        /\ nextEvent \in Event \cup {NoEvent} /\ initTime \in TimeVal
        /\ count \in [Action -> Nat]
    BY DEF SchedInv, TypeOK
  <1>3. /\ e \in Event /\ T \in Seq(Event) /\ Len(T) = Len(eventList) - 1
        /\ ToSet(eventList) = {e} \cup ToSet(T) /\ ToSet(eventList) \subseteq Event
    BY <1>1, <1>2, HeadAndTail
  <1>4. /\ \A f \in ToSet(eventList) : NotAfter(e.trigger, f.trigger)
        /\ InDueOrder(T)
    BY <1>1, <1>2, HeadIsEarliest DEF SchedInv, SortedByDueDate
  <1>5. OneEntry(T) /\ e.action \notin ActionsOf(T)
    BY <1>1, <1>2, TailKeepsOneEntry DEF SchedInv, OneEntryPerAction, OneEntry
  <1>6. /\ n \in Event /\ n.action = e.action
        /\ n.trigger = timespec_add(e.trigger, Interval(e.action))
        /\ NotAfter(e.trigger, n.trigger)
    BY <1>3, RescheduleFacts
  <1>7. e.action \in Action /\ e.trigger \in TimeVal
    BY <1>3 DEF Event
  <1> HIDE DEF n, e, T
  <1>8. /\ eventList' \in Seq(Event)
        /\ Len(eventList') = Len(T) + 1
        /\ ToSet(eventList') = ToSet(T) \cup {n}
    BY <1>1, <1>3, <1>6, InsertEntries, InsertContent
  <1>9. TypeOK'
    BY <1>1, <1>3, <1>7, <1>8 DEF SchedInv, TypeOK
  <1>10. SortedByDueDate'
    BY <1>1, <1>3, <1>4, <1>6, InsertKeepsDueOrder DEF SortedByDueDate
  <1>11. OneEntryPerAction'
    <2>1. OneEntry(insertEventByDueDate(n, T))
      BY <1>3, <1>5, <1>6, InsertKeepsOneEntry
    <2>2. QED
      BY <1>1, <2>1 DEF OneEntryPerAction, OneEntry
  <1>12. EachActionOnce'
    <2>1. ActionsOf(eventList') = ActionsOf(eventList)
      BY <1>3, <1>6, <1>8 DEF ActionsOf
    <2>2. Len(eventList) \in Nat /\ Len(T) \in Nat
      BY <1>2, <1>3
    <2>3. Len(eventList') = Len(eventList) /\ Len(eventList') # 0
      BY <1>3, <1>8, <2>2, SMT
    <2>4. eventList' # <<>>
      BY <2>3, EmptyList
    <2>5. QED
      BY <1>1, <2>1, <2>3, <2>4 DEF SchedInv, EachActionOnce
  <1>13. nextEvent # NoEvent => NotAfter(nextEvent.trigger, e.trigger)
    BY <1>1, <1>3 DEF SchedInv, NothingOverdueBeforeServed
  <1>14. NothingOverdueBeforeServed'
    BY <1>1, <1>3, <1>4, <1>6, <1>8 DEF NothingOverdueBeforeServed
  <1>15. DueWithinOneInterval'
    <2> SUFFICES ASSUME NEW f \in ToSet(eventList')
                 PROVE  \/ NotAfter(f.trigger, FirstDue(initTime, f.action))
                        \/ NotAfter(f.trigger,
                                    timespec_add(e.trigger, Interval(f.action)))
      <3>1. e # NoEvent
        BY <1>3, SchedulerAssumption DEF Event
      <3>2. QED
        BY <1>1, <3>1 DEF DueWithinOneInterval
    <2>1. CASE f = n
      <3>1. n.trigger \in TimeVal
        BY <1>6 DEF Event
      <3>2. QED
        BY <1>6, <2>1, <3>1, BeforeIrreflexive DEF NotAfter
    <2>2. CASE f \in ToSet(T)
      <3>1. /\ f \in ToSet(eventList)
            /\ f.action \in Action /\ f.trigger \in TimeVal
        BY <1>3, <2>2 DEF Event
      <3>2. CASE NotAfter(f.trigger, FirstDue(initTime, f.action))
        BY <3>2
      <3>3. CASE /\ nextEvent # NoEvent
                 /\ NotAfter(f.trigger,
                        timespec_add(nextEvent.trigger, Interval(f.action)))
        <4>1. nextEvent.trigger \in TimeVal /\ Interval(f.action) \in TimeVal
          BY <1>2, <3>1, <3>3, IntervalFacts DEF Event
        <4>2. NotAfter(timespec_add(nextEvent.trigger, Interval(f.action)),
                       timespec_add(e.trigger, Interval(f.action)))
          BY <1>7, <1>13, <3>3, <4>1, AddMonotone
        <4>3. QED
          BY <1>7, <3>1, <3>3, <4>1, <4>2, AddType, NotAfterTransitive
      <3>4. QED
        BY <3>1, <3>2, <3>3 DEF SchedInv, DueWithinOneInterval
    <2>3. QED
      BY <1>8, <2>1, <2>2
  <1>16. IsListOfActions(actionList)' /\ FilledSoFar'
    BY <1>1 DEF SchedInv, FilledSoFar
  <1>17. QED
    BY <1>1, <1>9, <1>10, <1>11, <1>12, <1>13, <1>14, <1>15, <1>16 DEF SchedInv

(* The steps after which the list is empty or untouched.                   *)
LEMMA EmptyListKeepsInv ==
    ASSUME SchedInv, InitNoActions \/ InitMallocFails \/ ConnectionLost
    PROVE  SchedInv'
  <1>1. CASE InitNoActions
    BY <1>1 DEF InitNoActions, SchedInv, TypeOK, SortedByDueDate,
                OneEntryPerAction, FilledSoFar, EachActionOnce,
                NothingOverdueBeforeServed, DueWithinOneInterval
  <1>2. CASE InitMallocFails \/ ConnectionLost
    <2>1. /\ eventList' = <<>> /\ sched' \in {"idle", "failed"}
          /\ toInsert' \in {<<>>, toInsert}
          /\ UNCHANGED <<actionList, initTime, nextEvent, count>>
      BY <1>2 DEF InitMallocFails, ConnectionLost
    <2>2. TypeOK'
      <3>1. <<>> \in Seq(Action)
        OBVIOUS
      <3>2. QED
        BY <2>1, <3>1, EmptyList DEF SchedInv, TypeOK
    <2>3. QED
      BY <2>1, <2>2, EmptyList
         DEF SchedInv, SortedByDueDate, OneEntryPerAction, OneEntry,
             FilledSoFar, EachActionOnce, NothingOverdueBeforeServed,
             DueWithinOneInterval
  <1>3. QED
    BY <1>1, <1>2

(* SchedInv is inductive: every step of the thread on its list keeps it.   *)
LEMMA NextKeepsInv == SchedInv /\ [Next]_schedVars => SchedInv'
  <1> SUFFICES ASSUME SchedInv, [Next]_schedVars PROVE SchedInv'
    OBVIOUS
  <1>1. CASE InitNoActions \/ InitMallocFails \/ ConnectionLost
    BY <1>1, EmptyListKeepsInv
  <1>2. CASE \E t \in Clock : InitBegin(t)
    BY <1>2, InitBeginKeepsInv, SchedulerAssumption
  <1>3. CASE InitInsert
    BY <1>3, InitInsertKeepsInv
  <1>4. CASE GetNextEvent
    BY <1>4, GetNextEventKeepsInv
  <1>5. CASE UNCHANGED schedVars
    BY <1>5 DEF schedVars, SchedInv, TypeOK, SortedByDueDate,
                OneEntryPerAction, FilledSoFar, EachActionOnce,
                NothingOverdueBeforeServed, DueWithinOneInterval
  <1>6. QED
    BY <1>1, <1>2, <1>3, <1>4, <1>5 DEF Next

(* The inductive invariant holds in every reachable state of the scheduler *)
(* (initScheduler, getNextEvent and what they call).                       *)
THEOREM SchedulerInvariant == Spec => []SchedInv
  <1>1. QED
    BY InitEstablishesInv, NextKeepsInv, PTL DEF Spec

(* Type correctness of the scheduler's variables.                          *)
THEOREM TypeCorrect == Spec => []TypeOK
  <1>1. SchedInv => TypeOK
    BY DEF SchedInv
  <1>2. QED
    BY <1>1, SchedulerInvariant, PTL

(* The list is in due order whenever it is looked at: the head that        *)
(* determineNextEvent takes is an earliest event.                          *)
THEOREM DueOrder == Spec => []SortedByDueDate
  <1>1. SchedInv => SortedByDueDate
    BY DEF SchedInv
  <1>2. QED
    BY <1>1, SchedulerInvariant, PTL

(* No action is ever lost from or duplicated in the list, and the device   *)
(* loops never call getNextEvent on an empty one.                          *)
THEOREM NoActionLost == Spec => []EachActionOnce
  <1>1. SchedInv => EachActionOnce
    BY DEF SchedInv
  <1>2. QED
    BY <1>1, SchedulerInvariant, PTL

(* No action starves: its due date is never more than one of its intervals *)
(* after that of the event served last.                                    *)
THEOREM NoStarvation == Spec => []DueWithinOneInterval
  <1>1. SchedInv => DueWithinOneInterval
    BY DEF SchedInv
  <1>2. QED
    BY <1>1, SchedulerInvariant, PTL

(* The due dates of the events served never go backwards.                  *)
THEOREM DueDatesMonotone == Spec => ServedInDueOrder
  <1>1. SchedInv /\ [Next]_schedVars =>
           [nextEvent # NoEvent
              => NotAfter(nextEvent.trigger, nextEvent'.trigger)]_nextEvent
    <2> SUFFICES ASSUME SchedInv, [Next]_schedVars, nextEvent' # nextEvent
                 PROVE  nextEvent # NoEvent
                          => NotAfter(nextEvent.trigger, nextEvent'.trigger)
      OBVIOUS
    <2>1. GetNextEvent
      BY DEF Next, schedVars, InitNoActions, InitBegin, InitInsert,
             InitMallocFails, ConnectionLost
    <2>2. QED
      BY <2>1, GetNextEventKeepsInv
  <1>2. QED
    BY <1>1, SchedulerInvariant, PTL DEF Spec, ServedInDueOrder
-----------------------------------------------------------------------------
(* The schedule in nanoseconds.  Every entry of the list is due where its  *)
(* action's count of services puts it, and no action has been served later *)
(* than the event served last: together they carry NoDrift and RateFair.   *)
DueAt(n, a) == Ns(initTime) + NSEC + n * NSUS * Interval_us[a]

DriftInv ==
    /\ \A e \in ToSet(eventList) :
           Ns(e.trigger) = DueAt(count[e.action] + 1, e.action)
    /\ sched = "filling" => \A a \in Action : count[a] = 0

ServedInv ==
    \A a \in Action : count[a] # 0 =>
        /\ nextEvent # NoEvent
        /\ DueAt(count[a], a) <= Ns(nextEvent.trigger)

RateInv == DriftInv /\ ServedInv

(* One more interval, as determineNextEvent adds it.                       *)
LEMMA DueAtNext ==
    ASSUME NEW n \in Nat, NEW a \in Action, initTime \in TimeVal
    PROVE  /\ DueAt(n, a) \in Nat
           /\ DueAt(n + 1, a) = DueAt(n, a) + NSUS * Interval_us[a]
           /\ NSUS * Interval_us[a] \in Nat
  <1> DEFINE k == NSUS
             i == Interval_us[a]
  <1>1. k \in Nat /\ i \in Nat
    BY UnitAssumption, SchedulerAssumption
  <1>2. Ns(initTime) \in Nat /\ NSEC \in Nat
    BY NsType, NSECPositive
  <1> HIDE DEF k, i
  <1>3. (n + 1) * k = n * k + k /\ n * k \in Nat
    BY <1>1
  <1>4. \A x, y \in Nat : (x + y) * i = x * i + y * i /\ x * i \in Nat
    BY <1>1
  <1>5. (n + 1) * k * i = n * k * i + k * i /\ n * k * i \in Nat /\ k * i \in Nat
    BY <1>1, <1>3, <1>4
  <1>6. /\ DueAt(n, a) = Ns(initTime) + NSEC + n * k * i
        /\ DueAt(n + 1, a) = Ns(initTime) + NSEC + (n + 1) * k * i
        /\ NSUS * Interval_us[a] = k * i
    BY DEF DueAt, k, i
  <1>7. QED
    BY <1>2, <1>5, <1>6

(* initScheduler's first due date is that of an action not yet served.     *)
LEMMA FirstDueAt ==
    ASSUME NEW a \in Action, initTime \in TimeVal
    PROVE  Ns(FirstDue(initTime, a)) = DueAt(0 + 1, a)
  <1> DEFINE d == timespec_add(initTime, Interval(a))
             N == NSEC
             s == Ns(initTime)
             p == NSUS * Interval_us[a]
  <1>1. d \in TimeVal /\ Ns(d) = s + p
    <2>1. Interval_us[a] \in Nat \ {0} /\ Interval(a) \in TimeVal
      BY SchedulerAssumption, IntervalFacts
    <2>2. Ns(Interval(a)) = p
      BY <2>1, NsOfInterval DEF Interval
    <2>3. QED
      BY <2>1, <2>2, AddType, NsOfSum
  <1>2. FirstDue(initTime, a) = [d EXCEPT !.sec = @ + 1]
    BY DEF FirstDue
  <1>3. DueAt(0 + 1, a) = s + N + p
    <2>1. /\ DueAt(0 + 1, a) = DueAt(0, a) + p /\ p \in Nat
          /\ DueAt(0, a) = s + N + 0 * NSUS * Interval_us[a]
      BY DueAtNext DEF DueAt
    <2>2. 0 * NSUS * Interval_us[a] = 0
      BY UnitAssumption, SchedulerAssumption
    <2>3. s \in Nat /\ N \in Nat
      BY NsType, NSECPositive
    <2> HIDE DEF s, N, p
    <2>4. QED
      BY <2>1, <2>2, <2>3
  <1>4. Ns(d) \in Nat /\ N \in Nat /\ s \in Nat
    BY <1>1, NsType, NSECPositive
  <1>5. /\ Ns(d) = d.sec * N + d.nsec
        /\ Ns([d EXCEPT !.sec = @ + 1]) = (d.sec + 1) * N + d.nsec
        /\ d.sec \in Nat /\ d.nsec \in Nat
    BY <1>1, NSECPositive DEF Ns, TimeVal
  <1>6. p \in Nat
    BY DueAtNext
  <1> HIDE DEF d, N, s, p
  <1>7. (d.sec + 1) * N = d.sec * N + N /\ d.sec * N \in Nat
    BY <1>4, <1>5
  <1>8. QED
    BY <1>1, <1>2, <1>3, <1>4, <1>5, <1>6, <1>7

(* No action is served and no list is there at the start and at the head   *)
(* of initScheduler.                                                       *)
LEMMA StartKeepsRate ==
    /\ Init => RateInv
    /\ \A t : InitBegin(t) => RateInv'
  <1>1. Init => RateInv
    BY EmptyList DEF Init, RateInv, DriftInv, ServedInv
  <1>2. ASSUME NEW t, InitBegin(t) PROVE RateInv'
    BY <1>2, EmptyList DEF InitBegin, RateInv, DriftInv, ServedInv
  <1>3. QED
    BY <1>1, <1>2

(* A turn of the loop of initScheduler puts the entry where it belongs.    *)
LEMMA InitInsertKeepsRate ==
    ASSUME SchedInv, RateInv, InitInsert
    PROVE  RateInv'
  <1> DEFINE a == Head(toInsert)
             e == [action |-> a, trigger |-> FirstDue(initTime, a)]
  <1>1. /\ sched = "filling"
        /\ eventList' = insertEventByDueDate(e, eventList)
        /\ UNCHANGED <<actionList, initTime, nextEvent, count>>
    BY DEF InitInsert
  <1>2. /\ initTime \in TimeVal /\ eventList \in Seq(Event) /\ a \in Action
    BY <1>1, HeadOfActions DEF SchedInv, TypeOK, FilledSoFar
  <1>3. e \in Event /\ e.action = a /\ e.trigger = FirstDue(initTime, a)
    BY <1>2, FirstDueFacts DEF Event
  <1>4. count[a] = 0
    BY <1>1, <1>2 DEF RateInv, DriftInv
  <1> HIDE DEF e, a
  <1>5. ToSet(eventList') = ToSet(eventList) \cup {e}
    BY <1>1, <1>2, <1>3, InsertContent
  <1>6. Ns(e.trigger) = DueAt(count[e.action] + 1, e.action)
    BY <1>2, <1>3, <1>4, FirstDueAt
  <1>7. DriftInv'
    <2>1. \A n, b : DueAt(n, b)' = DueAt(n, b)
      BY <1>1 DEF DueAt
    <2>2. \A f \in ToSet(eventList') :
              Ns(f.trigger) = DueAt(count[f.action] + 1, f.action)
      BY <1>5, <1>6 DEF RateInv, DriftInv
    <2>3. \A b \in Action : count[b] = 0
      BY <1>1 DEF RateInv, DriftInv
    <2>4. QED
      BY <1>1, <2>2, <2>3 DEF DriftInv, DueAt
  <1>8. ServedInv'
    BY <1>1 DEF RateInv, ServedInv, DueAt
  <1>9. QED
    BY <1>7, <1>8 DEF RateInv

(* getNextEvent counts one more service of its action and makes it due one *)
(* interval later; the others are not due before the event it returns.     *)
LEMMA GetNextEventKeepsRate ==
    ASSUME SchedInv, RateInv, GetNextEvent
    PROVE  RateInv'
  <1> DEFINE e == Head(eventList)
             T == Tail(eventList)
             n == reschedule(e)
             a == e.action
  <1>1. /\ sched = "ready" /\ eventList # <<>>
        /\ nextEvent' = e
        /\ eventList' = insertEventByDueDate(n, T)
        /\ count' = [count EXCEPT ![a] = @ + 1]
        /\ UNCHANGED <<actionList, sched, toInsert, initTime>>
    BY DEF GetNextEvent
  <1>2. /\ eventList \in Seq(Event) /\ nextEvent \in Event \cup {NoEvent}
        /\ initTime \in TimeVal /\ count \in [Action -> Nat]
    BY DEF SchedInv, TypeOK
  <1>3. /\ e \in Event /\ T \in Seq(Event)
        /\ ToSet(eventList) = {e} \cup ToSet(T) /\ ToSet(eventList) \subseteq Event
    BY <1>1, <1>2, HeadAndTail
  <1>4. a \notin ActionsOf(T)
    BY <1>1, <1>2, TailKeepsOneEntry DEF SchedInv, OneEntryPerAction, OneEntry
  <1>5. /\ n \in Event /\ n.action = a
        /\ n.trigger = timespec_add(e.trigger, Interval(a))
    BY <1>3, RescheduleFacts
  <1>6. a \in Action /\ e.trigger \in TimeVal
    BY <1>3 DEF Event
  <1>7. e # NoEvent
    BY <1>3, SchedulerAssumption DEF Event
  <1>8. nextEvent # NoEvent => NotAfter(nextEvent.trigger, e.trigger)
    BY <1>1, <1>3 DEF SchedInv, NothingOverdueBeforeServed
  <1>9. Ns(e.trigger) = DueAt(count[a] + 1, a)
    BY <1>3 DEF RateInv, DriftInv
  <1> HIDE DEF n, e, T, a
  <1>10. ToSet(eventList') = ToSet(T) \cup {n}
    BY <1>1, <1>3, <1>5, InsertContent
  <1>11. Ns(n.trigger) = DueAt(count[a] + 1 + 1, a)
    <2>1. Interval_us[a] \in Nat \ {0} /\ Interval(a) \in TimeVal
      BY <1>6, SchedulerAssumption, IntervalFacts
    <2>2. Ns(Interval(a)) = NSUS * Interval_us[a]
      BY <2>1, NsOfInterval DEF Interval
    <2>3. Ns(n.trigger) = Ns(e.trigger) + NSUS * Interval_us[a]
      BY <1>5, <1>6, <2>1, <2>2, NsOfSum
    <2>4. count[a] + 1 \in Nat
      BY <1>2, <1>6
    <2>5. QED
      BY <1>2, <1>6, <1>9, <2>3, <2>4, DueAtNext
  <1>12. \A b \in Action : count'[b] = IF b = a THEN count[b] + 1 ELSE count[b]
    BY <1>1, <1>2
  <1>13. DriftInv'
    <2>1. ASSUME NEW f \in ToSet(eventList')
          PROVE  Ns(f.trigger) = DueAt(count'[f.action] + 1, f.action)
      <3>1. CASE f = n
        BY <1>5, <1>6, <1>11, <1>12, <3>1
      <3>2. CASE f \in ToSet(T)
        <4>1. f.action # a /\ f.action \in Action
          BY <1>3, <1>4, <3>2 DEF ActionsOf, Event
        <4>2. Ns(f.trigger) = DueAt(count[f.action] + 1, f.action)
          BY <1>3, <3>2 DEF RateInv, DriftInv
        <4>3. QED
          BY <1>12, <4>1, <4>2
      <3>3. QED
        BY <1>10, <3>1, <3>2
    <2>2. QED
      BY <1>1, <2>1 DEF DriftInv, DueAt
  <1>14. ServedInv'
    <2>1. ASSUME NEW b \in Action, count'[b] # 0
          PROVE  DueAt(count'[b], b) <= Ns(e.trigger)
      <3>1. CASE b = a
        <4>1. count[a] + 1 \in Nat
          BY <1>2, <1>6
        <4>2. DueAt(count[a] + 1, a) \in Nat
          BY <1>2, <1>6, <4>1, DueAtNext
        <4>3. QED
          BY <1>6, <1>9, <1>12, <3>1, <4>2
      <3>2. CASE b # a
        <4>1. count'[b] = count[b]
          BY <1>12, <3>2
        <4>2. nextEvent # NoEvent /\ DueAt(count[b], b) <= Ns(nextEvent.trigger)
          BY <2>1, <4>1 DEF RateInv, ServedInv
        <4>3. nextEvent.trigger \in TimeVal
          BY <1>2, <4>2 DEF Event
        <4>4. Ns(nextEvent.trigger) <= Ns(e.trigger)
          BY <1>6, <1>8, <4>2, <4>3, NsOrder
        <4>5. /\ Ns(nextEvent.trigger) \in Nat /\ Ns(e.trigger) \in Nat
              /\ DueAt(count[b], b) \in Nat
          BY <1>2, <1>6, <4>3, NsType, DueAtNext
        <4>6. QED
          BY <4>1, <4>2, <4>4, <4>5
      <3>3. QED
        BY <3>1, <3>2
    <2>2. QED
      BY <1>1, <1>7, <2>1 DEF ServedInv, DueAt
  <1>15. QED
    BY <1>13, <1>14 DEF RateInv

(* An empty list has no due dates to be wrong.                             *)
LEMMA EmptyListKeepsRate ==
    ASSUME RateInv, InitNoActions \/ InitMallocFails \/ ConnectionLost
    PROVE  RateInv'
  BY EmptyList DEF InitNoActions, InitMallocFails, ConnectionLost,
                   RateInv, DriftInv, ServedInv, DueAt

(* RateInv is inductive together with SchedInv.                            *)
LEMMA NextKeepsRate == SchedInv /\ RateInv /\ [Next]_schedVars => RateInv'
  <1> SUFFICES ASSUME SchedInv, RateInv, [Next]_schedVars PROVE RateInv'
    OBVIOUS
  <1>1. CASE InitNoActions \/ InitMallocFails \/ ConnectionLost
    BY <1>1, EmptyListKeepsRate
  <1>2. CASE \E t \in Clock : InitBegin(t)
    BY <1>2, StartKeepsRate
  <1>3. CASE InitInsert
    BY <1>3, InitInsertKeepsRate
  <1>4. CASE GetNextEvent
    BY <1>4, GetNextEventKeepsRate
  <1>5. CASE UNCHANGED schedVars
    BY <1>5 DEF schedVars, RateInv, DriftInv, ServedInv, DueAt
  <1>6. QED
    BY <1>1, <1>2, <1>3, <1>4, <1>5 DEF Next

(* Every entry of the list is due a whole number of intervals after the    *)
(* start of the schedule, one more than its services, and what was served  *)
(* was due (timespec_add in determineNextEvent and initScheduler).         *)
THEOREM RateInvariant == Spec => []RateInv
  <1>1. Init => RateInv
    BY StartKeepsRate
  <1>2. QED
    BY <1>1, NextKeepsRate, SchedulerInvariant, PTL DEF Spec

(* The schedule does not drift: due dates are whole intervals apart,       *)
(* whatever the carries of timespec_add.                                   *)
THEOREM ScheduleDoesNotDrift == Spec => []NoDrift
  <1>1. RateInv => NoDrift
    BY DEF RateInv, DriftInv, NoDrift, DueAt
  <1>2. QED
    BY <1>1, RateInvariant, PTL

(* No action is served more often than its rate against any other allows:  *)
(* the one served last was due no later than the other's outstanding date. *)
LEMMA RatesCompared ==
    ASSUME SchedInv, RateInv, sched = "ready",
           NEW a \in ToSet(actionList), NEW b \in ToSet(actionList)
    PROVE  count[b] * Interval_us[b] <= (count[a] + 1) * Interval_us[a]
  <1> DEFINE x == count[b] * Interval_us[b]
             y == (count[a] + 1) * Interval_us[a]
  <1>1. /\ a \in Action /\ b \in Action /\ initTime \in TimeVal
        /\ count[a] \in Nat /\ count[b] \in Nat
        /\ Interval_us[a] \in Nat /\ Interval_us[b] \in Nat
        /\ nextEvent \in Event \cup {NoEvent} /\ eventList \in Seq(Event)
    BY SchedulerAssumption DEF SchedInv, TypeOK, ToSet
  <1>2. x \in Nat /\ y \in Nat
    BY <1>1
  <1>3. CASE count[b] = 0
    BY <1>1, <1>2, <1>3
  <1>4. CASE count[b] # 0
    <2>1. nextEvent # NoEvent /\ DueAt(count[b], b) <= Ns(nextEvent.trigger)
      BY <1>1, <1>4 DEF RateInv, ServedInv
    <2>2. PICK f \in ToSet(eventList) : f.action = a
      BY DEF SchedInv, EachActionOnce, ActionsOf
    <2>3. /\ NotAfter(nextEvent.trigger, f.trigger)
          /\ Ns(f.trigger) = DueAt(count[a] + 1, a)
      BY <2>1, <2>2
         DEF SchedInv, NothingOverdueBeforeServed, RateInv, DriftInv
    <2>4. f \in Event /\ nextEvent.trigger \in TimeVal /\ f.trigger \in TimeVal
      <3>1. f \in Event /\ nextEvent \in Event
        BY <1>1, <2>1 DEF ToSet
      <3>2. QED
        BY <3>1 DEF Event
    <2>5. /\ Ns(nextEvent.trigger) <= Ns(f.trigger)
          /\ Ns(nextEvent.trigger) \in Nat /\ Ns(f.trigger) \in Nat
      BY <2>3, <2>4, NsOrder, NsType
    <2>6. count[a] + 1 \in Nat
      BY <1>1
    <2>7. DueAt(count[b], b) \in Nat /\ DueAt(count[a] + 1, a) \in Nat
      BY <1>1, <2>6, DueAtNext
    <2>8. DueAt(count[b], b) <= DueAt(count[a] + 1, a)
      BY <2>1, <2>3, <2>5, <2>7
    <2>9. \A n, i \in Nat : n * NSUS * i = NSUS * (n * i) /\ NSUS * (n * i) \in Nat
      BY UnitAssumption
    <2>10. /\ DueAt(count[b], b) = Ns(initTime) + NSEC + NSUS * x
           /\ DueAt(count[a] + 1, a) = Ns(initTime) + NSEC + NSUS * y
           /\ NSUS * x \in Nat /\ NSUS * y \in Nat
      BY <1>1, <2>6, <2>9 DEF DueAt
    <2>11. Ns(initTime) \in Nat /\ NSEC \in Nat
      BY <1>1, NsType, NSECPositive
    <2> HIDE DEF x, y
    <2>12. NSUS * x <= NSUS * y
      BY <2>8, <2>10, <2>11
    <2>13. x <= y
      BY <1>2, <2>12, UnitAssumption, Divided
    <2>14. QED
      BY <2>13 DEF x, y
  <1>5. QED
    BY <1>3, <1>4

(* Rate fairness, for every set of actions and intervals.                  *)
THEOREM RatesAreFair == Spec => []RateFair
  <1>1. SchedInv /\ RateInv => RateFair
    BY RatesCompared DEF RateFair
  <1>2. QED
    BY <1>1, SchedulerInvariant, RateInvariant, PTL

-----------------------------------------------------------------------------
(* The operators of the abstract dispatcher are those of the scheduler.    *)
LEMMA SameOperators ==
    /\ \A t, a : PD!FirstDue(t, a) = FirstDue(t, a)
    /\ \A e \in Event : PD!NextDue(e) = reschedule(e)
    /\ \A s, t : PD!NotAfter(s, t) = NotAfter(s, t)
  <1>1. \A s, t : PD!timespec_add(s, t) = timespec_add(s, t)
    BY DEF PD!timespec_add, timespec_add, PD!NSEC, NSEC
  <1>2. \A a : PD!Interval(a) = Interval(a)
    BY DEF PD!Interval, Interval, PD!us_to_timespec, us_to_timespec
  <1>3. \A t, a : PD!FirstDue(t, a) = FirstDue(t, a)
    BY <1>1, <1>2 DEF PD!FirstDue, FirstDue
  <1>4. \A e \in Event : PD!NextDue(e) = reschedule(e)
    BY <1>1, <1>2 DEF PD!NextDue, reschedule
  <1>5. \A s, t : PD!NotAfter(s, t) = NotAfter(s, t)
    BY DEF PD!NotAfter, NotAfter, PD!Before, Before
  <1>6. QED
    BY <1>3, <1>4, <1>5

(* The time initScheduler starts from is a reading of the clock.           *)
FilledFromClock == sched = "filling" => initTime \in Clock

(* InitBegin takes its time from the clock and InitInsert keeps it.        *)
LEMMA ClockInvariant == Spec => []FilledFromClock
  <1>1. Init => FilledFromClock
    BY DEF Init, FilledFromClock
  <1>2. FilledFromClock /\ [Next]_schedVars => FilledFromClock'
    BY DEF FilledFromClock, Next, schedVars, InitNoActions, InitBegin,
           InitInsert, InitMallocFails, GetNextEvent, ConnectionLost
  <1>3. QED
    BY <1>1, <1>2, PTL DEF Spec

(* The last turn of initScheduler's loop starts the abstract schedule.     *)
LEMMA FilledIsStart ==
    ASSUME SchedInv, FilledFromClock, InitInsert, Tail(toInsert) = <<>>
    PROVE  PD!PDNext
  <1> DEFINE A == ToSet(actionList)
  <1>1. SchedInv'
    BY InitInsertKeepsInv
  <1>2. /\ sched = "filling" /\ sched' = "ready"
        /\ initTime \in Clock
        /\ nextEvent # NoEvent => NotAfter(nextEvent.trigger, initTime)
        /\ \A f \in ToSet(eventList) : f.trigger = FirstDue(initTime, f.action)
        /\ UNCHANGED <<actionList, initTime, nextEvent>>
    BY DEF SchedInv, FilledSoFar, FilledFromClock, InitInsert
  <1>3. ActionsOf(eventList') = A
    BY <1>1, <1>2 DEF SchedInv, EachActionOnce
  <1>4. \A f \in ToSet(eventList') :
            f = [action |-> f.action, trigger |-> FirstDue(initTime, f.action)]
    <2> DEFINE a == Head(toInsert)
               e == [action |-> a, trigger |-> FirstDue(initTime, a)]
    <2>1. a \in Action /\ initTime \in TimeVal /\ eventList \in Seq(Event)
      BY HeadOfActions DEF SchedInv, TypeOK, FilledSoFar, InitInsert
    <2>2. e \in Event /\ e.action = a /\ e.trigger = FirstDue(initTime, a)
      BY <2>1, FirstDueFacts DEF Event
    <2>3. ToSet(eventList') = ToSet(eventList) \cup {e}
      BY <2>1, <2>2, InsertContent DEF InitInsert
    <2>4. \A f \in ToSet(eventList) :
              f \in Event /\ f.trigger = FirstDue(initTime, f.action)
      BY <1>2, <2>1 DEF ToSet
    <2>5. QED
      BY <2>2, <2>3, <2>4 DEF Event
  <1>5. ToSet(eventList') =
            {[action |-> a, trigger |-> FirstDue(initTime, a)] : a \in A}
    BY <1>3, <1>4 DEF ActionsOf
  <1>6. PD!Start(A, initTime)
    BY <1>2, <1>5, SameOperators DEF PD!Start
  <1>7. A \in SUBSET Action
    BY DEF SchedInv, TypeOK, ToSet
  <1>8. QED
    BY <1>2, <1>6, <1>7 DEF PD!PDNext

(* A call of getNextEvent is a Serve of the abstract dispatcher, for the   *)
(* event it returns.                                                       *)
LEMMA GetNextEventIsServe ==
    ASSUME SchedInv, GetNextEvent
    PROVE  PD!PDNext
  <1> DEFINE e == Head(eventList)
             T == Tail(eventList)
             n == reschedule(e)
  <1>1. /\ sched = "ready" /\ sched' = "ready" /\ eventList # <<>>
        /\ nextEvent' = e /\ eventList' = insertEventByDueDate(n, T)
        /\ eventList \in Seq(Event)
    BY DEF GetNextEvent, SchedInv, TypeOK
  <1>2. /\ e \in Event /\ T \in Seq(Event)
        /\ ToSet(eventList) = {e} \cup ToSet(T)
    BY <1>1, HeadAndTail
  <1>3. \A f \in ToSet(eventList) : NotAfter(e.trigger, f.trigger)
    BY <1>1, HeadIsEarliest DEF SchedInv, SortedByDueDate
  <1>4. e \notin ToSet(T)
    BY <1>1, TailKeepsOneEntry
       DEF SchedInv, OneEntryPerAction, OneEntry, ActionsOf
  <1>5. n \in Event
    BY <1>2, RescheduleFacts
  <1> HIDE DEF n, e, T
  <1>6. ToSet(eventList') = (ToSet(eventList) \ {e}) \cup {n}
    BY <1>1, <1>2, <1>4, <1>5, InsertContent
  <1>7. PD!Serve(e)
    BY <1>1, <1>2, <1>3, <1>6, SameOperators DEF PD!Serve, n
  <1>8. QED
    BY <1>1, <1>2, <1>7 DEF PD!PDNext

(* The scheduler implements the abstract dispatcher: its list is only a    *)
(* representation of the set of pending events.                            *)
THEOREM SchedulerImplementsDispatch == Spec => ImplementsPeriodicDispatch
  <1>1. Init => PD!PDInit
    BY DEF Init, PD!PDInit
  <1>2. SchedInv /\ FilledFromClock /\ [Next]_schedVars
          => [PD!PDNext]_(PD!pdVars)
    <2> SUFFICES ASSUME SchedInv, FilledFromClock, [Next]_schedVars
                 PROVE  PD!PDNext \/ UNCHANGED PD!pdVars
      OBVIOUS
    <2> USE DEF PD!pdVars
    <2>1. CASE InitNoActions
      BY <2>1 DEF InitNoActions
    <2>2. CASE \E t \in Clock : InitBegin(t)
      BY <2>2 DEF InitBegin
    <2>3. CASE InitInsert
      <3>1. CASE Tail(toInsert) = <<>>
        BY <2>3, <3>1, FilledIsStart
      <3>2. CASE Tail(toInsert) # <<>>
        BY <2>3, <3>2 DEF InitInsert
      <3>3. QED
        BY <3>1, <3>2
    <2>4. CASE InitMallocFails
      BY <2>4 DEF InitMallocFails
    <2>5. CASE GetNextEvent
      BY <2>5, GetNextEventIsServe
    <2>6. CASE ConnectionLost
      <3>1. ToSet(eventList) # {}
        <4>1. eventList # <<>> /\ eventList \in Seq(Event)
          BY <2>6 DEF ConnectionLost, SchedInv, EachActionOnce, TypeOK
        <4>2. QED
          BY <4>1, HeadAndTail
      <3>2. PD!Stop
        BY <2>6, <3>1 DEF ConnectionLost, PD!Stop
      <3>3. QED
        BY <3>2 DEF PD!PDNext
    <2>7. CASE UNCHANGED schedVars
      BY <2>7 DEF schedVars
    <2>8. QED
      BY <2>1, <2>2, <2>3, <2>4, <2>5, <2>6, <2>7 DEF Next
  <1>3. QED
    BY <1>1, <1>2, SchedulerInvariant, ClockInvariant, PTL
       DEF Spec, ImplementsPeriodicDispatch, PD!PDSpec
-----------------------------------------------------------------------------
(* The inductive invariant.  PhaseInv says where the list of the thread is *)
(* in each phase, ClockInv that nothing that has happened lies ahead.      *)
PhaseInv ==
    /\ phase = "connect" => sched = "idle"
    /\ phase = "init" => sched \in {"filling", "ready"}
    /\ phase \in {"pick", "sleep", "io"} => sched = "ready"
    /\ phase \in {"sleep", "io"} =>
           /\ nextEvent # NoEvent
           /\ nextEvent.action \in ToSet(actionList)
           /\ count[nextEvent.action] # 0

ClockInv ==
    /\ Ns(lastEnd) <= Ns(now)
    /\ phase # "sleep" /\ nextEvent # NoEvent =>
           Ns(nextEvent.trigger) <= Ns(now)

(* Between two commands either the offset after the first one is still to  *)
(* be awaited, or the schedule was started after it; and the offset is one *)
(* that the actions allow.                                                 *)
SpacingInv ==
    /\ phase \in {"pick", "sleep", "io"} => offset \in Offsets
    /\ phase = "init" => Ns(lastEnd) <= Ns(initTime)
    /\ phase \in {"pick", "sleep"} =>
           \/ Ns(lastEnd) + Ns(offset) <= Ns(earliest)
           \/ Ns(lastEnd) <= Ns(initTime)
    /\ phase = "io" => Ns(lastEnd) + Ns(offset) <= Ns(now)

LoopInv ==
    /\ SchedInv
    /\ RateInv
    /\ LoopTypeOK
    /\ PhaseInv
    /\ ClockInv
    /\ SpacingInv
-----------------------------------------------------------------------------
(* tv_minimal_event_offset of a thread that has actions.                   *)
LEMMA OffsetFacts ==
    ASSUME SchedInv, actionList # <<>>, NEW o \in Offsets
    PROVE  /\ o \in TimeVal
           /\ \A a \in ToSet(actionList) : Ns(o) <= NSUS * Interval_us[a]
  <1> DEFINE l == [i \in DOMAIN actionList |-> Interval_us[actionList[i]]]
             n == Len(actionList)
  <1>1. /\ actionList \in Seq(Action) /\ n \in Nat \ {0}
        /\ DOMAIN actionList = 1 .. n
    BY DEF SchedInv, TypeOK
  <1>2. \A i \in DOMAIN actionList : Interval_us[actionList[i]] \in Nat \ {0}
    BY <1>1, SchedulerAssumption
  <1>3. l \in [1 .. n -> Nat \ {0}]
    BY <1>1, <1>2
  <1>4. l \in Seq(Nat \ {0}) /\ l # <<>> /\ DOMAIN l = DOMAIN actionList
    <2> HIDE DEF l, n
    <2>1. l \in Seq(Nat \ {0}) /\ DOMAIN l = 1 .. n
      BY <1>1, <1>3
    <2>2. l # <<>>
      <3>1. 1 \in DOMAIN l
        BY <1>1, <2>1
      <3>2. QED
        BY <3>1
    <2>3. QED
      BY <1>1, <2>1, <2>2
  <1>5. o \in IF Tcp THEN get_minimal_modbus_event_offset(l)
               ELSE {rtu_event_offset(l)}
    BY DEF Offsets
  <1>6. \A i \in DOMAIN actionList : l[i] = Interval_us[actionList[i]]
    OBVIOUS
  <1> HIDE DEF l
  <1>7. /\ o \in TimeVal
        /\ \A i \in DOMAIN actionList : Ns(o) <= NSUS * l[i]
    <2>1. CASE Tcp
      BY <1>4, <1>5, <2>1, EventOffsetFacts
    <2>2. CASE ~Tcp
      BY <1>4, <1>5, <2>2, RtuOffsetFacts
    <2>3. QED
      BY <2>1, <2>2
  <1>8. QED
    BY <1>6, <1>7 DEF ToSet

(* Sleeping and sending take the clock forward.                            *)
LEMMA LaterFacts ==
    ASSUME NEW t \in TimeVal, NEW ns \in Nat
    PROVE  Later(t, ns) \in TimeVal /\ Ns(t) <= Ns(Later(t, ns))
  <1>1. Later(t, ns) = timespec_add(t, Ns2Timespec(ns))
    BY DEF Later, Ns2Timespec
  <1>2. Ns2Timespec(ns) \in TimeVal /\ Ns(Ns2Timespec(ns)) = ns
    BY Ns2TimespecFacts
  <1>3. Ns(t) \in Nat
    BY NsType
  <1>4. QED
    BY <1>1, <1>2, <1>3, AddType, NsOfSum

(* The later of two times is not before either.                            *)
LEMMA LatestFacts ==
    ASSUME NEW s \in TimeVal, NEW t \in TimeVal
    PROVE  /\ Latest(s, t) \in TimeVal
           /\ Ns(s) <= Ns(Latest(s, t)) /\ Ns(t) <= Ns(Latest(s, t))
  <1>1. Ns(s) \in Nat /\ Ns(t) \in Nat
    BY NsType
  <1>2. CASE Before(s, t)
    <2>1. NotAfter(s, t)
      BY <1>2, SMT DEF NotAfter, Before, TimeVal
    <2>2. QED
      BY <1>1, <1>2, <2>1, NsOrder DEF Latest
  <1>3. CASE ~Before(s, t)
    <2>1. NotAfter(t, s)
      BY <1>3 DEF NotAfter
    <2>2. QED
      BY <1>1, <1>3, <2>1, NsOrder DEF Latest
  <1>4. QED
    BY <1>2, <1>3

(* Once ready, every action in the list has a due date more than its       *)
(* interval after the start of the schedule; so has the event served last. *)
LEMMA ServedAfterStart ==
    ASSUME LoopInv, phase \in {"sleep", "io"}
    PROVE  /\ nextEvent.trigger \in TimeVal
           /\ offset \in TimeVal
           /\ Ns(initTime) + Ns(offset) <= Ns(nextEvent.trigger)
  <1> DEFINE a == nextEvent.action
  <1>1. /\ nextEvent \in Event /\ count[a] # 0 /\ sched = "ready"
        /\ count \in [Action -> Nat] /\ initTime \in TimeVal
    BY DEF LoopInv, PhaseInv, SchedInv, TypeOK
  <1>2. a \in Action /\ nextEvent.trigger \in TimeVal
    BY <1>1 DEF Event
  <1>3. DueAt(count[a], a) <= Ns(nextEvent.trigger)
    BY <1>1, <1>2 DEF LoopInv, RateInv, ServedInv
  <1>4. a \in ToSet(actionList) /\ actionList # <<>>
    <2>1. a \in ToSet(actionList)
      BY DEF LoopInv, PhaseInv
    <2>2. QED
      BY <2>1, EmptyList
  <1>5. Ns(offset) <= NSUS * Interval_us[a] /\ offset \in TimeVal
    BY <1>4, OffsetFacts DEF LoopInv, SpacingInv
  <1>6. count[a] - 1 \in Nat /\ count[a] = (count[a] - 1) + 1
    BY <1>1, <1>2
  <1> DEFINE m == count[a] - 1
  <1>7. /\ DueAt(count[a], a) = DueAt(m, a) + NSUS * Interval_us[a]
        /\ DueAt(m, a) \in Nat /\ NSUS * Interval_us[a] \in Nat
    BY <1>1, <1>2, <1>6, DueAtNext
  <1>8. Ns(initTime) <= DueAt(m, a)
    <2>1. /\ NSUS \in Nat /\ Interval_us[a] \in Nat
          /\ NSEC \in Nat /\ Ns(initTime) \in Nat
      BY <1>1, <1>2, UnitAssumption, SchedulerAssumption, NSECPositive, NsType
    <2>2. m * NSUS * Interval_us[a] \in Nat
      <3> HIDE DEF m
      <3>1. m * NSUS \in Nat
        BY <1>6, <2>1 DEF m
      <3>2. QED
        BY <2>1, <3>1
    <2>3. QED
      BY <2>1, <2>2 DEF DueAt
  <1>9. /\ Ns(initTime) \in Nat /\ Ns(offset) \in Nat
        /\ Ns(nextEvent.trigger) \in Nat
    BY <1>1, <1>2, <1>5, NsType
  <1> HIDE DEF m
  <1>10. QED
    BY <1>2, <1>3, <1>5, <1>7, <1>8, <1>9

(* A thread that has just been created satisfies the invariant.            *)
LEMMA LoopInitHolds == LoopInit => LoopInv
  <1> SUFFICES ASSUME LoopInit PROVE LoopInv
    OBVIOUS
  <1>1. /\ Init /\ eProtocol \in Protocols /\ phase = "connect"
        /\ now \in TimeVal /\ offset = Zero /\ earliest = Zero
        /\ errCnt = 0 /\ lastEnd = Zero
    BY SchedulerAssumption DEF LoopInit
  <1>2. SchedInv /\ RateInv
    BY <1>1, InitEstablishesInv, StartKeepsRate
  <1>3. sched = "idle" /\ nextEvent = NoEvent
    BY <1>1 DEF Init
  <1>4. LoopTypeOK
    BY <1>1, <1>2, ZeroFacts, LoopAssumption DEF LoopTypeOK, SchedInv
  <1>5. PhaseInv /\ SpacingInv
    BY <1>1, <1>3 DEF PhaseInv, SpacingInv
  <1>6. ClockInv
    BY <1>1, <1>3, ZeroFacts, NsType DEF ClockInv
  <1>7. QED
    BY <1>2, <1>4, <1>5, <1>6 DEF LoopInv

(* Each step of the loop is a step of the scheduler on the thread's list,  *)
(* which starts a schedule at whatever time the thread has connected.      *)
SchedulerStep ==
    \/ InitNoActions \/ InitBegin(now) \/ InitInsert \/ InitMallocFails
    \/ GetNextEvent \/ ConnectionLost \/ UNCHANGED schedVars

(* Every step of the loop is a call into the scheduler or leaves it alone. *)
LEMMA LoopStepsScheduler ==
    [LoopNext]_<<schedVars, loopVars>> => SchedulerStep
  BY DEF LoopNext, SchedulerStep, ConnectFails, Connected, FillList, InitFails,
         EnterLoop, Pick, Sleep, Command, CommandOk, CommandFails

(* The scheduler's invariants hold for calls at any reading of the clock.  *)
LEMMA SchedulerStepKeepsInv ==
    ASSUME SchedInv, RateInv, now \in TimeVal, SchedulerStep
    PROVE  SchedInv' /\ RateInv'
  <1>1. CASE InitNoActions \/ InitMallocFails \/ ConnectionLost
    BY <1>1, EmptyListKeepsInv, EmptyListKeepsRate
  <1>2. CASE InitBegin(now)
    BY <1>2, InitBeginKeepsInv, StartKeepsRate
  <1>3. CASE InitInsert
    BY <1>3, InitInsertKeepsInv, InitInsertKeepsRate
  <1>4. CASE GetNextEvent
    BY <1>4, GetNextEventKeepsInv, GetNextEventKeepsRate
  <1>5. CASE UNCHANGED schedVars
    BY <1>5, NextKeepsInv, NextKeepsRate
  <1>6. QED
    BY <1>1, <1>2, <1>3, <1>4, <1>5 DEF SchedulerStep

(* modbus_connect fails and the TCP thread sleeps.                         *)
LEMMA ConnectFailsKeepsLoop ==
    ASSUME LoopInv, ConnectFails
    PROVE  LoopTypeOK' /\ PhaseInv' /\ ClockInv' /\ SpacingInv'
  <1>1. /\ phase = "connect" /\ now' = timespec_add(now, Backoff)
        /\ phase' \in {"connect", "ended"}
        /\ UNCHANGED <<eProtocol, offset, earliest, errCnt, lastEnd, schedVars>>
    BY DEF ConnectFails
  <1>2. /\ SchedInv /\ LoopTypeOK /\ PhaseInv /\ ClockInv
        /\ now \in TimeVal /\ lastEnd \in TimeVal
        /\ nextEvent \in Event \cup {NoEvent}
    BY DEF LoopInv, LoopTypeOK, TypeOK
  <1>3. TypeOK' /\ sched' = sched /\ nextEvent' = nextEvent
    BY <1>1, <1>2 DEF schedVars, LoopTypeOK, TypeOK
  <1>4. now' \in TimeVal /\ Ns(now) <= Ns(now')
    BY <1>1, <1>2, LoopAssumption, AddType, AddNotEarlier, NsOrder
  <1>5. LoopTypeOK'
    BY <1>1, <1>2, <1>3, <1>4 DEF LoopTypeOK
  <1>6. PhaseInv' /\ SpacingInv'
    BY <1>1, <1>2, <1>3 DEF PhaseInv, SpacingInv
  <1>7. ClockInv'
    <2>1. Ns(now) \in Nat /\ Ns(now') \in Nat /\ Ns(lastEnd) \in Nat
      BY <1>2, <1>4, NsType
    <2>2. nextEvent # NoEvent => Ns(nextEvent.trigger) \in Nat
      BY <1>2, NsType DEF Event
    <2>3. QED
      BY <1>1, <1>2, <1>3, <1>4, <2>1, <2>2 DEF ClockInv
  <1>8. QED
    BY <1>5, <1>6, <1>7

(* initScheduler, the one that fails included, and the entry into the      *)
(* loop: the clock stands still.                                           *)
LEMMA StartKeepsLoop ==
    ASSUME LoopInv, SchedInv',
           Connected \/ FillList \/ InitFails \/ EnterLoop
    PROVE  LoopTypeOK' /\ PhaseInv' /\ ClockInv' /\ SpacingInv'
  <1>1. /\ SchedInv /\ LoopTypeOK /\ PhaseInv /\ ClockInv /\ SpacingInv
        /\ UNCHANGED <<eProtocol, now, lastEnd, nextEvent>>
        /\ earliest' \in {earliest, Zero} /\ errCnt' \in {errCnt, 0}
        /\ offset' = offset \/ EnterLoop
    BY DEF LoopInv, Connected, FillList, InitFails, EnterLoop, InitBegin,
           InitInsert, InitNoActions, InitMallocFails, loopVars, schedVars
  <1>2. phase' \in {"init", "pick", "ended"} /\ phase \in {"connect", "init"}
    BY DEF LoopInv, Connected, FillList, InitFails, EnterLoop, loopVars
  <1>3. LoopTypeOK'
    <2>1. offset' \in TimeVal
      <3>1. CASE EnterLoop
        <4>1. actionList # <<>> /\ offset' \in Offsets
          BY <1>1, <3>1 DEF EnterLoop, SchedInv, EachActionOnce
        <4>2. QED
          BY <1>1, <4>1, OffsetFacts
      <3>2. CASE offset' = offset
        BY <1>1, <3>2 DEF LoopTypeOK
      <3>3. QED
        BY <1>1, <3>1, <3>2
    <2>2. QED
      BY <1>1, <1>2, <2>1, ZeroFacts, LoopAssumption DEF LoopTypeOK, SchedInv
  <1>4. PhaseInv'
    BY <1>1 DEF PhaseInv, Connected, FillList, InitFails, EnterLoop, InitBegin,
                InitInsert, InitNoActions, InitMallocFails, loopVars, schedVars
  <1>5. ClockInv'
    BY <1>1, <1>2 DEF ClockInv
  <1>6. SpacingInv'
    <2>1. CASE Connected
      BY <1>1, <2>1 DEF Connected, InitBegin, SpacingInv, ClockInv
    <2>2. CASE FillList
      BY <1>1, <2>2 DEF FillList, InitInsert, SpacingInv, loopVars
    <2>3. CASE InitFails
      BY <2>3 DEF InitFails, SpacingInv
    <2>4. CASE EnterLoop
      BY <1>1, <2>4 DEF EnterLoop, SpacingInv, schedVars, Offsets, Tcp
    <2>5. QED
      BY <2>1, <2>2, <2>3, <2>4
  <1>7. QED
    BY <1>3, <1>4, <1>5, <1>6

(* getNextEvent: the event it returns is one of a configured action.       *)
LEMMA PickKeepsLoop ==
    ASSUME LoopInv, SchedInv', Pick
    PROVE  LoopTypeOK' /\ PhaseInv' /\ ClockInv' /\ SpacingInv'
  <1> DEFINE e == Head(eventList)
             a == e.action
  <1>1. /\ phase = "pick" /\ phase' = "sleep" /\ sched = "ready"
        /\ eventList # <<>> /\ nextEvent' = e
        /\ count' = [count EXCEPT ![a] = @ + 1]
        /\ UNCHANGED <<eProtocol, now, offset, earliest, errCnt, lastEnd>>
        /\ UNCHANGED <<actionList, sched, initTime>>
    BY DEF Pick, GetNextEvent
  <1>2. /\ SchedInv /\ LoopTypeOK /\ PhaseInv /\ ClockInv /\ SpacingInv
        /\ eventList \in Seq(Event) /\ count \in [Action -> Nat]
    BY DEF LoopInv, SchedInv, TypeOK
  <1>3. e \in Event /\ e \in ToSet(eventList)
    BY <1>1, <1>2, HeadAndTail
  <1>4. e # NoEvent /\ a \in Action
    BY <1>3, SchedulerAssumption DEF Event
  <1>5. a \in ToSet(actionList)
    BY <1>1, <1>2, <1>3 DEF SchedInv, EachActionOnce, ActionsOf
  <1> HIDE DEF e
  <1>6. count'[a] # 0
    <2>1. count[a] \in Nat /\ count'[a] = count[a] + 1
      BY <1>1, <1>2, <1>4
    <2>2. QED
      BY <2>1
  <1>7. LoopTypeOK'
    BY <1>1, <1>2 DEF LoopTypeOK, SchedInv
  <1>8. PhaseInv'
    BY <1>1, <1>4, <1>5, <1>6 DEF PhaseInv
  <1>9. ClockInv'
    BY <1>1, <1>2 DEF ClockInv
  <1>10. SpacingInv'
    <2>1. Offsets' = Offsets
      BY <1>1 DEF Offsets, Tcp
    <2>2. QED
      BY <1>1, <1>2, <2>1 DEF SpacingInv
  <1>11. QED
    BY <1>7, <1>8, <1>9, <1>10

(* The two sleeps end when both the event is due and the offset is over.   *)
LEMMA SleepKeepsLoop ==
    ASSUME LoopInv, NEW j \in Jitter, Sleep(j)
    PROVE  LoopTypeOK' /\ PhaseInv' /\ ClockInv' /\ SpacingInv'
  <1> DEFINE t == Latest(now, nextEvent.trigger)
             u == Latest(t, earliest)
  <1>1. /\ phase = "sleep" /\ phase' = "io" /\ now' = Later(u, j)
        /\ UNCHANGED <<eProtocol, offset, earliest, errCnt, lastEnd, schedVars>>
    BY DEF Sleep
  <1>2. UNCHANGED <<actionList, sched, initTime, nextEvent, count>>
    BY <1>1 DEF schedVars
  <1>3. /\ SchedInv /\ LoopTypeOK /\ PhaseInv /\ ClockInv /\ SpacingInv
        /\ now \in TimeVal /\ earliest \in TimeVal /\ lastEnd \in TimeVal
        /\ initTime \in TimeVal
    BY DEF LoopInv, LoopTypeOK, TypeOK
  <1>4. /\ nextEvent.trigger \in TimeVal /\ offset \in TimeVal
        /\ Ns(initTime) + Ns(offset) <= Ns(nextEvent.trigger)
    BY <1>1, ServedAfterStart
  <1>5. t \in TimeVal /\ Ns(now) <= Ns(t) /\ Ns(nextEvent.trigger) <= Ns(t)
    BY <1>3, <1>4, LatestFacts
  <1> HIDE DEF t
  <1>6. u \in TimeVal /\ Ns(t) <= Ns(u) /\ Ns(earliest) <= Ns(u)
    BY <1>3, <1>5, LatestFacts
  <1> HIDE DEF u
  <1>7. now' \in TimeVal /\ Ns(u) <= Ns(now')
    BY <1>1, <1>6, LaterFacts, LoopAssumption
  <1>8. /\ Ns(now) \in Nat /\ Ns(nextEvent.trigger) \in Nat /\ Ns(t) \in Nat
        /\ Ns(u) \in Nat /\ Ns(earliest) \in Nat /\ Ns(now') \in Nat
        /\ Ns(lastEnd) \in Nat /\ Ns(initTime) \in Nat /\ Ns(offset) \in Nat
    BY <1>3, <1>4, <1>5, <1>6, <1>7, NsType
  <1>9. LoopTypeOK'
    <2>1. TypeOK'
      BY <1>1, <1>3 DEF schedVars, LoopTypeOK, TypeOK
    <2>2. QED
      BY <1>1, <1>3, <1>7, <2>1 DEF LoopTypeOK
  <1>10. PhaseInv'
    BY <1>1, <1>2, <1>3 DEF PhaseInv
  <1>11. ClockInv'
    BY <1>1, <1>2, <1>3, <1>5, <1>6, <1>7, <1>8 DEF ClockInv
  <1>12. SpacingInv'
    <2>1. Offsets' = Offsets
      BY <1>1, <1>2 DEF Offsets, Tcp
    <2>2. Ns(lastEnd) + Ns(offset) <= Ns(now')
      BY <1>1, <1>3, <1>4, <1>5, <1>6, <1>7, <1>8 DEF SpacingInv
    <2>3. QED
      BY <1>1, <1>3, <2>1, <2>2 DEF SpacingInv
  <1>13. QED
    BY <1>9, <1>10, <1>11, <1>12

(* A command, answered or not, ends at a time from which the next offset   *)
(* counts.                                                                 *)
LEMMA CommandKeepsLoop ==
    ASSUME LoopInv, NEW d \in Durations, CommandOk(d) \/ CommandFails(d),
           SchedInv'
    PROVE  LoopTypeOK' /\ PhaseInv' /\ ClockInv' /\ SpacingInv'
  <1>1. /\ phase = "io" /\ now' = Later(now, d) /\ lastEnd' = now'
        /\ earliest' = timespec_add(now', offset)
        /\ UNCHANGED <<eProtocol, offset>>
        /\ UNCHANGED <<actionList, nextEvent>>
    BY DEF CommandOk, CommandFails, Command, schedVars, ConnectionLost
  <1>2. \/ phase' = "connect" /\ sched' = "idle"
        \/ phase' = "pick" /\ sched' = sched
    BY DEF CommandOk, CommandFails, schedVars, ConnectionLost
  <1>3. /\ SchedInv /\ LoopTypeOK /\ PhaseInv /\ ClockInv /\ SpacingInv
        /\ now \in TimeVal /\ nextEvent \in Event \cup {NoEvent}
    BY DEF LoopInv, LoopTypeOK, TypeOK
  <1>4. offset \in TimeVal /\ nextEvent.trigger \in TimeVal
    BY <1>1, ServedAfterStart
  <1>5. now' \in TimeVal /\ Ns(now) <= Ns(now')
    BY <1>1, <1>3, LaterFacts, LoopAssumption
  <1>6. /\ earliest' \in TimeVal
        /\ Ns(earliest') = Ns(now') + Ns(offset)
    BY <1>1, <1>4, <1>5, AddType, NsOfSum
  <1>7. errCnt' \in 0 .. MaxErr
    <2>1. errCnt \in 0 .. MaxErr /\ MaxErr \in Nat
      BY <1>3, LoopAssumption DEF LoopTypeOK
    <2>2. errCnt' \in {0, errCnt} \/ (errCnt # MaxErr /\ errCnt' = errCnt + 1)
      BY DEF CommandOk, CommandFails
    <2>3. QED
      BY <2>1, <2>2
  <1>8. LoopTypeOK'
    BY <1>1, <1>2, <1>3, <1>5, <1>6, <1>7 DEF LoopTypeOK, SchedInv
  <1>9. PhaseInv'
    BY <1>1, <1>2, <1>3 DEF PhaseInv
  <1>10. ClockInv'
    <2>1. /\ Ns(now) \in Nat /\ Ns(now') \in Nat
          /\ Ns(nextEvent.trigger) \in Nat
      BY <1>3, <1>4, <1>5, NsType
    <2>2. QED
      BY <1>1, <1>2, <1>3, <1>5, <2>1 DEF ClockInv
  <1>11. SpacingInv'
    <2>1. Offsets' = Offsets
      BY <1>1 DEF Offsets, Tcp
    <2>2. Ns(lastEnd)' + Ns(offset)' <= Ns(earliest)'
      <3>1. Ns(now') \in Nat /\ Ns(offset) \in Nat
        BY <1>4, <1>5, NsType
      <3>2. QED
        BY <1>1, <1>6, <3>1
    <2>3. QED
      BY <1>1, <1>2, <1>3, <2>1, <2>2 DEF SpacingInv
  <1>12. QED
    BY <1>8, <1>9, <1>10, <1>11

(* LoopInv is inductive.                                                   *)
LEMMA LoopNextKeepsInv ==
    LoopInv /\ [LoopNext]_<<schedVars, loopVars>> => LoopInv'
  <1> SUFFICES ASSUME LoopInv, [LoopNext]_<<schedVars, loopVars>>
               PROVE  LoopInv'
    OBVIOUS
  <1>1. SchedInv' /\ RateInv'
    BY LoopStepsScheduler, SchedulerStepKeepsInv DEF LoopInv, LoopTypeOK
  <1>2. LoopTypeOK' /\ PhaseInv' /\ ClockInv' /\ SpacingInv'
    <2>1. CASE ConnectFails
      BY <2>1, ConnectFailsKeepsLoop
    <2>2. CASE Connected \/ FillList \/ InitFails \/ EnterLoop
      BY <1>1, <2>2, StartKeepsLoop
    <2>3. CASE Pick
      BY <1>1, <2>3, PickKeepsLoop
    <2>4. CASE \E j \in Jitter : Sleep(j)
      BY <2>4, SleepKeepsLoop
    <2>5. CASE \E d \in Durations : CommandOk(d) \/ CommandFails(d)
      BY <1>1, <2>5, CommandKeepsLoop
    <2>6. CASE UNCHANGED <<schedVars, loopVars>>
      BY <2>6 DEF schedVars, loopVars, LoopInv, LoopTypeOK, TypeOK, PhaseInv,
                  ClockInv, SpacingInv, Offsets, Tcp
    <2>7. QED
      BY <2>1, <2>2, <2>3, <2>4, <2>5, <2>6 DEF LoopNext
  <1>3. QED
    BY <1>1, <1>2 DEF LoopInv
-----------------------------------------------------------------------------
(* The invariant of modbus_tcp_thread and modbus_rtu_thread in time: where *)
(* the list is in each phase, that nothing served lies ahead of the clock, *)
(* and that either the offset after the last command is still awaited or   *)
(* the schedule began after it.                                            *)
THEOREM LoopInvariant == LoopSpec => []LoopInv
  <1>1. QED
    BY LoopInitHolds, LoopNextKeepsInv, PTL DEF LoopSpec

(* Type correctness of the loop: every time the thread computes is a       *)
(* normalised one, the minimal offset included, and err_cnt is bounded.    *)
THEOREM LoopTypeCorrect == LoopSpec => []LoopTypeOK
  <1>1. LoopInv => LoopTypeOK
    BY DEF LoopInv
  <1>2. QED
    BY <1>1, LoopInvariant, PTL

(* Two commands are at least tv_minimal_event_offset apart, also over a    *)
(* reconnection, where the code forgets when the last command ended.       *)
THEOREM OffsetIsKept == LoopSpec => []CommandsSpaced
  <1>1. ASSUME LoopInv PROVE CommandsSpaced
    <2> SUFFICES ASSUME phase = "io"
                 PROVE  NotAfter(timespec_add(lastEnd, offset), now)
      BY DEF CommandsSpaced
    <2>1. lastEnd \in TimeVal /\ now \in TimeVal /\ offset \in TimeVal
      BY <1>1, ServedAfterStart DEF LoopInv, LoopTypeOK
    <2>2. Ns(lastEnd) + Ns(offset) <= Ns(now)
      BY <1>1 DEF LoopInv, SpacingInv
    <2>3. QED
      BY <2>1, <2>2, AddType, NsOfSum, NsOrder
  <1>2. QED
    BY <1>1, LoopInvariant, PTL

(* No action is sent more often than its interval allows since             *)
(* initScheduler, however large the backlog that is worked off.            *)
THEOREM BacklogNeverOverdone == LoopSpec => []NeverAheadOfSchedule
  <1>1. ASSUME LoopInv PROVE NeverAheadOfSchedule
    <2> SUFFICES ASSUME phase = "io", NEW a \in Served, count[a] # 0
                 PROVE  DueAt(count[a], a) <= Ns(now)
      BY DEF NeverAheadOfSchedule, DueAt
    <2>1. /\ a \in Action /\ count[a] \in Nat /\ initTime \in TimeVal
          /\ now \in TimeVal
      BY <1>1 DEF LoopInv, LoopTypeOK, SchedInv, TypeOK, Served, ToSet
    <2>2. nextEvent.trigger \in TimeVal
      BY <1>1, ServedAfterStart
    <2>3. DueAt(count[a], a) <= Ns(nextEvent.trigger)
      BY <1>1, <2>1 DEF LoopInv, RateInv, ServedInv
    <2>4. Ns(nextEvent.trigger) <= Ns(now)
      BY <1>1 DEF LoopInv, PhaseInv, ClockInv
    <2>5. /\ DueAt(count[a], a) \in Nat /\ Ns(nextEvent.trigger) \in Nat
          /\ Ns(now) \in Nat
      BY <2>1, <2>2, DueAtNext, NsType
    <2>6. QED
      BY <2>3, <2>4, <2>5
  <1>2. QED
    BY <1>1, LoopInvariant, PTL

(* The scheduler's own model assumes that a new schedule starts no earlier *)
(* than the event served last was due.  In time this is a fact: a thread   *)
(* that connects again has slept until that event's trigger time.          *)
THEOREM RestartsAfterServed ==
    LoopSpec => [](phase = "connect" /\ nextEvent # NoEvent
                     => NotAfter(nextEvent.trigger, now))
  <1>1. ASSUME LoopInv, phase = "connect", nextEvent # NoEvent
        PROVE  NotAfter(nextEvent.trigger, now)
    <2>1. nextEvent \in Event /\ now \in TimeVal
      BY <1>1 DEF LoopInv, LoopTypeOK, TypeOK
    <2>2. nextEvent.trigger \in TimeVal
      BY <2>1 DEF Event
    <2>3. Ns(nextEvent.trigger) <= Ns(now)
      BY <1>1 DEF LoopInv, ClockInv
    <2>4. QED
      BY <2>1, <2>2, <2>3, NsOrder
  <1>2. QED
    BY <1>1, LoopInvariant, PTL

(* The loop in time implements the scheduler, whose clock can then read    *)
(* anything: all that is proved of the scheduler holds of the thread, the  *)
(* refinement of the abstract dispatcher included.                         *)
THEOREM LoopImplementsScheduler == Clock = TimeVal => (LoopSpec => Spec)
  <1> SUFFICES ASSUME Clock = TimeVal PROVE LoopSpec => Spec
    OBVIOUS
  <1>1. LoopInit => Init
    BY DEF LoopInit
  <1>2. LoopInv /\ [LoopNext]_<<schedVars, loopVars>> => [Next]_schedVars
    <2> SUFFICES ASSUME LoopInv, [LoopNext]_<<schedVars, loopVars>>
                 PROVE  [Next]_schedVars
      OBVIOUS
    <2>1. now \in Clock
      BY DEF LoopInv, LoopTypeOK
    <2>2. QED
      BY <2>1, LoopStepsScheduler DEF SchedulerStep, Next
  <1>3. QED
    BY <1>1, <1>2, LoopInvariant, PTL DEF LoopSpec, Spec
-----------------------------------------------------------------------------
(* Why no backlog builds up.  Look back from any time in the loop to a     *)
(* time t at which nothing was waiting, and let c be the services before   *)
(* it: the bus has been busy since, with nothing but the services counted  *)
(* by count - c, all of which were due at t or later.  Each kept the bus   *)
(* no longer than Longest, which bounds the clock from above; and as the   *)
(* commands and offsets fit the schedule, no more of them can have been    *)
(* due than the time since t has room for, but for one of each action.     *)
BusySince(t, c) ==
    \A a \in Served : c[a] <= count[a] /\ t <= DueAt(c[a] + 1, a)

ServedSince(k, c) ==
    [i \in DOMAIN actionList |-> k[actionList[i]] - c[actionList[i]]]

Backlog(k, c) == SumOf(ServedSince(k, c))

PickedUp(t, c) ==
    /\ Ns(now) <= t + Longest * Backlog(count, c)
    /\ Ns(earliest) <= t + Longest * Backlog(count, c)

OneTaken(t, c) ==
    /\ c[nextEvent.action] < count[nextEvent.action]
    /\ Backlog(count, c) # 0
    /\ phase = "sleep" =>
           /\ Ns(now) <= t + Longest * (Backlog(count, c) - 1)
           /\ Ns(earliest) <= t + Longest * (Backlog(count, c) - 1)
           /\ Ns(nextEvent.trigger) <= t + Longest * (Backlog(count, c) - 1)
    /\ phase = "io" =>
           Ns(now) <= t + Longest * (Backlog(count, c) - 1) + Max(Jitter)

BusyInv ==
    phase \in {"pick", "sleep", "io"} =>
        \E t \in Nat, c \in [Action -> Nat] :
            /\ BusySince(t, c)
            /\ phase = "pick" => PickedUp(t, c)
            /\ phase \in {"sleep", "io"} => OneTaken(t, c)

(* While initScheduler fills the list no time passes in the model and      *)
(* nothing is served.                                                      *)
FreshInv ==
    phase = "init" => now = initTime /\ \A a \in Action : count[a] = 0

(* The greatest element of a set that has one.                             *)
LEMMA MaxIsGreatest ==
    ASSUME NEW T \in SUBSET Nat, \E m \in T : \A x \in T : x <= m
    PROVE  Max(T) \in Nat /\ \A x \in T : x <= Max(T)
  <1>1. PICK m \in T : \A x \in T : m >= x
    OBVIOUS
  <1>2. Max(T) \in T /\ \A x \in T : Max(T) >= x
    BY <1>1 DEF Max
  <1>3. QED
    BY <1>2

(* The three parts of Longest.                                             *)
LEMMA LongestFacts ==
    ASSUME LoopInv, TimesBounded
    PROVE  /\ Max(Durations) \in Nat /\ \A d \in Durations : d <= Max(Durations)
           /\ Max(Jitter) \in Nat /\ \A j \in Jitter : j <= Max(Jitter)
           /\ Ns(offset) \in Nat /\ Longest \in Nat
           /\ Longest = Max(Durations) + Ns(offset) + Max(Jitter)
  <1>1. Max(Durations) \in Nat /\ \A d \in Durations : d <= Max(Durations)
    BY MaxIsGreatest, LoopAssumption DEF TimesBounded
  <1>2. Max(Jitter) \in Nat /\ \A j \in Jitter : j <= Max(Jitter)
    BY MaxIsGreatest, LoopAssumption DEF TimesBounded
  <1>3. Ns(offset) \in Nat
    BY NsType DEF LoopInv, LoopTypeOK
  <1>4. QED
    BY <1>1, <1>2, <1>3 DEF Longest

(* The services since t are a list of numbers, one for each action.        *)
LEMMA BacklogFacts ==
    ASSUME TypeOK, NEW k \in [Action -> Nat], NEW c \in [Action -> Nat],
           \A a \in Served : c[a] <= k[a]
    PROVE  /\ ServedSince(k, c) \in Seq(Nat) /\ Backlog(k, c) \in Nat
           /\ Len(ServedSince(k, c)) = Len(actionList)
           /\ \A i \in DOMAIN actionList :
                  /\ actionList[i] \in Served /\ actionList[i] \in Action
                  /\ ServedSince(k, c)[i] = k[actionList[i]] - c[actionList[i]]
                  /\ ServedSince(k, c)[i] <= Backlog(k, c)
  <1> DEFINE m == ServedSince(k, c)
             n == Len(actionList)
  <1>1. actionList \in Seq(Action) /\ n \in Nat /\ DOMAIN actionList = 1 .. n
    BY DEF TypeOK
  <1>2. \A i \in DOMAIN actionList :
            actionList[i] \in Served /\ actionList[i] \in Action
    BY <1>1 DEF Served, ToSet
  <1>3. \A i \in DOMAIN actionList :
            k[actionList[i]] - c[actionList[i]] \in Nat
    <2> TAKE i \in DOMAIN actionList
    <2> DEFINE a == actionList[i]
    <2>1. a \in Served /\ a \in Action
      BY <1>2
    <2> HIDE DEF a
    <2>2. c[a] \in Nat /\ k[a] \in Nat /\ c[a] <= k[a]
      BY <2>1
    <2>3. QED
      BY <2>2 DEF a
  <1> HIDE DEF n
  <1>4. m \in [1 .. n -> Nat]
    BY <1>1, <1>3 DEF ServedSince
  <1>5. \A i \in DOMAIN actionList :
            m[i] = k[actionList[i]] - c[actionList[i]]
    BY DEF ServedSince
  <1> HIDE DEF m
  <1>6. m \in Seq(Nat) /\ Len(m) = n /\ DOMAIN m = DOMAIN actionList
    BY <1>1, <1>4
  <1>7. SumOf(m) \in Nat /\ \A i \in DOMAIN m : m[i] <= SumOf(m)
    BY <1>6, SumFacts
  <1>8. QED
    BY <1>2, <1>5, <1>6, <1>7 DEF m, n, Backlog

(* What the scheduler's invariants say of the services of an action.       *)
LEMMA DueFacts ==
    ASSUME LoopInv, NEW n \in Nat, NEW a \in Action
    PROVE  DueAt(n, a) \in Nat /\ DueAt(n + 1, a) \in Nat
  <1>1. initTime \in TimeVal /\ n + 1 \in Nat
    BY DEF LoopInv, SchedInv, TypeOK
  <1>2. QED
    BY <1>1, DueAtNext
-----------------------------------------------------------------------------
(* The device loop begins: nothing has been served.                        *)
LEMMA EnterLoopIsBusy ==
    ASSUME LoopInv, LoopInv', FreshInv, TimesBounded, EnterLoop
    PROVE  BusyInv'
  <1> DEFINE c == [a \in Action |-> 0]
  <1>1. /\ phase = "init" /\ phase' = "pick" /\ earliest' = Zero
        /\ UNCHANGED <<now, actionList, initTime, count, eProtocol>>
        /\ now = initTime /\ \A a \in Action : count[a] = 0
    BY DEF EnterLoop, FreshInv, schedVars
  <1>2. /\ TypeOK /\ initTime \in TimeVal /\ count \in [Action -> Nat]
        /\ sched = "ready" /\ SchedInv
    BY DEF LoopInv, SchedInv, LoopTypeOK, TypeOK, EnterLoop
  <1>3. c \in [Action -> Nat] /\ \A a \in Action : c[a] = 0
    OBVIOUS
  <1> HIDE DEF c
  <1>4. PICK t \in Nat : t = Ns(initTime)
    BY <1>2, NsType
  <1>5. Served' = Served /\ \A a \in Served : a \in Action
    BY <1>1, <1>2 DEF Served, ToSet, TypeOK
  <1>6. ASSUME NEW a \in Served
        PROVE  c[a] <= count[a] /\ t <= DueAt(c[a] + 1, a)
    <2>1. a \in Action /\ c[a] = 0 /\ count[a] = 0
      BY <1>1, <1>3, <1>5
    <2>2. /\ DueAt(0 + 1, a) = DueAt(0, a) + NSUS * Interval_us[a]
          /\ NSUS * Interval_us[a] \in Nat
          /\ DueAt(0, a) = t + NSEC + 0 * NSUS * Interval_us[a]
      BY <1>2, <1>4, <2>1, DueAtNext DEF DueAt
    <2>3. 0 * NSUS * Interval_us[a] = 0 /\ NSEC \in Nat
      BY <2>1, UnitAssumption, SchedulerAssumption, NSECPositive
    <2>4. t <= DueAt(0 + 1, a)
      <3> DEFINE w == NSUS * Interval_us[a]
                 z == 0 * NSUS * Interval_us[a]
      <3>1. DueAt(0 + 1, a) = (t + NSEC + z) + w /\ w \in Nat /\ z = 0
        BY <2>2, <2>3
      <3> HIDE DEF w, z
      <3>2. QED
        BY <1>4, <2>3, <3>1
    <2>5. QED
      BY <2>1, <2>4
  <1>7. BusySince(t, c)'
    BY <1>1, <1>5, <1>6 DEF BusySince, DueAt
  <1>8. Longest' \in Nat
    <2>1. offset' \in TimeVal /\ Ns(offset') \in Nat
      BY NsType DEF LoopInv, LoopTypeOK
    <2>2. Longest' = Max(Durations) + Ns(offset') + Max(Jitter)
      BY DEF Longest
    <2>3. QED
      BY <2>1, <2>2, LongestFacts
  <1>9. Backlog(count, c)' = Backlog(count, c) /\ Backlog(count, c) \in Nat
    <2>1. Backlog(count, c) \in Nat
      BY <1>2, <1>3, <1>6, BacklogFacts
    <2>2. QED
      BY <1>1, <2>1 DEF Backlog, ServedSince
  <1>10. PickedUp(t, c)'
    <2> DEFINE x == Longest' * Backlog(count, c)
    <2>1. x \in Nat
      BY <1>8, <1>9
    <2>2. Ns(now') = t /\ Ns(earliest') = 0
      BY <1>1, <1>4, ZeroFacts
    <2>3. PickedUp(t, c)' <=> Ns(now') <= t + x /\ Ns(earliest') <= t + x
      BY <1>8, <1>9 DEF PickedUp
    <2> HIDE DEF x
    <2>4. Ns(now') <= t + x /\ Ns(earliest') <= t + x
      BY <1>4, <2>1, <2>2
    <2>5. QED
      BY <2>3, <2>4
  <1>11. QED
    BY <1>1, <1>3, <1>7, <1>10 DEF BusyInv

(* getNextEvent takes one more.  If neither the clock nor the offset is    *)
(* beyond its due date, nothing was waiting then, and all begins anew.     *)
LEMMA PickIsBusy ==
    ASSUME LoopInv, BusyInv, TimesBounded, Pick
    PROVE  BusyInv'
  <1> DEFINE e == Head(eventList)
             a == e.action
             L == Longest
             d == Ns(e.trigger)
  <1>1. /\ phase = "pick" /\ phase' = "sleep" /\ sched = "ready"
        /\ eventList # <<>> /\ nextEvent' = e
        /\ count' = [count EXCEPT ![a] = @ + 1]
        /\ UNCHANGED <<eProtocol, now, offset, earliest, actionList, initTime>>
    BY DEF Pick, GetNextEvent
  <1>2. /\ SchedInv /\ TypeOK /\ count \in [Action -> Nat]
        /\ eventList \in Seq(Event) /\ now \in TimeVal /\ earliest \in TimeVal
    BY DEF LoopInv, LoopTypeOK, SchedInv, TypeOK
  <1>3. e \in Event /\ e \in ToSet(eventList)
    BY <1>1, <1>2, HeadAndTail
  <1>4. a \in Action /\ e.trigger \in TimeVal /\ a \in Served
    BY <1>1, <1>2, <1>3 DEF Event, SchedInv, EachActionOnce, ActionsOf, Served
  <1>5. d \in Nat /\ Ns(now) \in Nat /\ Ns(earliest) \in Nat
    BY <1>2, <1>4, NsType
  <1>6. Longest' = L /\ L \in Nat
    BY <1>1, LongestFacts DEF Longest
  <1>7. Served' = Served /\ \A b \in Served : b \in Action
    BY <1>1, <1>2 DEF Served, ToSet, TypeOK
  <1>8. count[a] \in Nat /\ count'[a] = count[a] + 1
        /\ count' \in [Action -> Nat]
        /\ \A b \in Action : b # a => count'[b] = count[b]
    BY <1>1, <1>2, <1>4
  <1>9. \A b \in Served : d <= DueAt(count[b] + 1, b)
    <2> TAKE b \in Served
    <2>1. PICK f \in ToSet(eventList) : f.action = b
      BY <1>1, <1>2 DEF SchedInv, EachActionOnce, ActionsOf, Served
    <2>2. f \in Event
      BY <1>2, <2>1, HeadAndTail DEF ToSet
    <2>3. NotAfter(e.trigger, f.trigger)
      BY <1>1, <1>2, <2>1, HeadIsEarliest DEF SchedInv, SortedByDueDate
    <2>4. d <= Ns(f.trigger)
      BY <1>4, <2>2, <2>3, NsOrder DEF Event
    <2>5. Ns(f.trigger) = DueAt(count[b] + 1, b)
      BY <2>1 DEF LoopInv, RateInv, DriftInv
    <2>6. QED
      BY <2>4, <2>5
  <1> HIDE DEF L, d, e
  (* One more service is one more in the backlog.                          *)
  <1>10. ASSUME NEW c \in [Action -> Nat], \A b \in Served : c[b] <= count[b]
         PROVE  /\ Backlog(count, c) \in Nat
                /\ Backlog(count', c) = Backlog(count, c) + 1
    <2>1. \A b \in Served : c[b] <= count'[b]
      <3> TAKE b \in Served
      <3>1. c[b] \in Nat /\ count[b] \in Nat /\ b \in Action /\ c[b] <= count[b]
        BY <1>2, <1>7, <1>10
      <3>2. QED
        BY <1>4, <1>8, <3>1
    <2> DEFINE s == ServedSince(count, c)
               r == ServedSince(count', c)
    <2>2. /\ s \in Seq(Nat) /\ Len(s) = Len(actionList)
          /\ Backlog(count, c) \in Nat
          /\ \A i \in DOMAIN actionList :
                 /\ actionList[i] \in Action
                 /\ s[i] = count[actionList[i]] - c[actionList[i]]
      BY <1>2, <1>10, BacklogFacts
    <2>3. /\ r \in Seq(Nat) /\ Len(r) = Len(actionList)
          /\ \A i \in DOMAIN actionList :
                 r[i] = count'[actionList[i]] - c[actionList[i]]
      BY <1>2, <1>8, <2>1, BacklogFacts
    <2>4. PICK j \in DOMAIN actionList : actionList[j] = a
      BY <1>4 DEF Served, ToSet
    <2>5. \A i \in DOMAIN actionList : i # j => actionList[i] # a
      BY <1>2, <2>4 DEF SchedInv, IsListOfActions
    <2>6. DOMAIN s = DOMAIN actionList
      BY <1>2, <2>2 DEF TypeOK
    <2> HIDE DEF s, r
    <2>7. \A i \in DOMAIN s : r[i] = IF i = j THEN s[i] + 1 ELSE s[i]
      <3> TAKE i \in DOMAIN s
      <3>1. /\ actionList[i] \in Action
            /\ s[i] = count[actionList[i]] - c[actionList[i]]
            /\ r[i] = count'[actionList[i]] - c[actionList[i]]
        BY <2>2, <2>3, <2>6
      <3>2. CASE i = j
        <4>1. c[a] \in Nat /\ s[i] = count[a] - c[a] /\ r[i] = count'[a] - c[a]
          BY <1>4, <2>4, <3>1, <3>2
        <4>2. QED
          BY <1>8, <3>2, <4>1
      <3>3. CASE i # j
        BY <1>8, <2>5, <2>6, <3>1, <3>3
      <3>4. QED
        BY <3>2, <3>3
    <2>8. SumOf(r) = SumOf(s) + 1
      BY <2>2, <2>3, <2>4, <2>6, <2>7, SumBump
    <2>9. QED
      BY <2>2, <2>8 DEF Backlog, s, r
  (* What is left to show, for one t and one c.                            *)
  <1>11. ASSUME NEW t \in Nat, NEW c \in [Action -> Nat],
                \A b \in Served : c[b] <= count[b] /\ t <= DueAt(c[b] + 1, b),
                Ns(now) <= t + L * Backlog(count, c),
                Ns(earliest) <= t + L * Backlog(count, c),
                d <= t + L * Backlog(count, c)
         PROVE  BusyInv'
    <2>1. /\ Backlog(count, c) \in Nat
          /\ Backlog(count', c) = Backlog(count, c) + 1
      BY <1>10, <1>11
    <2>2. Backlog(count, c)' = Backlog(count', c)
      BY <1>1 DEF Backlog, ServedSince
    <2>3. Backlog(count, c)' # 0 /\ Backlog(count, c)' - 1 = Backlog(count, c)
      BY <2>1, <2>2
    <2>4. BusySince(t, c)'
      <3> SUFFICES ASSUME NEW b \in Served
                   PROVE  c[b] <= count'[b] /\ t <= DueAt(c[b] + 1, b)'
        BY <1>7 DEF BusySince
      <3>1. DueAt(c[b] + 1, b)' = DueAt(c[b] + 1, b)
        BY <1>1 DEF DueAt
      <3>2. c[b] \in Nat /\ count[b] \in Nat /\ b \in Action /\ c[b] <= count[b]
        BY <1>2, <1>7, <1>11
      <3>3. QED
        BY <1>4, <1>8, <1>11, <3>1, <3>2
    <2>5. c[a] < count'[a]
      <3>1. c[a] \in Nat /\ c[a] <= count[a]
        BY <1>4, <1>11
      <3>2. QED
        BY <1>8, <3>1
    <2>6. OneTaken(t, c)'
      BY <1>1, <1>6, <1>11, <2>3, <2>5 DEF OneTaken, d
    <2>7. QED
      BY <1>1, <2>4, <2>6 DEF BusyInv
  <1>12. CASE Ns(now) <= d /\ Ns(earliest) <= d
    <2>1. d \in Nat /\ count \in [Action -> Nat]
      BY <1>2, <1>5
    <2>2. PICK t \in Nat : t = d
      BY <2>1
    <2>3. PICK c \in [Action -> Nat] : c = count
      BY <2>1
    <2>4. \A b \in Served : c[b] <= count[b] /\ t <= DueAt(c[b] + 1, b)
      <3> TAKE b \in Served
      <3>1. count[b] \in Nat
        BY <1>2, <1>7
      <3>2. QED
        BY <1>9, <2>2, <2>3, <3>1
    <2>5. Backlog(count, c) \in Nat
      BY <1>10, <2>4
    <2>6. L * Backlog(count, c) \in Nat
      BY <1>6, <2>5
    <2> DEFINE x == L * Backlog(count, c)
    <2>7. x \in Nat
      BY <2>6
    <2> HIDE DEF x
    <2>8. Ns(now) <= t + x /\ Ns(earliest) <= t + x /\ d <= t + x
      BY <1>5, <1>12, <2>2, <2>7
    <2>9. QED
      BY <1>11, <2>4, <2>8 DEF x
  <1>13. CASE ~(Ns(now) <= d /\ Ns(earliest) <= d)
    <2>1. PICK t \in Nat, c \in [Action -> Nat] :
              BusySince(t, c) /\ PickedUp(t, c)
      BY <1>1 DEF BusyInv
    <2>2. \A b \in Served : c[b] <= count[b] /\ t <= DueAt(c[b] + 1, b)
      BY <2>1 DEF BusySince
    <2> DEFINE x == L * Backlog(count, c)
    <2>3. Ns(now) <= t + x /\ Ns(earliest) <= t + x
      BY <2>1 DEF PickedUp, L
    <2>4. x \in Nat
      BY <1>6, <1>10, <2>2
    <2> HIDE DEF x
    <2>5. d <= t + x
      BY <1>5, <1>13, <2>3, <2>4
    <2>6. QED
      BY <1>11, <2>2, <2>3, <2>5 DEF x
  <1>14. QED
    BY <1>12, <1>13

(* The two sleeps end late by at most Max(Jitter).                         *)
LEMMA SleepIsBusy ==
    ASSUME LoopInv, BusyInv, TimesBounded, NEW j \in Jitter, Sleep(j)
    PROVE  BusyInv'
  <1> DEFINE v == Latest(now, nextEvent.trigger)
             u == Latest(v, earliest)
             L == Longest
  <1>1. /\ phase = "sleep" /\ phase' = "io" /\ now' = Later(u, j)
        /\ UNCHANGED <<eProtocol, offset, actionList, initTime, nextEvent, count>>
    BY DEF Sleep, schedVars
  <1>2. now \in TimeVal /\ earliest \in TimeVal /\ nextEvent.trigger \in TimeVal
    BY <1>1, ServedAfterStart DEF LoopInv, LoopTypeOK
  <1>3. v \in {now, nextEvent.trigger} /\ u \in {v, earliest}
    BY DEF Latest
  <1> HIDE DEF v, u
  <1>4. u \in TimeVal /\ u \in {now, nextEvent.trigger, earliest}
    BY <1>2, <1>3
  <1>5. Ns(now') = Ns(u) + j /\ j \in Nat /\ Ns(u) \in Nat
    <2>1. j \in Nat
      BY LoopAssumption
    <2>2. Later(u, j) = timespec_add(u, Ns2Timespec(j))
      BY DEF Later, Ns2Timespec
    <2>3. QED
      BY <1>1, <1>4, <2>1, <2>2, Ns2TimespecFacts, NsOfSum, NsType
  <1>6. Longest' = L /\ Served' = Served
    BY <1>1 DEF Longest, Served
  <1>7. Max(Jitter) \in Nat /\ j <= Max(Jitter) /\ L \in Nat
    BY LongestFacts
  <1>8. PICK t \in Nat, c \in [Action -> Nat] : BusySince(t, c) /\ OneTaken(t, c)
    BY <1>1 DEF BusyInv
  <1>9. Backlog(count, c)' = Backlog(count, c)
    BY <1>1 DEF Backlog, ServedSince
  <1>10. BusySince(t, c)'
    BY <1>1, <1>6, <1>8 DEF BusySince, DueAt
  <1>11. OneTaken(t, c)'
    <2> DEFINE x == L * (Backlog(count, c) - 1)
    <2>1. x \in Nat
      <3>1. TypeOK /\ count \in [Action -> Nat]
        BY DEF LoopInv, LoopTypeOK, TypeOK
      <3>2. Backlog(count, c) \in Nat
        BY <1>8, <3>1, BacklogFacts DEF BusySince
      <3>3. Backlog(count, c) - 1 \in Nat
        BY <1>8, <3>2 DEF OneTaken
      <3>4. QED
        BY <1>7, <3>3
    <2>2. Ns(now) <= t + x /\ Ns(earliest) <= t + x
          /\ Ns(nextEvent.trigger) <= t + x
      BY <1>1, <1>8 DEF OneTaken, L
    <2>3. OneTaken(t, c)' <=>
              /\ c[nextEvent.action] < count[nextEvent.action]
              /\ Backlog(count, c) # 0
              /\ Ns(now') <= t + x + Max(Jitter)
      BY <1>1, <1>6, <1>9 DEF OneTaken
    <2> HIDE DEF x
    <2>4. Ns(u) <= t + x
      BY <1>4, <2>2
    <2>5. Ns(now') <= t + x + Max(Jitter)
      BY <1>5, <1>7, <2>1, <2>4
    <2>6. QED
      BY <1>8, <2>3, <2>5 DEF OneTaken
  <1>12. QED
    BY <1>1, <1>10, <1>11 DEF BusyInv

(* The command and the offset after it end within Longest.                 *)
LEMMA CommandIsBusy ==
    ASSUME LoopInv, BusyInv, TimesBounded,
           NEW dur \in Durations, CommandOk(dur) \/ CommandFails(dur)
    PROVE  BusyInv'
  <1> DEFINE L == Longest
             D == Max(Durations)
             J == Max(Jitter)
             o == Ns(offset)
  <1>1. /\ phase = "io" /\ now' = Later(now, dur)
        /\ earliest' = timespec_add(now', offset)
        /\ UNCHANGED <<eProtocol, offset, actionList, initTime, nextEvent, count>>
        /\ phase' \in {"pick", "connect"}
    BY DEF CommandOk, CommandFails, Command, schedVars, ConnectionLost
  <1>2. now \in TimeVal /\ offset \in TimeVal /\ dur \in Nat
    BY <1>1, ServedAfterStart, LoopAssumption DEF LoopInv, LoopTypeOK
  <1>3. now' \in TimeVal /\ Ns(now') = Ns(now) + dur /\ Ns(now) \in Nat
    <2>1. Later(now, dur) = timespec_add(now, Ns2Timespec(dur))
      BY DEF Later, Ns2Timespec
    <2>2. QED
      BY <1>1, <1>2, <2>1, Ns2TimespecFacts, NsOfSum, NsType, AddType
  <1>4. Ns(earliest') = Ns(now') + o
    BY <1>1, <1>2, <1>3, NsOfSum
  <1>5. Longest' = L /\ Served' = Served
    BY <1>1 DEF Longest, Served
  <1>6. /\ D \in Nat /\ dur <= D /\ J \in Nat /\ o \in Nat
        /\ L \in Nat /\ L = D + o + J
    BY LongestFacts
  <1>7. PICK t \in Nat, c \in [Action -> Nat] : BusySince(t, c) /\ OneTaken(t, c)
    BY <1>1 DEF BusyInv
  <1>8. Backlog(count, c)' = Backlog(count, c)
    BY <1>1 DEF Backlog, ServedSince
  <1>9. BusySince(t, c)'
    BY <1>1, <1>5, <1>7 DEF BusySince, DueAt
  <1>10. PickedUp(t, c)'
    <2> DEFINE b == Backlog(count, c)
               x == L * (b - 1)
    <2>1. b \in Nat \ {0}
      <3>1. TypeOK /\ count \in [Action -> Nat]
        BY DEF LoopInv, LoopTypeOK, TypeOK
      <3>2. b \in Nat
        BY <1>7, <3>1, BacklogFacts DEF BusySince
      <3>3. QED
        BY <1>7, <3>2 DEF OneTaken
    <2>2. Ns(now) <= t + x + J
      BY <1>1, <1>7 DEF OneTaken, L
    <2>3. PickedUp(t, c)' <=>
              Ns(now') <= t + L * b /\ Ns(earliest') <= t + L * b
      BY <1>1, <1>5, <1>8 DEF PickedUp
    <2> HIDE DEF b, L, D, J, o
    <2>4. L * b = x + L /\ x \in Nat
      BY <1>6, <2>1
    <2> HIDE DEF x
    <2> DEFINE y == Ns(now)
    <2>5. Ns(now') = y + dur /\ Ns(earliest') = y + dur + o /\ y <= t + x + J
      BY <1>3, <1>4, <2>2
    <2>6. y \in Nat
      BY <1>3
    <2> HIDE DEF y
    <2>7. y + dur <= t + (x + L) /\ y + dur + o <= t + (x + L)
      BY <1>2, <1>6, <2>4, <2>5, <2>6
    <2>8. QED
      BY <2>3, <2>4, <2>5, <2>7
  <1>11. QED
    BY <1>1, <1>9, <1>10 DEF BusyInv

(* The invariant of the backlog: nothing is served before the loop, and    *)
(* the bus has been busy with what was due.                                *)
LEMMA BusyInvKept ==
    ASSUME LoopInv, LoopInv', FreshInv, BusyInv, TimesBounded,
           [LoopNext]_<<schedVars, loopVars>>
    PROVE  FreshInv' /\ BusyInv'
  <1>1. CASE ConnectFails \/ InitFails
    BY <1>1 DEF ConnectFails, InitFails, FreshInv, BusyInv
  <1>2. CASE Connected
    BY <1>2, EmptyList DEF Connected, InitBegin, FreshInv, BusyInv
  <1>3. CASE FillList
    BY <1>3 DEF FillList, InitInsert, loopVars, FreshInv, BusyInv
  <1>4. CASE EnterLoop
    BY <1>4, EnterLoopIsBusy DEF EnterLoop, FreshInv
  <1>5. CASE Pick
    BY <1>5, PickIsBusy DEF Pick, FreshInv
  <1>6. CASE \E j \in Jitter : Sleep(j)
    BY <1>6, SleepIsBusy DEF Sleep, FreshInv
  <1>7. CASE \E d \in Durations : CommandOk(d) \/ CommandFails(d)
    BY <1>7, CommandIsBusy DEF CommandOk, CommandFails, FreshInv
  <1>8. CASE UNCHANGED <<schedVars, loopVars>>
    <2>1. /\ UNCHANGED <<phase, now, offset, earliest, eProtocol>>
          /\ UNCHANGED <<actionList, count, initTime, nextEvent>>
      BY <1>8 DEF schedVars, loopVars
    <2>2. Longest' = Longest /\ Served' = Served
      BY <2>1 DEF Longest, Served
    <2>3. ASSUME NEW t \in Nat, NEW c \in [Action -> Nat]
          PROVE  /\ BusySince(t, c)' <=> BusySince(t, c)
                 /\ PickedUp(t, c)' <=> PickedUp(t, c)
                 /\ OneTaken(t, c)' <=> OneTaken(t, c)
      <3>1. Backlog(count, c)' = Backlog(count, c)
        BY <2>1 DEF Backlog, ServedSince
      <3>2. QED
        BY <2>1, <2>2, <3>1 DEF BusySince, DueAt, PickedUp, OneTaken
    <2>4. QED
      BY <2>1, <2>3 DEF FreshInv, BusyInv
  <1>9. QED
    BY <1>1, <1>2, <1>3, <1>4, <1>5, <1>6, <1>7, <1>8 DEF LoopNext

(* k services more of an action are due k of its intervals later.          *)
LEMMA DueAtDistance ==
    ASSUME NEW n \in Nat, NEW k \in Nat, NEW a \in Action, initTime \in TimeVal
    PROVE  DueAt(n + k, a) = DueAt(n, a) + k * (NSUS * Interval_us[a])
  <1> DEFINE u == NSUS
             i == Interval_us[a]
             s == Ns(initTime) + NSEC
  <1>1. u \in Nat /\ i \in Nat /\ s \in Nat
    BY UnitAssumption, SchedulerAssumption, NsType, NSECPositive
  <1>2. DueAt(n + k, a) = s + (n + k) * u * i /\ DueAt(n, a) = s + n * u * i
    BY DEF DueAt
  <1> HIDE DEF u, i, s
  <1>3. (n + k) * u * i = n * u * i + k * (u * i)
        /\ n * u * i \in Nat /\ k * (u * i) \in Nat
    <2>1. (n + k) * u = n * u + k * u /\ n * u \in Nat /\ k * u \in Nat
      BY <1>1
    <2>2. \A x, y \in Nat : (x + y) * i = x * i + y * i /\ x * i \in Nat
      BY <1>1
    <2>3. (k * u) * i = k * (u * i)
      BY <1>1
    <2>4. QED
      BY <2>1, <2>2, <2>3
  <1>4. QED
    BY <1>1, <1>2, <1>3 DEF u, i

(* If a command with its offset and late start keeps the bus no longer     *)
(* than the schedule leaves for it, a backlog of N commands is worked off  *)
(* in the time T in which it fell due, but for one command of each of the  *)
(* k actions.                                                              *)
LEMMA BacklogWorkedOff ==
    ASSUME NEW p \in Nat \ {0}, NEW S \in Nat, NEW T \in Nat, NEW N \in Nat,
           NEW k \in Nat, NEW D \in Nat, NEW J \in Nat, NEW o \in Nat,
           p * N <= p * k + T * S,
           (4 * (D + J) + 1) * S <= 3 * p, 4 * S * o <= p + S
    PROVE  (D + o + J) * N <= (D + o + J) * k + T
  <1> DEFINE L == D + o + J
  <1>1. L \in Nat
    OBVIOUS
  <1>2. L * S <= p
    <2>1. /\ 4 * (L * S) = 4 * (D + J) * S + 4 * S * o
          /\ (4 * (D + J) + 1) * S = 4 * (D + J) * S + S
      OBVIOUS
    <2>2. 4 * (D + J) * S \in Nat /\ 4 * S * o \in Nat /\ L * S \in Nat
      OBVIOUS
    <2> DEFINE x == 4 * (D + J) * S
               y == 4 * S * o
               z == L * S
    <2>3. 4 * z = x + y /\ x \in Nat /\ y \in Nat /\ z \in Nat
          /\ x + S <= 3 * p /\ y <= p + S
      BY <2>1, <2>2
    <2> HIDE DEF x, y, z
    <2>4. z <= p
      BY <2>3
    <2>5. QED
      BY <2>4 DEF z
  <1> HIDE DEF L
  <1>3. L * (p * N) <= L * (p * k + T * S)
    <2>1. p * N \in Nat /\ p * k + T * S \in Nat
      <3>1. p * N \in Nat /\ p * k \in Nat /\ T * S \in Nat
        OBVIOUS
      <3>2. QED
        BY <3>1
    <2> DEFINE x == p * N
               y == p * k + T * S
    <2>2. x \in Nat /\ y \in Nat /\ x <= y
      BY <2>1
    <2> HIDE DEF x, y
    <2>3. L * x <= L * y
      BY <1>1, <2>2, Multiplied
    <2>4. QED
      BY <2>3 DEF x, y
  <1>4. T * (L * S) <= T * p
    <2> DEFINE z == L * S
    <2>1. z \in Nat /\ z <= p
      BY <1>1, <1>2
    <2> HIDE DEF z
    <2>2. T * z <= T * p
      BY <2>1, Multiplied
    <2>3. QED
      BY <2>2 DEF z
  <1>5. p * (L * N) <= p * (L * k + T)
    <2>1. L * (p * N) = p * (L * N)
      BY <1>1
    <2>2. L * (p * k + T * S) = L * (p * k) + L * (T * S)
      <3>1. \A x, y \in Nat : L * (x + y) = L * x + L * y
        BY <1>1
      <3>2. p * k \in Nat /\ T * S \in Nat
        OBVIOUS
      <3>3. QED
        BY <3>1, <3>2, Zenon
    <2>3. L * (p * k) = p * (L * k) /\ L * (T * S) = T * (L * S)
      BY <1>1
    <2>4. p * (L * k + T) = p * (L * k) + T * p
      <3>1. \A x, y \in Nat : p * (x + y) = p * x + y * p
        OBVIOUS
      <3>2. L * k \in Nat
        BY <1>1
      <3>3. QED
        BY <3>1, <3>2, Zenon
    <2>5. /\ p * (L * N) \in Nat /\ p * (L * k) \in Nat
          /\ T * (L * S) \in Nat /\ T * p \in Nat
      BY <1>1
    <2> DEFINE a == p * (L * N)
               b == p * (L * k)
               c == T * (L * S)
               d == T * p
    <2>6. a <= b + c /\ c <= d
      BY <1>3, <1>4, <2>1, <2>2, <2>3, Zenon
    <2>7. a \in Nat /\ b \in Nat /\ c \in Nat /\ d \in Nat
      BY <2>5
    <2> HIDE DEF a, b, c, d
    <2>8. a <= b + d
      BY <2>6, <2>7
    <2>9. QED
      BY <2>4, <2>8 DEF a, b, d
  <1>6. L * N \in Nat /\ L * k + T \in Nat
    <2>1. L * N \in Nat /\ L * k \in Nat
      BY <1>1
    <2>2. QED
      BY <2>1
  <1>7. L * N <= L * k + T
    BY <1>5, <1>6, Divided
  <1>8. QED
    BY <1>7 DEF L

(* The bound follows from the invariant.                                   *)
LEMMA BoundFollows ==
    ASSUME LoopInv, BusyInv, TimesBounded, IntervalsFit
    PROVE  LatenessBounded
  <1> SUFFICES ASSUME phase = "io", Fits
               PROVE  Ns(now) - Ns(nextEvent.trigger)
                          <= (Len(actionList) - 1) * Longest + Max(Jitter)
    BY DEF LatenessBounded
  <1> DEFINE l == [i \in DOMAIN actionList |-> Interval_us[actionList[i]]]
             n == [i \in DOMAIN actionList |-> NSUS * Interval_us[actionList[i]]]
             k == Len(actionList)
             p == ProductOf(n)
             S == InverseSum(n)
             D == Max(Durations)
             J == Max(Jitter)
             o == Ns(offset)
             d == Ns(nextEvent.trigger)
             w == nextEvent.action
  <1>1. /\ TypeOK /\ initTime \in TimeVal /\ count \in [Action -> Nat]
        /\ actionList \in Seq(Action) /\ k \in Nat
        /\ DOMAIN actionList = 1 .. k
        /\ now \in TimeVal
    BY DEF LoopInv, LoopTypeOK, TypeOK
  <1>2. w \in Served /\ w \in Action /\ actionList # <<>>
    BY <1>1, EmptyList DEF LoopInv, PhaseInv, Served, ToSet
  <1>3. /\ l \in Seq(Nat \ {0}) /\ l # <<>> /\ Len(l) = k
        /\ DOMAIN l = DOMAIN actionList
    <2>1. \A i \in DOMAIN actionList : Interval_us[actionList[i]] \in Nat \ {0}
      BY <1>1, SchedulerAssumption
    <2>2. l \in [1 .. k -> Nat \ {0}] /\ k # 0
      BY <1>1, <1>2, <2>1
    <2> HIDE DEF l, k
    <2>3. QED
      BY <1>1, <2>2
  <1>4. n = [i \in DOMAIN l |-> NSUS * l[i]]
    BY <1>3
  <1>5. n \in Seq(Nat \ {0}) /\ Len(n) = k /\ DOMAIN n = DOMAIN actionList
    <2> HIDE DEF n, l
    <2>1. n \in Seq(Nat \ {0}) /\ Len(n) = k
      BY <1>3, <1>4, ListInNs
    <2>2. QED
      BY <1>1, <2>1
  <1>6. \A i \in DOMAIN actionList :
            /\ actionList[i] \in Served /\ actionList[i] \in Action
            /\ n[i] = NSUS * Interval_us[actionList[i]] /\ n[i] \in Nat
    BY <1>1, UnitAssumption, SchedulerAssumption DEF Served, ToSet
  <1>7. D \in Nat /\ J \in Nat /\ o \in Nat /\ Longest = D + o + J
    BY LongestFacts
  <1>8. p \in Nat \ {0} /\ S \in Nat
    <2> HIDE DEF n
    <2>1. n \in Seq(Int) /\ n # <<>>
      BY <1>2, <1>5
    <2>2. QED
      BY <1>5, <2>1, ProductFacts, InverseSumPositive
  <1>9. 4 * S * o <= p + S
    <2>1. \A i \in DOMAIN l : NSUS * l[i] < LongLimit
      BY <1>3, <1>6 DEF IntervalsFit
    <2>2. offset \in IF Tcp THEN get_minimal_modbus_event_offset(l)
                     ELSE {rtu_event_offset(l)}
      BY DEF LoopInv, SpacingInv, Offsets
    <2> HIDE DEF l, n
    <2>3. CASE Tcp
      BY <1>3, <1>4, <2>1, <2>2, <2>3, TcpOffsetsFit
    <2>4. CASE ~Tcp
      <3>1. offset = rtu_event_offset(l)
        BY <2>2, <2>4
      <3> DEFINE x == 4 * S * o
      <3>2. x <= p
        BY <1>3, <1>4, <3>1, RtuOffsetsFit
      <3>3. x \in Nat
        <4> HIDE DEF S, o
        <4>1. QED
          BY <1>7, <1>8
      <3> HIDE DEF x, p, S
      <3>4. x <= p + S
        BY <1>8, <3>2, <3>3
      <3>5. QED
        BY <3>4 DEF x
    <2>5. QED
      BY <2>3, <2>4
  <1>10. (4 * (D + J) + 1) * S <= 3 * p
    BY DEF Fits
  <1>11. PICK r \in Seq(Nat \ {0}) :
             /\ Len(r) = k /\ S = SumOf(r)
             /\ \A i \in DOMAIN n : n[i] * r[i] = p
    <2> HIDE DEF n
    <2>1. QED
      BY <1>5, InverseFacts
  <1>12. PICK t \in Nat, c \in [Action -> Nat] :
             BusySince(t, c) /\ OneTaken(t, c)
    BY DEF BusyInv
  <1> DEFINE m == ServedSince(count, c)
             N == Backlog(count, c)
             T == d - t
  <1>13. /\ m \in Seq(Nat) /\ Len(m) = k /\ N \in Nat \ {0} /\ N = SumOf(m)
         /\ \A i \in DOMAIN actionList :
                m[i] = count[actionList[i]] - c[actionList[i]]
    BY <1>1, <1>12, BacklogFacts DEF BusySince, OneTaken, Backlog
  <1>14. Ns(now) <= t + Longest * (N - 1) + J
    BY <1>12 DEF OneTaken
  <1>15. d \in Nat /\ Ns(now) \in Nat
    BY <1>1, ServedAfterStart, NsType
  <1> HIDE DEF l, n, k, p, S, D, J, o, d, m, N
  (* What was served since t was due between t and the trigger time.       *)
  <1>16. ASSUME NEW a \in Served, a \in Action, c[a] < count[a]
         PROVE  \E q \in Nat : /\ count[a] - c[a] = q + 1
                               /\ t + q * (NSUS * Interval_us[a]) <= d
    <2> DEFINE q == count[a] - (c[a] + 1)
    <2>1. /\ c[a] \in Nat /\ count[a] \in Nat /\ c[a] + 1 \in Nat /\ q \in Nat
          /\ count[a] = (c[a] + 1) + q /\ count[a] # 0
          /\ count[a] - c[a] = q + 1
      <3> DEFINE u == count[a]
                 v == c[a]
      <3>1. u \in Nat /\ v \in Nat /\ v < u
        BY <1>1, <1>16
      <3> HIDE DEF u, v
      <3>2. /\ v + 1 \in Nat /\ u - (v + 1) \in Nat /\ u # 0
            /\ u = (v + 1) + (u - (v + 1)) /\ u - v = (u - (v + 1)) + 1
        BY <3>1
      <3>3. QED
        BY <3>1, <3>2 DEF u, v
    <2> HIDE DEF q
    <2>2. DueAt(count[a], a) = DueAt(c[a] + 1, a) + q * (NSUS * Interval_us[a])
      <3>1. DueAt((c[a] + 1) + q, a)
                = DueAt(c[a] + 1, a) + q * (NSUS * Interval_us[a])
        BY <1>1, <1>16, <2>1, DueAtDistance
      <3>2. QED
        BY <2>1, <3>1
    <2>3. DueAt(count[a], a) <= d
      BY <1>16, <2>1 DEF LoopInv, RateInv, ServedInv, d
    <2>4. t <= DueAt(c[a] + 1, a)
      BY <1>12 DEF BusySince
    <2>5. DueAt(c[a] + 1, a) \in Nat /\ DueAt(count[a], a) \in Nat
      BY <1>16, <2>1, DueFacts
    <2>6. q * (NSUS * Interval_us[a]) \in Nat
      <3>1. NSUS * Interval_us[a] \in Nat
        BY <1>16, UnitAssumption, SchedulerAssumption
      <3>2. QED
        BY <2>1, <3>1
    <2> DEFINE x == q * (NSUS * Interval_us[a])
               y == DueAt(c[a] + 1, a)
    <2>7. x \in Nat /\ y \in Nat /\ t <= y /\ y + x <= d
      BY <2>2, <2>3, <2>4, <2>5, <2>6
    <2> HIDE DEF x, y
    <2>8. t + x <= d
      BY <1>15, <2>7
    <2>9. QED
      BY <2>1, <2>8 DEF x
  <1>17. T \in Nat
    <2>1. c[w] < count[w]
      BY <1>12 DEF OneTaken
    <2>2. PICK q \in Nat : t + q * (NSUS * Interval_us[w]) <= d
      BY <1>2, <1>16, <2>1
    <2>3. q * (NSUS * Interval_us[w]) \in Nat
      <3>1. NSUS * Interval_us[w] \in Nat
        BY <1>2, UnitAssumption, SchedulerAssumption
      <3>2. QED
        BY <3>1
    <2> DEFINE x == q * (NSUS * Interval_us[w])
    <2>4. x \in Nat /\ t + x <= d
      BY <2>2, <2>3
    <2> HIDE DEF x
    <2>5. QED
      BY <1>15, <2>4
  <1> HIDE DEF T
  <1>18. ASSUME NEW i \in DOMAIN m PROVE p * m[i] <= p + T * r[i]
    <2> DEFINE a == actionList[i]
               v == NSUS * Interval_us[a]
    <2>1. i \in DOMAIN actionList /\ i \in DOMAIN n /\ i \in DOMAIN r
      BY <1>1, <1>5, <1>11, <1>13
    <2>2. /\ a \in Served /\ a \in Action /\ n[i] = v /\ v \in Nat
          /\ m[i] = count[a] - c[a] /\ r[i] \in Nat /\ v * r[i] = p
      BY <1>6, <1>11, <1>13, <2>1
    <2>3. c[a] \in Nat /\ count[a] \in Nat /\ c[a] <= count[a]
      BY <1>1, <1>12, <2>2 DEF BusySince
    <2> HIDE DEF a
    <2>4. CASE c[a] = count[a]
      <3>1. m[i] = 0
        BY <2>2, <2>3, <2>4
      <3>2. p * 0 = 0 /\ T * r[i] \in Nat
        BY <1>8, <1>17, <2>2
      <3>3. QED
        BY <1>8, <3>1, <3>2
    <2>5. CASE c[a] # count[a]
      <3>1. c[a] < count[a]
        BY <2>3, <2>5
      <3>2. PICK q \in Nat : count[a] - c[a] = q + 1 /\ t + q * v <= d
        BY <1>16, <2>2, <3>1
      <3> HIDE DEF v
      <3>3. q * v \in Nat /\ q * v <= T
        <4>1. q * v \in Nat
          BY <2>2
        <4> DEFINE x == q * v
        <4>2. x \in Nat /\ t + x <= d
          BY <3>2, <4>1
        <4> HIDE DEF x
        <4>3. x <= T
          BY <1>15, <4>2 DEF T
        <4>4. QED
          BY <4>1, <4>3 DEF x
      <3>4. p * (q + 1) = p * q + p /\ p * q = (q * v) * r[i] /\ p * q \in Nat
        <4>1. p * (q + 1) = p * q + p /\ p * q \in Nat
          BY <1>8
        <4>2. (v * r[i]) * q = (q * v) * r[i]
          BY <2>2
        <4>3. QED
          BY <2>2, <4>1, <4>2
      <3>5. (q * v) * r[i] <= T * r[i] /\ T * r[i] \in Nat
        <4> DEFINE x == q * v
        <4>1. x \in Nat /\ x <= T /\ r[i] \in Nat
          BY <2>2, <3>3
        <4> HIDE DEF x
        <4>2. x * r[i] <= T * r[i] /\ T * r[i] \in Nat
          <5>1. r[i] * x <= r[i] * T
            BY <1>17, <4>1, Multiplied
          <5>2. r[i] * x = x * r[i] /\ r[i] * T = T * r[i] /\ T * r[i] \in Nat
            BY <1>17, <4>1
          <5>3. QED
            BY <5>1, <5>2
        <4>3. QED
          BY <4>2 DEF x
      <3> DEFINE y == p * q
                 z == T * r[i]
      <3>6. y \in Nat /\ z \in Nat /\ y <= z /\ p * m[i] = y + p
        BY <2>2, <3>2, <3>4, <3>5
      <3> HIDE DEF y, z
      <3>7. p * m[i] <= p + z
        BY <1>8, <3>6
      <3>8. QED
        BY <3>7 DEF z
    <2>6. QED
      BY <2>4, <2>5
  <1>19. p * N <= p * k + T * S
    <2>1. r \in Seq(Nat) /\ Len(r) = Len(m) /\ p \in Nat
      BY <1>8, <1>11, <1>13
    <2>2. p * SumOf(m) <= p * Len(m) + T * SumOf(r)
      BY <1>13, <1>17, <1>18, <2>1, SumBound
    <2>3. QED
      BY <1>11, <1>13, <2>2
  <1>20. (D + o + J) * N <= (D + o + J) * k + T
    BY <1>1, <1>7, <1>8, <1>9, <1>10, <1>13, <1>17, <1>19, BacklogWorkedOff DEF k
  <1> DEFINE L == D + o + J
  <1>21. L \in Nat /\ L * N <= L * k + T /\ Longest = L
    BY <1>7, <1>20
  <1> HIDE DEF L
  <1>22. L * (N - 1) = L * N - L /\ (k - 1) * L = L * k - L
         /\ L * N \in Nat /\ L * k \in Nat
    BY <1>1, <1>13, <1>21 DEF k
  <1>23. Ns(now) - d <= (k - 1) * L + J
    <2> DEFINE x == L * N
               y == L * k
               z == Ns(now)
    <2>1. /\ z <= t + (x - L) + J /\ x <= y + (d - t)
          /\ x \in Nat /\ y \in Nat /\ z \in Nat
      BY <1>14, <1>15, <1>21, <1>22 DEF T
    <2> HIDE DEF x, y, z
    <2>2. z - d <= (y - L) + J
      BY <1>7, <1>15, <1>21, <2>1
    <2>3. QED
      BY <1>22, <2>2 DEF y, z
  <1>24. QED
    BY <1>21, <1>23 DEF d, k, J

(* The quarter of the schedule that get_minimal_modbus_event_offset takes  *)
(* for the gaps is there to be taken: if commands and late wake-ups leave  *)
(* it, and a nanosecond for the rounding of a double, no action is late by *)
(* more than the time the others take with all of them due at once,        *)
(* whatever their number and their intervals, unless an interval in        *)
(* nanoseconds overflows a long.                                           *)
THEOREM LatenessIsBounded ==
    TimesBounded /\ IntervalsFit => (LoopSpec => []LatenessBounded)
  <1> SUFFICES ASSUME TimesBounded, IntervalsFit
               PROVE  LoopSpec => []LatenessBounded
    OBVIOUS
  <1>1. LoopInit => FreshInv /\ BusyInv
    BY DEF LoopInit, FreshInv, BusyInv
  <1>2. LoopInv /\ LoopInv' /\ FreshInv /\ BusyInv
        /\ [LoopNext]_<<schedVars, loopVars>>
            => FreshInv' /\ BusyInv'
    BY BusyInvKept
  <1>3. LoopInv /\ BusyInv => LatenessBounded
    BY BoundFollows
  <1>4. QED
    BY <1>1, <1>2, <1>3, LoopInvariant, PTL DEF LoopSpec
=============================================================================
