-------------------------- MODULE EventQueueProofs --------------------------
(***************************************************************************)
(* Theorems about the event queue, for any ring, any events and any number *)
(* of functions and callers.                                               *)
(***************************************************************************)
EXTENDS EventQueue, ListLemmas, TLAPS

\* The entries of the ring between its two indices.
Filled ==
  {s \in 0 .. Size - 1 : IF rptr <= wptr THEN rptr <= s /\ s < wptr ELSE rptr <= s \/ s < wptr}

\* Every entry between the indices holds an event.
Occupied == \A s \in Filled : slot[s] \in Event

\* An event is in the list its kind belongs to.
Placed == \A k \in EventLists : \A i \in 1 .. Len(lists[k]) : EventList(lists[k][i].id) = k

\* Popped events are all arranged before anything else happens.
Batched == pc # "arrange" => batch = <<>>

\* The event being handled was the most urgent one, and nothing has replaced it.
InHand ==
  /\ hand # NoEvent <=> pc = "handle"
  /\ pc = "handle" =>
       /\ \A j \in EventLists : j < EventList(hand.id) => lists[j] = <<>>
       /\ EventList(hand.id) \in Replacing =>
            \A i \in 1 .. Len(lists[EventList(hand.id)]) :
              lists[EventList(hand.id)][i].vf # hand.vf

\* Where the event of a waiting caller can be, or what became of it.
OnItsWay(c) ==
  \/ \E s \in Filled : slot[s].by = c
  \/ \E i \in 1 .. Len(batch) : batch[i].by = c
  \/ \E k \in EventLists : \E i \in 1 .. Len(lists[k]) : lists[k][i].by = c
  \/ hand # NoEvent /\ hand.by = c
  \/ Freed(c)
Waiters == \A c \in waiting : OnItsWay(c)

\* Only in the lists where events replace each other are events freed.
FreedPlaces == \A e \in freed : EventList(e.id) \notin {1, 5}

IInv ==
  /\ TypeOK /\ Occupied /\ Placed /\ Batched /\ InHand
  /\ NextIsMostUrgent /\ OneRequestEach /\ Waiters

-----------------------------------------------------------------------------
(* The operators.                                                          *)

\* What a remainder is, in the ranges in which the ring computes one.
LEMMA RemainderUp ==
  \A x \in 0 .. 2 * Size - 1 : x % Size = IF x < Size THEN x ELSE x - Size
BY SizeAssumption

LEMMA RemainderDown == \A x \in 1 - Size .. -1 : x % Size = x + Size
BY SizeAssumption

\* The ring's index stays in the ring and wraps to its first entry.
LEMMA AfterWraps ==
  \A i \in 0 .. Size - 1 : After(i) = IF i = Size - 1 THEN 0 ELSE i + 1
BY RemainderUp, SizeAssumption DEF After

\* What is in the ring is what lies between its indices, in whatever order.
LEMMA RingIsFilled ==
  ASSUME rptr \in 0 .. Size - 1, wptr \in 0 .. Size - 1
  PROVE  /\ Unread \in 0 .. Size - 1
         /\ \A i \in 1 .. Unread : (rptr + i - 1) % Size \in Filled
         /\ \A s \in Filled : \E i \in 1 .. Unread : (rptr + i - 1) % Size = s
<1>1. Unread = IF rptr <= wptr THEN wptr - rptr ELSE wptr - rptr + Size
  <2>1. CASE rptr <= wptr
    BY <2>1, RemainderUp, SizeAssumption DEF Unread
  <2>2. CASE ~(rptr <= wptr)
    BY <2>2, RemainderDown, SizeAssumption DEF Unread
  <2> QED BY <2>1, <2>2
<1>2. ASSUME NEW i \in 1 .. Unread
      PROVE  (rptr + i - 1) % Size =
               IF rptr + i - 1 < Size THEN rptr + i - 1 ELSE rptr + i - 1 - Size
  <2>1. rptr + i - 1 \in 0 .. 2 * Size - 1
    BY <1>1, SizeAssumption
  <2> QED BY <2>1, RemainderUp, SizeAssumption
<1>3. ASSUME NEW i \in 1 .. Unread PROVE (rptr + i - 1) % Size \in Filled
  BY <1>1, <1>2, SizeAssumption DEF Filled
<1>4. ASSUME NEW s \in Filled
      PROVE  \E i \in 1 .. Unread : (rptr + i - 1) % Size = s
  <2> DEFINE j == IF rptr <= s THEN s - rptr + 1 ELSE s - rptr + Size + 1
  <2>1. j \in 1 .. Unread /\ s \in 0 .. Size - 1
    BY <1>1, SizeAssumption DEF Filled
  <2>2. (rptr + j - 1) % Size = s
    BY <2>1, <1>2, SizeAssumption
  <2> QED BY <2>1, <2>2
<1>5. Unread \in 0 .. Size - 1
  BY <1>1, SizeAssumption
<1> QED BY <1>3, <1>4, <1>5

\* Every event has a list, and no event of the lists 1 and 5 replaces another.
LEMMA EventFacts ==
  ASSUME NEW e \in Event
  PROVE  /\ EventList(e.id) \in EventLists
         /\ e.id \in ReplacingId => EventList(e.id) \notin {1, 5}
<1>1. e.id \in EventId
  BY KindsAssumption DEF Event
<1>2. EventList(e.id) \in EventLists
  BY <1>1 DEF EventList, EventLists, EventId
<1>3. e.id \in ReplacingId => EventList(e.id) \notin {1, 5}
  BY DEF EventList, ReplacingId
<1> QED BY <1>2, <1>3

\* Least is the least.
LEMMA LeastFacts ==
  ASSUME NEW S, S \subseteq EventLists, S # {}
  PROVE  Least(S) \in S /\ \A j \in S : Least(S) <= j
<1>1. \E k \in S : \A j \in S : k <= j
  <2> DEFINE k == IF 0 \in S THEN 0 ELSE IF 1 \in S THEN 1 ELSE IF 2 \in S THEN 2
                  ELSE IF 3 \in S THEN 3 ELSE IF 4 \in S THEN 4 ELSE 5
  <2>1. k \in S
    <3>1. PICK i \in S : TRUE
      OBVIOUS
    <3>2. i \in 0 .. 5
      BY <3>1 DEF EventLists
    <3>3. i = 0 \/ i = 1 \/ i = 2 \/ i = 3 \/ i = 4 \/ i = 5
      BY <3>2
    <3> QED BY <3>1, <3>3
  <2>2. \A j \in S : k <= j
    BY DEF EventLists
  <2> QED BY <2>1, <2>2
<1> QED BY <1>1 DEF Least

LEMMA LeastOne ==
  ASSUME NEW n \in Nat, NEW S, S \subseteq 1 .. n, 1 \in S
  PROVE  Least(S) = 1
<1>1. \A j \in S : 1 <= j
  OBVIOUS
<1>2. \A k \in S : (\A j \in S : k <= j) => k = 1
  OBVIOUS
<1> QED BY <1>1, <1>2 DEF Least

-----------------------------------------------------------------------------
(* The invariant.                                                          *)

LEMMA InitInv == Init => IInv
<1> SUFFICES ASSUME Init PROVE IInv
  OBVIOUS
<1>1. TypeOK
  <2>1. slot \in [0 .. Size - 1 -> Event \union {NoEvent}]
    BY DEF Init
  <2>2. lists \in [EventLists -> Seq(Event)] /\ batch \in Seq(Event)
    BY DEF Init
  <2>3. rptr \in 0 .. Size - 1 /\ wptr \in 0 .. Size - 1 /\ pushed \in 0 .. MaxEvents
    BY SizeAssumption, MaxEventsAssumption DEF Init
  <2>4. cur \in EventLists /\ sig \in Nat
    BY DEF Init, EventLists
  <2>5. /\ next \in Event \union {NoEvent} /\ hand \in Event \union {NoEvent}
        /\ pc = "wait" /\ fa \in VF \union {PF, NoVf} /\ waiting \subseteq Client
        /\ locked \in BOOLEAN /\ saving \in BOOLEAN /\ freed \subseteq Event
    BY DEF Init
  <2> QED BY <2>1, <2>2, <2>3, <2>4, <2>5 DEF TypeOK
<1>2. Filled = {}
  BY SizeAssumption DEF Init, Filled
<1>3. Placed /\ OneRequestEach
  BY DEF Init, Placed, OneRequestEach, Replacing, EventLists
<1>4. NextIsMostUrgent /\ InHand /\ Batched /\ Waiters
  BY DEF Init, NextIsMostUrgent, InHand, Batched, Waiters
<1> QED BY <1>1, <1>2, <1>3, <1>4 DEF IInv, Occupied

\* An event that is accepted takes the free entry at the write index.
LEMMA PushFills ==
  ASSUME TypeOK, ~Full, wptr' = After(wptr), UNCHANGED rptr
  PROVE  /\ wptr' \in 0 .. Size - 1
         /\ Filled' = Filled \union {wptr}
         /\ wptr \notin Filled
<1>1. wptr \in 0 .. Size - 1 /\ rptr \in 0 .. Size - 1
  BY DEF TypeOK
<1>2. wptr' = IF wptr = Size - 1 THEN 0 ELSE wptr + 1
  BY <1>1, AfterWraps
<1>3. wptr' # rptr
  BY DEF Full
<1>4. wptr' \in 0 .. Size - 1
  BY <1>1, <1>2, SizeAssumption
<1>5. wptr \notin Filled
  BY <1>1 DEF Filled
<1>6. ASSUME NEW s \in 0 .. Size - 1
      PROVE  (s \in Filled') <=> (s \in Filled \/ s = wptr)
  BY <1>1, <1>2, <1>3, SizeAssumption DEF Filled
<1>7. Filled' = Filled \union {wptr}
  BY <1>1, <1>6 DEF Filled
<1> QED BY <1>4, <1>5, <1>7

LEMMA PushStep ==
  ASSUME IInv, NEW id \in Kinds, NEW vf \in Subject(id), NEW by \in Caller(id, vf), Push(id, vf, by)
  PROVE  IInv'
<1> DEFINE e == [id |-> id, vf |-> vf, by |-> by, finished |-> FALSE]
<1>a. TypeOK /\ Occupied /\ Placed /\ Batched /\ InHand /\ NextIsMostUrgent /\ OneRequestEach /\ Waiters
  BY DEF IInv
<1>b. UNCHANGED <<rptr, batch, lists, next, cur, hand, pc, fa, locked, saving, freed>> /\ pushed' \in 0 .. MaxEvents
  BY <1>a, MaxEventsAssumption DEF Push, arranged, sched, TypeOK
<1>1. Placed' /\ Batched' /\ InHand' /\ NextIsMostUrgent' /\ OneRequestEach'
  BY <1>a, <1>b DEF Placed, Batched, InHand, NextIsMostUrgent, OneRequestEach
<1>2. CASE UNCHANGED <<slot, wptr, sig, waiting>>
  <2>1. TypeOK'
    BY <1>a, <1>b, <1>2 DEF TypeOK
  <2>2. Occupied' /\ Waiters'
    BY <1>a, <1>b, <1>2 DEF Occupied, Waiters, OnItsWay, Filled, Freed
  <2> QED BY <1>1, <2>1, <2>2 DEF IInv
<1>3. CASE /\ ~Full
           /\ slot' = [slot EXCEPT ![wptr] = e]
           /\ wptr' = After(wptr)
           /\ sig' \in Nat
           /\ waiting' = waiting \union ({by} \ {NoClient})
  <2>1. e \in Event
    <3>1. Subject(id) \subseteq VF \union {PF} /\ Caller(id, vf) \subseteq Client \union {NoClient}
      BY RequesterAssumption DEF Subject, Caller
    <3> QED BY <3>1 DEF Event
  <2>2. wptr' \in 0 .. Size - 1 /\ Filled' = Filled \union {wptr} /\ wptr \notin Filled
    BY <1>a, <1>b, <1>3, PushFills
  <2>3. wptr \in 0 .. Size - 1 /\ slot \in [0 .. Size - 1 -> Event \union {NoEvent}]
    BY <1>a DEF TypeOK
  <2>4. slot' \in [0 .. Size - 1 -> Event \union {NoEvent}]
    BY <1>3, <2>1, <2>3
  <2>5. waiting' \subseteq Client
    <3>1. by \in Client \union {NoClient}
      BY DEF Caller
    <3> QED BY <1>a, <1>3, <3>1 DEF TypeOK
  <2>6. TypeOK'
    BY <1>a, <1>b, <1>3, <2>2, <2>4, <2>5 DEF TypeOK
  <2>7. slot'[wptr] = e /\ \A s \in Filled : slot'[s] = slot[s]
    BY <1>3, <2>2, <2>3 DEF Filled
  <2>8. Occupied'
    BY <1>a, <2>1, <2>2, <2>7 DEF Occupied
  <2>9. ASSUME NEW c \in waiting' PROVE OnItsWay(c)'
    <3>1. CASE c = by
      <4>1. \E s \in Filled' : slot'[s].by = c
        BY <3>1, <2>2, <2>7
      <4> QED BY <4>1 DEF OnItsWay
    <3>2. CASE c \in waiting
      <4>1. OnItsWay(c)
        BY <3>2, <1>a DEF Waiters
      <4>2. (\E s \in Filled : slot[s].by = c) => (\E s \in Filled' : slot'[s].by = c)
        BY <2>2, <2>7
      <4> QED BY <4>1, <4>2, <1>b DEF OnItsWay, Freed
    <3> QED BY <1>3, <3>1, <3>2
  <2> QED BY <1>1, <2>6, <2>8, <2>9 DEF IInv, Waiters
<1>4. (IF id = "SET_VF_COND_AVAIL" THEN sig ELSE sig + 1) \in Nat
  BY <1>a DEF TypeOK
<1> QED BY <1>2, <1>3, <1>4 DEF Push

LEMMA PopStep ==
  ASSUME IInv, Pop
  PROVE  IInv'
<1>a. TypeOK /\ Occupied /\ Placed /\ Batched /\ InHand /\ NextIsMostUrgent /\ OneRequestEach /\ Waiters
  BY DEF IInv
<1>b. UNCHANGED <<wptr, lists, next, cur, hand, sig, waiting, fa, locked, saving, pushed, freed>>
  BY DEF Pop, arranged, sched, ring
<1>c. pc = "pick" /\ batch = <<>>
  BY <1>a DEF Pop, Batched
<1>1. pc' \in {"choose", "arrange"}
  BY DEF Pop
<1>2. Placed' /\ InHand' /\ NextIsMostUrgent' /\ OneRequestEach'
  BY <1>a, <1>b, <1>c, <1>1 DEF Placed, InHand, NextIsMostUrgent, OneRequestEach
<1>3. CASE Unread = 0 /\ pc' = "choose" /\ UNCHANGED <<ring, batch>>
  <2>1. TypeOK' /\ Batched'
    BY <1>a, <1>b, <1>c, <1>3 DEF TypeOK, ring, Batched
  <2>2. Occupied' /\ Waiters'
    BY <1>a, <1>b, <1>3 DEF Occupied, Waiters, OnItsWay, Filled, Freed, ring
  <2> QED BY <1>2, <2>1, <2>2 DEF IInv
<1>4. CASE /\ Unread # 0 /\ pc' = "arrange"
           /\ batch' = Ring
           /\ rptr' = wptr /\ slot' = [s \in DOMAIN slot |-> NoEvent] /\ UNCHANGED wptr
  <2>1. rptr \in 0 .. Size - 1 /\ wptr \in 0 .. Size - 1
    BY <1>a DEF TypeOK
  <2>2. /\ Unread \in 0 .. Size - 1
        /\ \A i \in 1 .. Unread : (rptr + i - 1) % Size \in Filled
        /\ \A s \in Filled : \E i \in 1 .. Unread : (rptr + i - 1) % Size = s
    BY <2>1, RingIsFilled
  <2>3. \A i \in 1 .. Unread : slot[(rptr + i - 1) % Size] \in Event
    BY <1>a, <2>2 DEF Occupied
  <2>4. batch' \in Seq(Event) /\ Len(batch') = Unread
        /\ \A i \in 1 .. Unread : batch'[i] = slot[(rptr + i - 1) % Size]
    BY <1>4, <2>2, <2>3 DEF Ring
  <2>5. slot' \in [0 .. Size - 1 -> Event \union {NoEvent}]
    BY <1>a, <1>4 DEF TypeOK
  <2>6. TypeOK'
    BY <1>a, <1>b, <1>4, <2>4, <2>5 DEF TypeOK
  <2>7. Filled' = {}
    BY <1>4, <2>1 DEF Filled
  <2>8. Occupied' /\ Batched'
    BY <1>4, <2>7 DEF Occupied, Batched
  <2>9. ASSUME NEW c \in waiting' PROVE OnItsWay(c)'
    <3>1. OnItsWay(c)
      BY <1>a, <1>b DEF Waiters
    <3>2. (\E s \in Filled : slot[s].by = c) => \E i \in 1 .. Len(batch') : batch'[i].by = c
      <4> SUFFICES ASSUME NEW s \in Filled, slot[s].by = c
                   PROVE  \E i \in 1 .. Len(batch') : batch'[i].by = c
        OBVIOUS
      <4>1. PICK i \in 1 .. Unread : (rptr + i - 1) % Size = s
        BY <2>2
      <4> QED BY <4>1, <2>4
    <3>3. ~ \E i \in 1 .. Len(batch) : batch[i].by = c
      BY <1>c
    <3> QED BY <3>1, <3>2, <3>3, <1>b DEF OnItsWay, Freed
  <2> QED BY <1>2, <2>6, <2>8, <2>9 DEF IInv, Waiters
<1> QED BY <1>3, <1>4 DEF Pop

\* Where the element at position i was before position p was taken out.
Elsewhere(i, p) == IF i < p THEN i ELSE i + 1

\* Taking an event out of its list leaves the lists in order.
LEMMA RemoveKeeps ==
  ASSUME TypeOK, Placed, OneRequestEach,
         NEW k \in EventLists, NEW p \in 1 .. Len(lists[k]),
         lists' = [lists EXCEPT ![k] = RemoveAt(@, p)]
  PROVE  /\ lists' \in [EventLists -> Seq(Event)] /\ Placed' /\ OneRequestEach'
         /\ \A j \in EventLists : j # k => lists'[j] = lists[j]
         /\ Len(lists'[k]) = Len(lists[k]) - 1
         /\ \A i \in 1 .. Len(lists'[k]) : /\ Elsewhere(i, p) \in 1 .. Len(lists[k])
                                           /\ lists'[k][i] = lists[k][Elsewhere(i, p)]
<1>1. lists[k] \in Seq(Event) /\ Len(lists[k]) \in Nat
  BY DEF TypeOK
<1>2. /\ RemoveAt(lists[k], p) \in Seq(Event)
      /\ Len(RemoveAt(lists[k], p)) = Len(lists[k]) - 1
      /\ \A i \in 1 .. Len(lists[k]) - 1 : RemoveAt(lists[k], p)[i] = lists[k][Elsewhere(i, p)]
  BY <1>1, RemoveAtFacts DEF Elsewhere
<1>3. /\ lists' \in [EventLists -> Seq(Event)]
      /\ lists'[k] = RemoveAt(lists[k], p)
      /\ \A j \in EventLists : j # k => lists'[j] = lists[j]
  BY <1>2 DEF TypeOK
<1>4. \A i \in 1 .. Len(lists'[k]) : /\ Elsewhere(i, p) \in 1 .. Len(lists[k])
                                     /\ lists'[k][i] = lists[k][Elsewhere(i, p)]
  BY <1>1, <1>2, <1>3 DEF Elsewhere
<1>5. Placed'
  BY <1>3, <1>4 DEF Placed
<1>6. OneRequestEach'
  <2> SUFFICES ASSUME NEW j \in Replacing, NEW i1 \in DOMAIN lists'[j], NEW i2 \in DOMAIN lists'[j],
                      lists'[j][i1].vf = lists'[j][i2].vf
               PROVE  i1 = i2
    BY DEF OneRequestEach
  <2>1. CASE j # k
    BY <1>3, <2>1 DEF OneRequestEach, Replacing, EventLists
  <2>2. CASE j = k
    <3>1. i1 \in 1 .. Len(lists'[k]) /\ i2 \in 1 .. Len(lists'[k])
      BY <1>3, <2>2
    <3>2. Elsewhere(i1, p) \in DOMAIN lists[k] /\ Elsewhere(i2, p) \in DOMAIN lists[k]
      BY <1>1, <1>4, <3>1
    <3>3. lists[k][Elsewhere(i1, p)].vf = lists[k][Elsewhere(i2, p)].vf
      BY <1>4, <2>2, <3>1
    <3>4. Elsewhere(i1, p) = Elsewhere(i2, p)
      BY <2>2, <3>2, <3>3 DEF OneRequestEach
    <3> QED BY <3>1, <3>4 DEF Elsewhere
  <2> QED BY <2>1, <2>2
<1> QED BY <1>1, <1>2, <1>3, <1>4, <1>5, <1>6

\* The older event that is dropped is remembered, should anybody wait for it.
LEMMA DropStep ==
  ASSUME IInv, pc = "arrange", batch # <<>>,
         NEW p \in Older(Head(batch)),
         lists' = [lists EXCEPT ![EventList(Head(batch).id)] = RemoveAt(@, p)],
         freed' = freed \union
           {x \in {lists[EventList(Head(batch).id)][p]} : x.by # NoClient},
         UNCHANGED <<ring, batch, next, cur, hand, pc, sig, waiting, sched, pushed>>
  PROVE  IInv'
<1> DEFINE k == EventList(Head(batch).id)
<1>a. TypeOK /\ Occupied /\ Placed /\ Batched /\ InHand /\ NextIsMostUrgent /\ OneRequestEach /\ Waiters
  BY DEF IInv
<1>b. UNCHANGED <<slot, rptr, wptr, fa, locked, saving>>
  BY DEF ring, sched
<1>1. Head(batch) \in Event
  BY <1>a, HeadTailProperties DEF TypeOK
<1>2. k \in EventLists /\ p \in 1 .. Len(lists[k])
  BY <1>a, <1>1, EventFacts DEF Older, TypeOK
<1>3. lists[k] \in Seq(Event)
  BY <1>a, <1>2 DEF TypeOK
<1>c. freed' = freed \union {x \in {lists[k][p]} : x.by # NoClient}
  OBVIOUS
<1>d. lists[k][p] \in Event
  BY <1>2, <1>3
<1> HIDE DEF k
<1>4. /\ lists' \in [EventLists -> Seq(Event)] /\ Placed' /\ OneRequestEach'
      /\ \A j \in EventLists : j # k => lists'[j] = lists[j]
      /\ Len(lists'[k]) = Len(lists[k]) - 1
      /\ \A i \in 1 .. Len(lists'[k]) : /\ Elsewhere(i, p) \in 1 .. Len(lists[k])
                                        /\ lists'[k][i] = lists[k][Elsewhere(i, p)]
  <2>1. lists' = [lists EXCEPT ![k] = RemoveAt(@, p)]
    BY DEF k
  <2> QED BY <1>a, <1>2, <2>1, RemoveKeeps
<1>5. TypeOK'
  <2>1. freed' \subseteq Event
    BY <1>a, <1>c, <1>d DEF TypeOK
  <2> QED BY <1>a, <1>b, <1>4, <2>1 DEF TypeOK
<1>6. Occupied' /\ Batched' /\ InHand' /\ NextIsMostUrgent'
  BY <1>a, <1>b DEF Occupied, Batched, InHand, NextIsMostUrgent, Filled
<1>7. Waiters'
  <2> SUFFICES ASSUME NEW c \in waiting PROVE OnItsWay(c)'
    BY DEF Waiters
  <2>1. OnItsWay(c) /\ c # NoClient
    BY <1>a, NamesAssumption DEF Waiters, TypeOK
  <2>2. CASE lists[k][p].by = c
    <3>1. lists[k][p] \in freed'
      BY <1>c, <2>1, <2>2
    <3> QED BY <2>2, <3>1 DEF OnItsWay, Freed
  <2>3. CASE lists[k][p].by # c
    <3>1. ASSUME NEW j \in EventLists, NEW i \in 1 .. Len(lists[j]), lists[j][i].by = c
          PROVE  \E n \in 1 .. Len(lists'[j]) : lists'[j][n].by = c
      <4>1. CASE j # k
        BY <1>4, <3>1, <4>1
      <4>2. CASE j = k
        <5> DEFINE n == IF i < p THEN i ELSE i - 1
        <5>1. i # p
          BY <2>3, <3>1, <4>2
        <5>2. n \in 1 .. Len(lists'[k]) /\ Elsewhere(n, p) = i
          BY <1>2, <1>3, <1>4, <4>2, <5>1 DEF Elsewhere
        <5>3. lists'[k][n] = lists[k][i]
          BY <1>4, <5>2
        <5> QED BY <3>1, <4>2, <5>2, <5>3
      <4> QED BY <4>1, <4>2
    <3>2. Freed(c) => Freed(c)'
      BY <1>c DEF Freed
    <3> QED BY <1>b, <2>1, <3>1, <3>2 DEF OnItsWay, Filled, Freed
  <2> QED BY <2>2, <2>3
<1> QED BY <1>4, <1>5, <1>6, <1>7 DEF IInv

LEMMA ArrangeStep ==
  ASSUME IInv, Arrange
  PROVE  IInv'
<1> DEFINE e == Head(batch)
           k == EventList(e.id)
<1>a. TypeOK /\ Occupied /\ Placed /\ Batched /\ InHand /\ NextIsMostUrgent /\ OneRequestEach /\ Waiters
  BY DEF IInv
<1>b. /\ pc = "arrange" /\ batch # <<>>
      /\ UNCHANGED <<slot, rptr, wptr, next, cur, hand, pc, sig, waiting, fa, locked, saving, pushed>>
  BY DEF Arrange, ring, sched
<1>1. CASE \E p \in Older(e) : /\ lists' = [lists EXCEPT ![k] = RemoveAt(@, p)]
                              /\ freed' = freed \union {x \in {lists[k][p]} : x.by # NoClient}
                              /\ UNCHANGED batch
  BY <1>1, <1>b, DropStep DEF ring, sched
<1>2. CASE /\ Older(e) = {} /\ lists' = [lists EXCEPT ![k] = Append(@, e)]
           /\ batch' = Tail(batch) /\ UNCHANGED freed
  <2>1. /\ e \in Event /\ batch' \in Seq(Event) /\ Len(batch') = Len(batch) - 1
        /\ \A i \in 1 .. Len(batch') : batch'[i] = batch[i + 1]
    BY <1>a, <1>b, <1>2, HeadTailProperties DEF TypeOK
  <2>2. k \in EventLists /\ lists[k] \in Seq(Event)
    BY <1>a, <2>1, EventFacts DEF TypeOK
  <2>3. k \in Replacing => \A i \in 1 .. Len(lists[k]) : lists[k][i].vf # e.vf
    BY <1>2, <2>2 DEF Older
  <2>4. e = batch[1] /\ Len(batch) \in Nat /\ Len(batch) > 0
    BY <1>a, <1>b DEF TypeOK
  <2> HIDE DEF e, k
  <2>5. /\ lists' \in [EventLists -> Seq(Event)]
        /\ lists'[k] = Append(lists[k], e)
        /\ \A j \in EventLists : j # k => lists'[j] = lists[j]
    BY <1>a, <1>2, <2>1, <2>2 DEF TypeOK
  <2>6. /\ Len(lists'[k]) = Len(lists[k]) + 1
        /\ \A i \in 1 .. Len(lists[k]) : lists'[k][i] = lists[k][i]
        /\ lists'[k][Len(lists[k]) + 1] = e
    BY <2>1, <2>2, <2>5, AppendProperties
  <2>7. TypeOK'
    BY <1>a, <1>b, <1>2, <2>1, <2>5 DEF TypeOK
  <2>8. Occupied' /\ Batched' /\ InHand' /\ NextIsMostUrgent'
    BY <1>a, <1>b DEF Occupied, Batched, InHand, NextIsMostUrgent, Filled
  <2>9. \A i \in 1 .. Len(lists'[k]) : i \in 1 .. Len(lists[k]) \/ i = Len(lists[k]) + 1
    BY <2>2, <2>6
  <2>10. Placed'
    <3>1. EventList(e.id) = k
      BY DEF k, e
    <3> QED BY <1>a, <2>5, <2>6, <2>9, <3>1 DEF Placed
  <2>11. OneRequestEach'
    <3> SUFFICES ASSUME NEW j \in Replacing, NEW i1 \in DOMAIN lists'[j], NEW i2 \in DOMAIN lists'[j],
                        lists'[j][i1].vf = lists'[j][i2].vf
                 PROVE  i1 = i2
      BY DEF OneRequestEach
    <3>1. CASE j # k
      <4>1. j \in EventLists
        BY DEF Replacing, EventLists
      <4>2. lists'[j] = lists[j]
        BY <2>5, <3>1, <4>1
      <4> QED BY <1>a, <4>2 DEF OneRequestEach
    <3>2. CASE j = k
      <4>1. i1 \in 1 .. Len(lists'[k]) /\ i2 \in 1 .. Len(lists'[k])
        BY <2>2, <2>5, <3>2
      <4>2. CASE i1 \in 1 .. Len(lists[k]) /\ i2 \in 1 .. Len(lists[k])
        <5>1. lists[k][i1].vf = lists[k][i2].vf
          BY <2>6, <3>2, <4>2
        <5>2. i1 \in DOMAIN lists[k] /\ i2 \in DOMAIN lists[k]
          BY <2>2, <4>2
        <5> QED BY <1>a, <3>2, <5>1, <5>2 DEF OneRequestEach
      <4>3. CASE i1 \in 1 .. Len(lists[k]) /\ i2 = Len(lists[k]) + 1
        BY <2>3, <2>6, <3>2, <4>3
      <4>4. CASE i2 \in 1 .. Len(lists[k]) /\ i1 = Len(lists[k]) + 1
        BY <2>3, <2>6, <3>2, <4>4
      <4> QED BY <2>9, <4>1, <4>2, <4>3, <4>4
    <3> QED BY <3>1, <3>2
  <2>12. Waiters'
    <3> SUFFICES ASSUME NEW c \in waiting PROVE OnItsWay(c)'
      BY <1>b DEF Waiters
    <3>1. OnItsWay(c)
      BY <1>a DEF Waiters
    <3>2. ASSUME NEW i \in 1 .. Len(batch), batch[i].by = c
          PROVE  \/ \E n \in 1 .. Len(batch') : batch'[n].by = c
                 \/ \E n \in 1 .. Len(lists'[k]) : lists'[k][n].by = c
      <4>1. CASE i = 1
        <5>1. Len(lists[k]) + 1 \in 1 .. Len(lists'[k])
          BY <2>2, <2>6
        <5> QED BY <2>4, <2>6, <3>2, <4>1, <5>1
      <4>2. CASE i # 1
        <5>1. i - 1 \in 1 .. Len(batch') /\ batch'[i - 1] = batch[i]
          BY <2>1, <2>4, <4>2
        <5> QED BY <3>2, <5>1
      <4> QED BY <4>1, <4>2
    <3>3. ASSUME NEW j \in EventLists, NEW i \in 1 .. Len(lists[j]), lists[j][i].by = c
          PROVE  \E n \in 1 .. Len(lists'[j]) : lists'[j][n].by = c
      <4>1. CASE j # k
        BY <2>5, <3>3, <4>1
      <4>2. CASE j = k
        <5>1. i \in 1 .. Len(lists'[k])
          BY <2>2, <2>6, <4>2
        <5> QED BY <2>6, <3>3, <4>2, <5>1
      <4> QED BY <4>1, <4>2
    <3> QED BY <1>b, <1>2, <2>2, <3>1, <3>2, <3>3 DEF OnItsWay, Filled, Freed
  <2> QED BY <2>7, <2>8, <2>10, <2>11, <2>12 DEF IInv
<1> QED BY <1>1, <1>2 DEF Arrange

LEMMA StartOverStep ==
  ASSUME IInv, StartOver
  PROVE  IInv'
<1>a. TypeOK /\ Occupied /\ Placed /\ Batched /\ InHand /\ OneRequestEach /\ Waiters
  BY DEF IInv
<1>b. /\ pc = "arrange" /\ batch = <<>> /\ pc' = "choose" /\ next' = NoEvent /\ cur' = 0
      /\ UNCHANGED <<slot, rptr, wptr, batch, lists, hand, sig, waiting, fa, locked, saving, pushed, freed>>
  BY DEF StartOver, ring, sched
<1>1. TypeOK'
  BY <1>a, <1>b DEF TypeOK, EventLists
<1>2. Occupied' /\ Placed' /\ OneRequestEach' /\ Waiters'
  BY <1>a, <1>b DEF Occupied, Placed, OneRequestEach, Waiters, OnItsWay, Filled, Freed
<1>3. Batched' /\ InHand' /\ NextIsMostUrgent'
  BY <1>a, <1>b DEF Batched, InHand, NextIsMostUrgent
<1> QED BY <1>1, <1>2, <1>3 DEF IInv

LEMMA PickStep ==
  ASSUME IInv, Pick
  PROVE  IInv'
<1>a. TypeOK /\ Occupied /\ Placed /\ Batched /\ InHand /\ NextIsMostUrgent /\ OneRequestEach /\ Waiters
  BY DEF IInv
<1>b. pc = "choose" /\ UNCHANGED <<slot, rptr, wptr, batch, sig, waiting, fa, locked, saving, pushed, freed>>
  BY DEF Pick, ring, sched
<1>1. CASE next = NoEvent /\ NonEmpty(0) = {} /\ pc' = "again" /\ UNCHANGED <<arranged, hand>>
  <2>1. UNCHANGED <<lists, next, cur>>
    BY <1>1 DEF arranged
  <2>2. TypeOK'
    BY <1>a, <1>b, <1>1, <2>1 DEF TypeOK
  <2>3. Occupied' /\ Placed' /\ OneRequestEach' /\ Waiters'
    BY <1>a, <1>b, <1>1, <2>1 DEF Occupied, Placed, OneRequestEach, Waiters, OnItsWay, Filled, Freed
  <2>4. Batched' /\ InHand' /\ NextIsMostUrgent'
    BY <1>a, <1>b, <1>1, <2>1 DEF Batched, InHand, NextIsMostUrgent
  <2> QED BY <2>2, <2>3, <2>4 DEF IInv
<1>2. ASSUME NEW k \in NonEmpty(0), NEW p \in DOMAIN lists[k],
             IsNext(k, p), pc' = "handle", hand' = lists[k][p],
             lists' = [lists EXCEPT ![k] = RemoveAt(@, p)],
             Advance(k, p)
      PROVE  IInv'
  <2>1. k \in EventLists /\ lists[k] # <<>> /\ lists[k] \in Seq(Event) /\ NonEmpty(0) \subseteq EventLists
    BY <1>a DEF NonEmpty, EventLists, TypeOK
  <2>2. p = 1 /\ \A j \in EventLists : j < k => lists[j] = <<>>
    <3>1. CASE next = NoEvent
      <4>1. p = 1 /\ k = Least(NonEmpty(0))
        BY <1>2, <3>1 DEF IsNext
      <4>2. \A j \in NonEmpty(0) : k <= j
        BY <2>1, <4>1, LeastFacts
      <4>3. ASSUME NEW j \in EventLists, j < k PROVE lists[j] = <<>>
        BY <2>1, <4>2, <4>3 DEF NonEmpty, EventLists
      <4> QED BY <4>1, <4>3
    <3>2. CASE next # NoEvent
      <4>1. k = cur /\ p = Least({q \in DOMAIN lists[k] : lists[k][q] = next})
        BY <1>2, <3>2 DEF IsNext
      <4>2. lists[k] # <<>> /\ Head(lists[k]) = next /\ \A j \in 0 .. k - 1 : lists[j] = <<>>
        BY <1>a, <1>b, <3>2, <4>1 DEF NextIsMostUrgent
      <4>3. Len(lists[k]) \in Nat /\ 1 \in 1 .. Len(lists[k]) /\ DOMAIN lists[k] = 1 .. Len(lists[k])
            /\ lists[k][1] = next
        BY <2>1, <4>2
      <4>4. p = 1
        BY <4>1, <4>3, LeastOne
      <4>5. \A j \in EventLists : j < k => j \in 0 .. k - 1
        BY <2>1 DEF EventLists
      <4> QED BY <4>2, <4>4, <4>5
    <3> QED BY <3>1, <3>2
  <2>3. Len(lists[k]) \in Nat /\ p \in 1 .. Len(lists[k])
    BY <2>1, <2>2
  <2>4. /\ lists' \in [EventLists -> Seq(Event)] /\ Placed' /\ OneRequestEach'
        /\ \A j \in EventLists : j # k => lists'[j] = lists[j]
        /\ Len(lists'[k]) = Len(lists[k]) - 1
        /\ \A i \in 1 .. Len(lists'[k]) : /\ Elsewhere(i, p) \in 1 .. Len(lists[k])
                                          /\ lists'[k][i] = lists[k][Elsewhere(i, p)]
    BY <1>a, <1>2, <2>1, <2>3, RemoveKeeps
  <2>5. \A i \in 1 .. Len(lists'[k]) : i + 1 \in 1 .. Len(lists[k]) /\ lists'[k][i] = lists[k][i + 1]
    BY <2>2, <2>3, <2>4 DEF Elsewhere
  <2>6. hand' \in Event /\ EventList(hand'.id) = k
    BY <1>a, <1>2, <2>1, <2>3 DEF Placed
  <2>7. /\ next' \in Event \union {NoEvent} /\ cur' \in EventLists
        /\ next' # NoEvent => /\ lists'[cur'] # <<>> /\ Head(lists'[cur']) = next'
                              /\ \A j \in 0 .. cur' - 1 : lists'[j] = <<>>
    <3> DEFINE later == NonEmpty(k + 1)
    <3>1. later \subseteq EventLists /\ \A j \in later : j > k /\ lists[j] # <<>>
      BY <2>1 DEF NonEmpty, EventLists
    <3>2. CASE p < Len(lists[k])
      <4>1. next' = lists[k][2] /\ cur' = k
        BY <1>2, <2>2, <3>2 DEF Advance
      <4>2. 1 \in 1 .. Len(lists'[k]) /\ lists'[k] \in Seq(Event)
        BY <2>1, <2>2, <2>3, <2>4, <3>2
      <4>3. lists'[k][1] = lists[k][2] /\ lists[k][2] \in Event
        BY <2>1, <2>5, <4>2
      <4>4. lists'[k] # <<>> /\ Head(lists'[k]) = next'
        BY <4>1, <4>2, <4>3
      <4>5. \A j \in 0 .. k - 1 : j \in EventLists /\ j # k /\ j < k
        BY <2>1 DEF EventLists
      <4>6. \A j \in 0 .. k - 1 : lists'[j] = <<>>
        BY <2>2, <2>4, <4>5
      <4> QED BY <2>1, <4>1, <4>3, <4>4, <4>6
    <3>3. CASE ~(p < Len(lists[k])) /\ later = {}
      <4>1. next' = NoEvent /\ cur' = 0
        BY <1>2, <3>3 DEF Advance
      <4> QED BY <4>1 DEF EventLists
    <3>4. CASE ~(p < Len(lists[k])) /\ later # {}
      <4> DEFINE l == Least(later)
      <4>1. next' = Head(lists[l]) /\ cur' = l
        BY <1>2, <3>4 DEF Advance
      <4>2. l \in later /\ \A j \in later : l <= j
        BY <3>1, <3>4, LeastFacts
      <4> HIDE DEF l, later
      <4>3. l \in EventLists /\ l # k /\ lists[l] # <<>> /\ lists'[l] = lists[l] /\ lists[l] \in Seq(Event)
        <5>1. l \in EventLists /\ l # k /\ lists[l] # <<>>
          BY <2>1, <3>1, <4>2 DEF EventLists
        <5> QED BY <1>a, <2>4, <5>1 DEF TypeOK
      <4>4. Head(lists[l]) \in Event
        BY <4>3, HeadTailProperties
      <4>5. lists'[k] = <<>>
        <5>1. Len(lists'[k]) = 0 /\ lists'[k] \in Seq(Event)
          <6>1. p = 1 /\ ~(p < Len(lists[k]))
            BY <2>2, <3>4
          <6>2. Len(lists[k]) = 1
            <7> DEFINE n == Len(lists[k])
            <7>1. n \in Nat /\ p \in 1 .. n /\ p = 1 /\ ~(p < n)
              BY <2>3, <6>1
            <7> HIDE DEF n
            <7>2. n = 1
              BY <7>1
            <7> QED BY <7>2 DEF n
          <6> QED BY <2>1, <2>4, <6>2
        <5> QED BY <5>1
      <4>6. ASSUME NEW j \in 0 .. l - 1 PROVE lists'[j] = <<>>
        <5>1. j \in EventLists /\ j < l
          BY <4>3 DEF EventLists
        <5>2. CASE j < k
          BY <2>1, <2>2, <2>4, <5>1, <5>2 DEF EventLists
        <5>3. CASE j = k
          BY <4>5, <5>3
        <5>4. CASE j > k
          <6>1. j \notin later /\ j \in k + 1 .. 5
            BY <2>1, <4>2, <4>3, <5>1, <5>4 DEF EventLists
          <6>2. lists[j] = <<>>
            BY <6>1 DEF later, NonEmpty
          <6> QED BY <2>4, <5>1, <5>4, <6>2 DEF EventLists
        <5> QED BY <2>1, <5>1, <5>2, <5>3, <5>4 DEF EventLists
      <4> QED BY <4>1, <4>3, <4>4, <4>6
    <3> QED BY <3>2, <3>3, <3>4
  <2>8. TypeOK'
    BY <1>a, <1>b, <1>2, <2>4, <2>6, <2>7 DEF TypeOK
  <2>9. Occupied' /\ Batched' /\ NextIsMostUrgent'
    BY <1>a, <1>b, <1>2, <2>7 DEF Occupied, Batched, NextIsMostUrgent, Filled
  <2>10. InHand'
    <3>1. hand' # NoEvent
      BY <2>6, NamesAssumption
    <3>2. \A j \in EventLists : j < k => lists'[j] = <<>>
      BY <2>1, <2>2, <2>4 DEF EventLists
    <3>3. ASSUME k \in Replacing, NEW i \in 1 .. Len(lists'[k]) PROVE lists'[k][i].vf # hand'.vf
      <4>1. i + 1 \in DOMAIN lists[k] /\ 1 \in DOMAIN lists[k] /\ i + 1 # 1
        BY <2>1, <2>2, <2>3, <2>4, <2>5
      <4>2. lists[k][i + 1].vf # lists[k][1].vf
        BY <1>a, <3>3, <4>1 DEF OneRequestEach
      <4> QED BY <1>2, <2>2, <2>5, <4>2
    <3> QED BY <1>2, <2>6, <3>1, <3>2, <3>3 DEF InHand
  <2>11. Waiters'
    <3> SUFFICES ASSUME NEW c \in waiting PROVE OnItsWay(c)'
      BY <1>b DEF Waiters
    <3>1. OnItsWay(c) /\ hand = NoEvent
      BY <1>a, <1>b DEF Waiters, InHand
    <3>2. hand' # NoEvent
      BY <2>6, NamesAssumption
    <3>3. ASSUME NEW j \in EventLists, NEW i \in 1 .. Len(lists[j]), lists[j][i].by = c
          PROVE  \/ hand'.by = c
                 \/ \E n \in 1 .. Len(lists'[j]) : lists'[j][n].by = c
      <4>1. CASE j # k
        BY <2>4, <3>3, <4>1
      <4>2. CASE j = k /\ i = 1
        BY <1>2, <2>2, <3>3, <4>2
      <4>3. CASE j = k /\ i # 1
        <5>1. i - 1 \in 1 .. Len(lists'[k]) /\ (i - 1) + 1 = i
          BY <2>3, <2>4, <4>3
        <5>2. lists'[k][i - 1] = lists[k][i]
          BY <2>5, <5>1
        <5> QED BY <3>3, <4>3, <5>1, <5>2
      <4> QED BY <4>1, <4>2, <4>3
    <3> QED BY <1>b, <3>1, <3>2, <3>3 DEF OnItsWay, Filled, Freed
  <2> QED BY <2>4, <2>8, <2>9, <2>10, <2>11 DEF IInv
<1> QED BY <1>1, <1>2 DEF Pick

LEMMA PushBackStep ==
  ASSUME IInv, PushBack
  PROVE  IInv'
<1> DEFINE k == EventList(hand.id)
<1>a. TypeOK /\ Occupied /\ Placed /\ Batched /\ InHand /\ NextIsMostUrgent /\ OneRequestEach /\ Waiters
  BY DEF IInv
<1>b. /\ pc = "handle" /\ pc' = "again" /\ hand' = NoEvent /\ next' = hand /\ cur' = k
      /\ lists' = [lists EXCEPT ![k] = Cons(hand, @)]
      /\ UNCHANGED <<slot, rptr, wptr, batch, sig, waiting, fa, locked, saving, pushed, freed>>
  BY DEF PushBack, ring, sched
<1>1. hand \in Event /\ hand # NoEvent
  BY <1>a, <1>b, NamesAssumption DEF TypeOK, InHand
<1>2. k \in EventLists /\ lists[k] \in Seq(Event)
  BY <1>a, <1>1, EventFacts DEF TypeOK
<1>3. /\ \A j \in EventLists : j < k => lists[j] = <<>>
      /\ k \in Replacing => \A i \in 1 .. Len(lists[k]) : lists[k][i].vf # hand.vf
  BY <1>a, <1>b DEF InHand
<1>4. EventList(hand.id) = k
  OBVIOUS
<1> HIDE DEF k
<1>5. /\ lists' \in [EventLists -> Seq(Event)]
      /\ lists'[k] = Cons(hand, lists[k])
      /\ \A j \in EventLists : j # k => lists'[j] = lists[j]
  BY <1>a, <1>b, <1>1, <1>2, ConsFacts DEF TypeOK
<1>6. /\ lists'[k] \in Seq(Event) /\ Len(lists[k]) \in Nat /\ Len(lists'[k]) = Len(lists[k]) + 1
      /\ lists'[k][1] = hand
      /\ \A i \in 2 .. Len(lists[k]) + 1 : lists'[k][i] = lists[k][i - 1]
  <2>1. Len(lists[k]) \in Nat
    BY <1>2
  <2>a. hand \in Event /\ lists[k] \in Seq(Event)
    BY <1>1, <1>2
  <2>2. /\ Cons(hand, lists[k]) \in Seq(Event)
        /\ Len(Cons(hand, lists[k])) = Len(lists[k]) + 1
        /\ Cons(hand, lists[k])[1] = hand
        /\ \A i \in 2 .. Len(lists[k]) + 1 : Cons(hand, lists[k])[i] = lists[k][i - 1]
    <3> DEFINE s == lists[k]
    <3>1. s \in Seq(Event)
      BY <2>a
    <3> HIDE DEF s
    <3>2. /\ Cons(hand, s) \in Seq(Event)
          /\ Len(Cons(hand, s)) = Len(s) + 1
          /\ Cons(hand, s)[1] = hand
          /\ \A i \in 2 .. Len(s) + 1 : Cons(hand, s)[i] = s[i - 1]
      <4>1. ASSUME NEW e \in Event, NEW t \in Seq(Event)
            PROVE  /\ Cons(e, t) \in Seq(Event)
                   /\ Len(Cons(e, t)) = Len(t) + 1
                   /\ Cons(e, t)[1] = e
                   /\ \A i \in 2 .. Len(t) + 1 : Cons(e, t)[i] = t[i - 1]
        BY DEF Cons
      <4> QED BY <3>1, <2>a, <4>1
    <3> QED BY <3>2 DEF s
  <2> QED BY <1>5, <2>1, <2>2
<1>7. \A i \in 1 .. Len(lists'[k]) :
        i = 1 \/ (i \in 2 .. Len(lists[k]) + 1 /\ i - 1 \in 1 .. Len(lists[k]))
  <2> DEFINE n == Len(lists[k])
  <2>1. n \in Nat /\ Len(lists'[k]) = n + 1
    BY <1>6
  <2> HIDE DEF n
  <2>2. \A i \in 1 .. n + 1 : i = 1 \/ (i \in 2 .. n + 1 /\ i - 1 \in 1 .. n)
    BY <2>1
  <2> QED BY <2>1, <2>2 DEF n
<1>8. TypeOK'
  BY <1>a, <1>b, <1>1, <1>2, <1>5 DEF TypeOK
<1>9. Occupied' /\ Batched' /\ InHand'
  BY <1>a, <1>b DEF Occupied, Batched, InHand, Filled
<1>10. NextIsMostUrgent'
  <2>1. lists'[k] # <<>> /\ Head(lists'[k]) = hand
    BY <1>6
  <2>2. \A j \in 0 .. k - 1 : j \in EventLists /\ j # k /\ j < k
    BY <1>2 DEF EventLists
  <2>3. \A j \in 0 .. k - 1 : lists'[j] = <<>>
    BY <1>3, <1>5, <2>2
  <2> QED BY <1>b, <2>1, <2>3 DEF NextIsMostUrgent
<1>11. Placed'
  <2>1. ASSUME NEW i \in 1 .. Len(lists'[k]) PROVE EventList(lists'[k][i].id) = k
    <3>1. CASE i = 1
      BY <1>4, <1>6, <3>1
    <3>2. CASE i \in 2 .. Len(lists[k]) + 1 /\ i - 1 \in 1 .. Len(lists[k])
      BY <1>a, <1>2, <1>6, <3>2 DEF Placed
    <3> QED BY <1>7, <3>1, <3>2
  <2> QED BY <1>a, <1>5, <2>1 DEF Placed
<1>12. OneRequestEach'
  <2> SUFFICES ASSUME NEW j \in Replacing, NEW i1 \in DOMAIN lists'[j], NEW i2 \in DOMAIN lists'[j],
                      lists'[j][i1].vf = lists'[j][i2].vf
               PROVE  i1 = i2
    BY DEF OneRequestEach
  <2>1. CASE j # k
    BY <1>a, <1>5, <2>1 DEF OneRequestEach, Replacing, EventLists
  <2>2. CASE j = k
    <3>1. i1 \in 1 .. Len(lists'[k]) /\ i2 \in 1 .. Len(lists'[k])
      BY <1>6, <2>2
    <3>2. CASE i1 = 1 \/ i2 = 1
      BY <1>3, <1>6, <1>7, <2>2, <3>1, <3>2
    <3>3. CASE i1 # 1 /\ i2 # 1
      <4>1. i1 - 1 \in DOMAIN lists[k] /\ i2 - 1 \in DOMAIN lists[k]
        BY <1>2, <1>7, <3>1, <3>3
      <4>2. lists[k][i1 - 1].vf = lists[k][i2 - 1].vf
        BY <1>6, <1>7, <2>2, <3>1, <3>3
      <4>3. i1 - 1 = i2 - 1
        BY <1>a, <2>2, <4>1, <4>2 DEF OneRequestEach
      <4> QED BY <3>1, <4>3
    <3> QED BY <3>2, <3>3
  <2> QED BY <2>1, <2>2
<1>13. Waiters'
  <2> SUFFICES ASSUME NEW c \in waiting PROVE OnItsWay(c)'
    BY <1>b DEF Waiters
  <2>1. OnItsWay(c)
    BY <1>a DEF Waiters
  <2>2. hand.by = c => \E n \in 1 .. Len(lists'[k]) : lists'[k][n].by = c
    BY <1>6
  <2>3. ASSUME NEW j \in EventLists, NEW i \in 1 .. Len(lists[j]), lists[j][i].by = c
        PROVE  \E n \in 1 .. Len(lists'[j]) : lists'[j][n].by = c
    <3>1. CASE j # k
      BY <1>5, <2>3, <3>1
    <3>2. CASE j = k
      <4>1. i + 1 \in 1 .. Len(lists'[k]) /\ i + 1 \in 2 .. Len(lists[k]) + 1 /\ (i + 1) - 1 = i
        BY <1>6, <3>2
      <4>2. lists'[k][i + 1] = lists[k][i]
        BY <1>6, <4>1
      <4> QED BY <2>3, <3>2, <4>1, <4>2
    <3> QED BY <3>1, <3>2
  <2> QED BY <1>b, <1>2, <2>1, <2>2, <2>3 DEF OnItsWay, Filled, Freed
<1> QED BY <1>8, <1>9, <1>10, <1>11, <1>12, <1>13 DEF IInv


\* An event that has become stale is the same event to everybody who waits.
LEMMA StaleFacts ==
  ASSUME NEW e \in Event
  PROVE  /\ Stale(e) \in Event
         /\ Stale(e).id = e.id /\ Stale(e).vf = e.vf /\ Stale(e).by = e.by
BY DEF Stale, Event

\* A whole-GPU reset marks events and moves none.
LEMMA WgrKeeps ==
  ASSUME IInv, AfterWgr, UNCHANGED <<cur, rptr, wptr>>
  PROVE  /\ slot' \in [0 .. Size - 1 -> Event \union {NoEvent}]
         /\ lists' \in [EventLists -> Seq(Event)] /\ next' \in Event \union {NoEvent}
         /\ Occupied' /\ Placed' /\ OneRequestEach'
         /\ \A s \in Filled : slot'[s].by = slot[s].by
         /\ \A k \in EventLists :
              /\ Len(lists'[k]) = Len(lists[k])
              /\ \A i \in 1 .. Len(lists[k]) : /\ lists'[k][i].by = lists[k][i].by
                                               /\ lists'[k][i].vf = lists[k][i].vf
         /\ next' # NoEvent /\ NextIsMostUrgent /\ pc # "arrange" =>
              /\ lists'[cur] # <<>> /\ Head(lists'[cur]) = next'
              /\ \A j \in 0 .. cur - 1 : lists'[j] = <<>>
<1>a. TypeOK /\ Occupied /\ Placed /\ OneRequestEach
  BY DEF IInv
<1>1. /\ slot \in [0 .. Size - 1 -> Event \union {NoEvent}] /\ lists \in [EventLists -> Seq(Event)]
      /\ next \in Event \union {NoEvent} /\ cur \in EventLists /\ 0 \in EventLists
  BY <1>a DEF TypeOK, EventLists
<1>2. Stale(NoEvent) = NoEvent
  BY DEF Stale
<1>3. slot' = [s \in 0 .. Size - 1 |-> Stale(slot[s])]
  BY <1>1 DEF AfterWgr
<1>4. slot' \in [0 .. Size - 1 -> Event \union {NoEvent}]
  BY <1>1, <1>2, <1>3, StaleFacts
<1>5. Filled' = Filled /\ Filled \subseteq 0 .. Size - 1
  BY DEF Filled
<1>6. \A s \in Filled : slot'[s] \in Event /\ slot'[s].by = slot[s].by
  BY <1>a, <1>3, <1>5, StaleFacts DEF Occupied
<1>7. Occupied'
  BY <1>5, <1>6 DEF Occupied
<1>8. next' \in Event \union {NoEvent}
  BY <1>1, StaleFacts DEF AfterWgr
<1> DEFINE l == lists[0]
           m == [i \in DOMAIN l |-> Stale(l[i])]
<1>9. l \in Seq(Event)
  BY <1>1
<1>10. /\ m \in Seq(Event) /\ Len(m) = Len(l) /\ Len(l) \in Nat
       /\ \A i \in 1 .. Len(l) : m[i] = Stale(l[i]) /\ l[i] \in Event
  <2>1. \A i \in 1 .. Len(l) : l[i] \in Event /\ Stale(l[i]) \in Event
    BY <1>9, StaleFacts
  <2> QED BY <1>9, <2>1
<1>11. lists' \in [EventLists -> Seq(Event)] /\ lists'[0] = m
       /\ \A k \in EventLists : k # 0 => lists'[k] = lists[k]
  BY <1>1, <1>10 DEF AfterWgr
<1> HIDE DEF m
<1>12. ASSUME NEW k \in EventLists
       PROVE  /\ Len(lists'[k]) = Len(lists[k])
              /\ \A i \in 1 .. Len(lists[k]) : /\ lists'[k][i].by = lists[k][i].by
                                               /\ lists'[k][i].vf = lists[k][i].vf
                                               /\ lists'[k][i].id = lists[k][i].id
  <2>1. CASE k = 0
    BY <1>10, <1>11, <2>1, StaleFacts
  <2>2. CASE k # 0
    BY <1>11, <2>2
  <2> QED BY <2>1, <2>2
<1>13. Placed'
  BY <1>a, <1>12 DEF Placed
<1>14. OneRequestEach'
  <2> SUFFICES ASSUME NEW k \in Replacing, NEW i \in DOMAIN lists'[k], NEW j \in DOMAIN lists'[k],
                      lists'[k][i].vf = lists'[k][j].vf
               PROVE  i = j
    BY DEF OneRequestEach
  <2>1. k \in EventLists
    BY DEF Replacing, EventLists
  <2>2. lists[k] \in Seq(Event) /\ lists'[k] \in Seq(Event)
    BY <1>1, <1>11, <2>1
  <2>3. i \in 1 .. Len(lists[k]) /\ j \in 1 .. Len(lists[k])
    BY <1>12, <2>1, <2>2
  <2>4. lists[k][i].vf = lists[k][j].vf
    BY <1>12, <2>1, <2>3
  <2>5. i \in DOMAIN lists[k] /\ j \in DOMAIN lists[k]
    BY <2>2, <2>3
  <2> QED BY <1>a, <2>4, <2>5 DEF OneRequestEach
<1>15. ASSUME next' # NoEvent, NextIsMostUrgent, pc # "arrange"
       PROVE  /\ lists'[cur] # <<>> /\ Head(lists'[cur]) = next'
              /\ \A j \in 0 .. cur - 1 : lists'[j] = <<>>
  <2>1. next # NoEvent
    BY <1>15 DEF AfterWgr
  <2>2. /\ lists[cur] # <<>> /\ Head(lists[cur]) = next
        /\ \A j \in 0 .. cur - 1 : lists[j] = <<>>
    BY <1>15, <2>1 DEF NextIsMostUrgent
  <2>3. CASE cur = 0
    <3>1. Len(l) > 0 /\ l[1] = next
      BY <1>9, <2>2, <2>3
    <3>2. m[1] = Stale(next) /\ Len(m) > 0
      BY <1>10, <3>1
    <3>3. next' = Stale(next)
      BY <2>1, <2>3 DEF AfterWgr
    <3>4. m # <<>> /\ Head(m) = next'
      BY <1>10, <3>2, <3>3
    <3> QED BY <1>11, <2>3, <3>4
  <2>4. CASE cur # 0
    <3>1. 0 \in 0 .. cur - 1
      BY <1>1, <2>4 DEF EventLists
    <3>2. l = <<>>
      BY <2>2, <3>1
    <3>3. m = <<>>
      BY <1>10, <3>2
    <3>4. next' = next
      BY <2>4 DEF AfterWgr
    <3>5. \A j \in 0 .. cur - 1 : lists'[j] = <<>>
      <4>1. \A j \in 0 .. cur - 1 : j \in EventLists
        BY <1>1 DEF EventLists
      <4> QED BY <1>11, <2>2, <3>3, <4>1
    <3> QED BY <1>1, <1>11, <2>2, <2>4, <3>4, <3>5
  <2> QED BY <2>3, <2>4
<1> QED BY <1>4, <1>6, <1>7, <1>8, <1>11, <1>12, <1>13, <1>14, <1>15

\* The end of an event leaves the event of every other caller where it is.
LEMMA HandleStep ==
  ASSUME IInv, Handle
  PROVE  IInv'
<1>a. TypeOK /\ Occupied /\ Placed /\ Batched /\ InHand /\ NextIsMostUrgent /\ OneRequestEach /\ Waiters
  BY DEF IInv
<1>b. pc = "handle" /\ UNCHANGED <<cur, rptr, wptr, batch, sig, pushed, freed>>
  BY DEF Handle
<1>1. hand \in Event /\ hand # NoEvent /\ hand.vf \in VF \union {PF}
  BY <1>a, <1>b, NamesAssumption DEF TypeOK, InHand, Event
<1>2. /\ waiting' = waiting \ {hand.by} /\ hand' = NoEvent /\ pc' \in {"pick", "again"}
      /\ fa' \in VF \union {PF, NoVf} /\ locked' \in BOOLEAN /\ saving' \in BOOLEAN
      /\ UNCHANGED <<lists, next, slot>> \/ AfterWgr
  <2>1. fa \in VF \union {PF, NoVf} /\ locked \in BOOLEAN /\ saving \in BOOLEAN
    BY <1>a DEF TypeOK
  <2>2. CASE hand.finished
    BY <2>1, <2>2 DEF Handle, Complete, sched
  <2>3. CASE ~hand.finished /\ hand.id = "REQ_GPU_INIT"
    BY <1>1, <2>1, <2>3 DEF Handle, Complete, sched
  <2>4. CASE ~hand.finished /\ hand.id = "REL_GPU_INIT"
    BY <1>1, <2>1, <2>4 DEF Handle, Complete, sched
  <2>5. CASE ~hand.finished /\ hand.id \in {"SUSPEND", "RESUME"}
    BY <2>1, <2>5 DEF Handle, Complete, sched
  <2>8. CASE ~hand.finished /\ hand.id = "ENTER_POWER_SAVING"
    BY <2>1, <2>8 DEF Handle, Complete, sched
  <2>9. CASE ~hand.finished /\ hand.id = "EXIT_POWER_SAVING"
    BY <2>1, <2>9 DEF Handle, Complete, sched
  <2>6. CASE ~hand.finished /\ hand.id = "FORCE_RESET_GPU"
    BY <2>1, <2>6 DEF Handle, Complete, sched
  <2>7. CASE /\ ~hand.finished
             /\ hand.id \notin {"REQ_GPU_INIT", "REL_GPU_INIT", "SUSPEND", "RESUME",
                                "ENTER_POWER_SAVING", "EXIT_POWER_SAVING", "FORCE_RESET_GPU"}
    BY <2>1, <2>7 DEF Handle, Complete, sched
  <2> QED BY <2>2, <2>3, <2>4, <2>5, <2>6, <2>7, <2>8, <2>9
<1>3. /\ slot' \in [0 .. Size - 1 -> Event \union {NoEvent}]
      /\ lists' \in [EventLists -> Seq(Event)] /\ next' \in Event \union {NoEvent}
      /\ Occupied' /\ Placed' /\ OneRequestEach'
      /\ \A s \in Filled : slot'[s].by = slot[s].by
      /\ \A k \in EventLists :
           /\ Len(lists'[k]) = Len(lists[k])
           /\ \A i \in 1 .. Len(lists[k]) : lists'[k][i].by = lists[k][i].by
      /\ next' # NoEvent => /\ lists'[cur] # <<>> /\ Head(lists'[cur]) = next'
                            /\ \A j \in 0 .. cur - 1 : lists'[j] = <<>>
  <2>1. CASE UNCHANGED <<lists, next, slot>>
    BY <1>a, <1>b, <2>1 DEF TypeOK, Occupied, Placed, OneRequestEach, NextIsMostUrgent, Filled
  <2>2. CASE AfterWgr
    BY <1>a, <1>b, <2>2, WgrKeeps
  <2> QED BY <1>2, <2>1, <2>2
<1>4. waiting' \subseteq Client
  BY <1>a, <1>2 DEF TypeOK
<1>5. TypeOK'
  BY <1>a, <1>b, <1>2, <1>3, <1>4 DEF TypeOK
<1>6. Batched' /\ InHand' /\ NextIsMostUrgent'
  BY <1>a, <1>b, <1>2, <1>3 DEF Batched, InHand, NextIsMostUrgent
<1>7. ASSUME NEW c \in waiting' PROVE OnItsWay(c)'
  <2>1. OnItsWay(c) /\ hand.by # c
    BY <1>a, <1>2 DEF Waiters
  <2>2. Filled' = Filled
    BY <1>b DEF Filled
  <2> QED BY <1>b, <1>3, <2>1, <2>2 DEF OnItsWay, Freed
<1> QED BY <1>3, <1>5, <1>6, <1>7 DEF IInv, Waiters

\* The rest of the thread's loop moves no event.
LEMMA LoopStep ==
  ASSUME IInv, Again \/ Check \/ Wake
  PROVE  IInv'
<1>a. TypeOK /\ Occupied /\ Placed /\ Batched /\ InHand /\ NextIsMostUrgent /\ OneRequestEach /\ Waiters
  BY DEF IInv
<1>1. /\ pc \in {"again", "check", "wait"} /\ pc' \in {"pick", "check", "wait"}
      /\ fa' \in VF \union {PF, NoVf} /\ sig' \in Nat
      /\ UNCHANGED <<slot, rptr, wptr, batch, lists, next, cur, hand, waiting, locked, saving, pushed, freed>>
  <2>1. fa \in VF \union {PF, NoVf} /\ sig \in Nat
    BY <1>a DEF TypeOK
  <2>2. CASE Again
    BY <2>1, <2>2 DEF Again, ring, arranged, sched
  <2>3. CASE Check
    BY <2>1, <2>3 DEF Check, ring, arranged
  <2>4. CASE Wake
    BY <2>1, <2>4 DEF Wake, ring, arranged
  <2> QED BY <2>2, <2>3, <2>4
<1>2. TypeOK'
  BY <1>a, <1>1 DEF TypeOK
<1>3. Occupied' /\ Placed' /\ OneRequestEach' /\ Waiters'
  BY <1>a, <1>1 DEF Occupied, Placed, OneRequestEach, Waiters, OnItsWay, Filled, Freed
<1>4. Batched' /\ InHand' /\ NextIsMostUrgent'
  BY <1>a, <1>1 DEF Batched, InHand, NextIsMostUrgent
<1> QED BY <1>2, <1>3, <1>4 DEF IInv

LEMMA StepInv == IInv /\ [Next]_vars => IInv'
<1> SUFFICES ASSUME IInv, [Next]_vars PROVE IInv'
  OBVIOUS
<1>1. CASE Producers
  BY <1>1, PushStep DEF Producers
<1>2. CASE Pop
  BY <1>2, PopStep
<1>3. CASE Arrange
  BY <1>3, ArrangeStep
<1>4. CASE StartOver
  BY <1>4, StartOverStep
<1>5. CASE Pick
  BY <1>5, PickStep
<1>6. CASE PushBack
  BY <1>6, PushBackStep
<1>7. CASE Handle
  BY <1>7, HandleStep
<1>8. CASE Again \/ Check \/ Wake
  BY <1>8, LoopStep
<1>9. CASE UNCHANGED vars
  <2>1. UNCHANGED <<slot, rptr, wptr, batch, lists, next, cur, hand, pc, sig, waiting, fa, locked, saving, pushed, freed>>
    BY <1>9 DEF vars, ring, arranged, sched
  <2> QED BY <2>1 DEF IInv, TypeOK, Occupied, Placed, Batched, InHand, NextIsMostUrgent,
                      OneRequestEach, Waiters, OnItsWay, Filled, Freed
<1> QED BY <1>1, <1>2, <1>3, <1>4, <1>5, <1>6, <1>7, <1>8, <1>9 DEF Next, Thread

LEMMA Invariance == Spec => []IInv
BY InitInv, StepInv, PTL DEF Spec

-----------------------------------------------------------------------------
(* The theorems.                                                           *)

\* amdgv_sched_event.c keeps its ring, its lists and what it points to well
\* formed, for every size of the ring and every set of functions and callers.
THEOREM QueueTypes == Spec => []TypeOK
<1>1. IInv => TypeOK
  BY DEF IInv
<1> QED BY <1>1, Invariance, PTL

\* amdgv_sched_pick_up_next_event never follows a pointer to a freed event and
\* never takes an event while a more urgent one is in the lists.
THEOREM UrgencyKept == Spec => []NextIsMostUrgent
<1>1. IInv => NextIsMostUrgent
  BY DEF IInv
<1> QED BY <1>1, Invariance, PTL

\* amdgv_sched_remove_duplicated_event, together with pushing back, leaves one
\* event for each function in a list of requests.
THEOREM RequestsReplaced == Spec => []OneRequestEach
<1>1. IInv => OneRequestEach
  BY DEF IInv
<1> QED BY <1>1, Invariance, PTL

\* Only amdgv_sched_event_arrange_event_list, with an event that replaces older
\* ones, frees the event of a caller that waits.
LEMMA FreedPlacesKept == IInv /\ FreedPlaces /\ [Next]_vars => FreedPlaces'
<1> SUFFICES ASSUME IInv, FreedPlaces, [Next]_vars, freed' # freed PROVE FreedPlaces'
  BY DEF FreedPlaces
<1>1. Arrange
  <2>1. ~Producers /\ ~Pop /\ ~StartOver /\ ~Pick /\ ~PushBack /\ ~UNCHANGED vars
    BY DEF Producers, Push, Pop, StartOver, Pick, PushBack, vars
  <2>2. ~Handle
    BY DEF Handle
  <2>3. ~Again /\ ~Check /\ ~Wake
    BY DEF Again, Check, Wake
  <2> QED BY <2>1, <2>2, <2>3 DEF Next, Thread
<1> DEFINE e == Head(batch)
           k == EventList(e.id)
<1>2. PICK p \in Older(e) : freed' = freed \union {x \in {lists[k][p]} : x.by # NoClient}
  BY <1>1 DEF Arrange
<1>3. TypeOK /\ Placed /\ e \in Event
  BY <1>1, HeadTailProperties DEF Arrange, IInv, TypeOK
<1>4. k \in EventLists /\ k \notin {1, 5} /\ p \in DOMAIN lists[k]
  BY <1>2, <1>3, EventFacts DEF Older, Replacing
<1> HIDE DEF e, k
<1>5. EventList(lists[k][p].id) = k
  <2>1. lists[k] \in Seq(Event)
    BY <1>3, <1>4 DEF TypeOK
  <2>2. p \in 1 .. Len(lists[k])
    BY <1>4, <2>1
  <2> QED BY <1>3, <1>4, <2>2 DEF Placed
<1>6. ASSUME NEW x \in freed' PROVE EventList(x.id) \notin {1, 5}
  <2>1. x \in freed \/ x = lists[k][p]
    BY <1>2, <1>6
  <2> QED BY <1>4, <1>5, <2>1 DEF FreedPlaces
<1> QED BY <1>6 DEF FreedPlaces

\* The event of a caller in amdgv_sched_queue_event_and_wait is in the ring, in
\* the lists or in the handler's hands until the caller is told, unless a newer
\* event of its function has freed it, which lists 1 and 5 never do.
THEOREM WaitersKept == Spec => []NoLostWaiter
<1>1. IInv /\ FreedPlaces => NoLostWaiter
  <2> SUFFICES ASSUME IInv, FreedPlaces, NEW c \in waiting, ~Freed(c)
               PROVE  \E e \in Held \ {NoEvent} : e.by = c
    BY DEF NoLostWaiter, FreedPlaces, Freed
  <2>a. TypeOK /\ Occupied /\ OnItsWay(c)
    BY DEF IInv, Waiters
  <2>1. ASSUME NEW s \in Filled, slot[s].by = c PROVE slot[s] \in Held \ {NoEvent}
    <3>1. rptr \in 0 .. Size - 1 /\ wptr \in 0 .. Size - 1
      BY <2>a DEF TypeOK
    <3>2. PICK i \in 1 .. Unread : (rptr + i - 1) % Size = s
      BY <3>1, RingIsFilled
    <3>3. slot[s] = Ring[i] /\ i \in DOMAIN Ring
      BY <3>2 DEF Ring
    <3>4. slot[s] \in Event
      BY <2>a DEF Occupied
    <3> QED BY <3>3, <3>4, NamesAssumption DEF Held, ToSet
  <2>2. ASSUME NEW i \in 1 .. Len(batch), batch[i].by = c PROVE batch[i] \in Held \ {NoEvent}
    <3>1. batch \in Seq(Event)
      BY <2>a DEF TypeOK
    <3>2. batch[i] \in Event /\ i \in DOMAIN batch
      BY <3>1
    <3> QED BY <3>2, NamesAssumption DEF Held, ToSet
  <2>3. ASSUME NEW k \in EventLists, NEW i \in 1 .. Len(lists[k]), lists[k][i].by = c
        PROVE  lists[k][i] \in Held \ {NoEvent}
    <3>1. lists[k] \in Seq(Event)
      BY <2>a DEF TypeOK
    <3>2. lists[k][i] \in Event /\ i \in DOMAIN lists[k]
      BY <3>1
    <3>3. lists[k][i] \in ToSet(lists[k])
      BY <3>2 DEF ToSet
    <3>4. lists[k][i] \in UNION {ToSet(lists[j]) : j \in EventLists}
      BY <3>3, Zenon
    <3>5. lists[k][i] \in Held
      BY <3>4, Zenon DEF Held
    <3> QED BY <3>2, <3>5, NamesAssumption
  <2>4. hand # NoEvent => hand \in Held \ {NoEvent}
    BY DEF Held
  <2> QED BY <2>a, <2>1, <2>2, <2>3, <2>4 DEF OnItsWay
<1>2. Init => FreedPlaces
  BY DEF Init, FreedPlaces
<1> QED BY <1>1, <1>2, FreedPlacesKept, Invariance, PTL DEF Spec

\* Whatever is pushed, deferred and pushed back, a request that is handled in
\* another VF's full access does not take the GPU from it.
THEOREM NobodyTakesOver == Spec => NoTakeover
<1>1. IInv /\ [Next]_vars => [InFullAccess => fa' \in {fa, NoVf}]_fa
  <2> SUFFICES ASSUME IInv, [Next]_vars, InFullAccess, fa' # fa PROVE fa' = NoVf
    BY DEF InFullAccess
  <2>1. ~Producers /\ ~Pop /\ ~Arrange /\ ~StartOver /\ ~Pick /\ ~PushBack /\ ~Again /\ ~UNCHANGED vars
    BY DEF Producers, Push, Pop, Arrange, StartOver, Pick, PushBack, Again, vars, sched
  <2>2. CASE Handle
    <3>1. CASE ~hand.finished /\ hand.id = "REQ_GPU_INIT"
      BY <2>2, <3>1 DEF Handle, Deferred
    <3>2. CASE ~hand.finished /\ hand.id = "REL_GPU_INIT"
      BY <2>2, <3>2 DEF Handle
    <3>3. CASE hand.finished \/ hand.id \notin {"REQ_GPU_INIT", "REL_GPU_INIT"}
      BY <2>2, <3>3 DEF Handle, sched
    <3> QED BY <3>1, <3>2, <3>3
  <2>3. CASE Check \/ Wake
    BY <2>3 DEF Check, Wake
  <2> QED BY <2>1, <2>2, <2>3 DEF Next, Thread
<1> QED BY <1>1, Invariance, PTL DEF Spec, NoTakeover
=============================================================================
