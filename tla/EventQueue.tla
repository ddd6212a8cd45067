----------------------------- MODULE EventQueue -----------------------------
(***************************************************************************)
(* The event queue of a GPU (libgv/core/amdgv_sched_event.c).              *)
(*                                                                         *)
(* Guests, interrupt handlers and host calls push events into a ring; the  *)
(* event thread pops them, arranges them in six lists by urgency, takes    *)
(* them one by one and handles them.  A host call may wait for its event.  *)
(* An event that cannot be handled now (the scheduler is locked, or a VF   *)
(* has full access) is pushed back to the head of its list and the thread  *)
(* stops there, until there is news.                                       *)
(*                                                                         *)
(* One event stands for all that are treated alike.  What a handler does   *)
(* to the engines is the subject of WorldSwitch; here it only moves        *)
(* lock_world_switch, power saving and the full access.  Live update, the  *)
(* unrecoverable-error state and per-partition full access are left out,   *)
(* and so is api_lock, which makes some host calls wait for each other.    *)
(***************************************************************************)
EXTENDS Integers, FiniteSets, SequencesExt

CONSTANTS
  VF,         \* the virtual functions
  PF,         \* AMDGV_PF_IDX
  Requester,  \* the functions whose driver asks for full access: the VFs, and
              \* the PF under AMDGV_FLAG_USE_PF
  Client,     \* host callers that wait for their event
  Kinds,      \* the events considered, a subset of EventId
  Size,       \* AMDGV_EVENT_QUEUE_ENTRY_NUM: 256, the range of the ring's uint8 indices
  NoVf,       \* AMDGV_INVALID_IDX_VF
  NoClient, NoEvent,
  MaxEvents   \* bound: events pushed in a behaviour

EventId == {"RAS_EVENT", "FORCE_RESET_GPU", "ENTER_POWER_SAVING", "EXIT_POWER_SAVING",
            "SUSPEND", "RESUME", "SUSPEND_VF", "REL_GPU_INIT",
            "SCHED_RESET_VF", "INIT_VF_FB", "SET_VF_COND_AVAIL", "REQ_GPU_INIT", "GPUMON"}

ASSUME KindsAssumption == Kinds \subseteq EventId
ASSUME RequesterAssumption == Requester \in {VF, VF \union {PF}}
ASSUME SizeAssumption == Size \in Nat /\ Size > 1
ASSUME MaxEventsAssumption == MaxEvents \in Nat

\* The list an event goes to; 0 is the most urgent.
EventList(id) ==
  CASE id \in {"RAS_EVENT", "FORCE_RESET_GPU", "ENTER_POWER_SAVING", "EXIT_POWER_SAVING"} -> 0
    [] id \in {"SUSPEND", "RESUME", "SUSPEND_VF"} -> 1
    [] id = "REL_GPU_INIT" -> 2
    [] id \in {"SCHED_RESET_VF", "INIT_VF_FB", "SET_VF_COND_AVAIL"} -> 3
    [] id = "REQ_GPU_INIT" -> 4
    [] id = "GPUMON" -> 5
EventLists == 0 .. 5
\* An event of these lists replaces the older ones of its function.
Replacing == {0, 2, 4}
\* So does one of these (and RMA), in a list whose other events do not.
ReplacingId == {"SET_VF_COND_AVAIL"}

\* Who an event is about, and whether its caller waits for it: the PF's driver
\* waits for its requests, the guests' drivers do not.
Subject(id) ==
  CASE id \in {"SUSPEND_VF", "SCHED_RESET_VF", "INIT_VF_FB", "SET_VF_COND_AVAIL"} -> VF
    [] id \in {"REQ_GPU_INIT", "REL_GPU_INIT"} -> Requester
    [] OTHER -> {PF}
Caller(id, vf) ==
  CASE id \in {"RAS_EVENT", "FORCE_RESET_GPU", "SCHED_RESET_VF", "SET_VF_COND_AVAIL"} -> {NoClient}
    [] id \in {"REQ_GPU_INIT", "REL_GPU_INIT"} -> IF vf = PF THEN Client ELSE {NoClient}
    [] OTHER -> Client

Event ==
  {e \in [id : Kinds, vf : VF \union {PF}, by : Client \union {NoClient}, finished : BOOLEAN] :
     e.vf \in Subject(e.id) /\ e.by \in Caller(e.id, e.vf)}

ASSUME NamesAssumption ==
  PF \notin VF /\ NoVf \notin VF \union {PF} /\ NoClient \notin Client /\ NoEvent \notin Event

VARIABLES
  slot,     \* event_queue
  rptr,     \* queue_rptr
  wptr,     \* queue_wptr
  batch,    \* queue_events: popped from the ring and not yet in a list
  lists,    \* event_list
  next,     \* next_event, or NoEvent
  cur,      \* curr_event_list_idx
  hand,     \* the event being handled, or NoEvent
  pc,       \* where the event thread is
  sig,      \* sched.event, a counting completion
  waiting,  \* the clients in amdgv_sched_queue_event_and_wait
  fa,       \* idx_vf_full_access: the function that has full access, or NoVf
  locked,   \* lock_world_switch
  saving,   \* pp.is_in_powersaving
  pushed,   \* events so far
  freed     \* history: the events of waiting callers that a newer event freed

ring == <<slot, rptr, wptr>>
arranged == <<lists, next, cur>>
sched == <<fa, locked, saving>>
vars == <<ring, batch, arranged, hand, pc, sig, waiting, sched, pushed, freed>>

\* The event thread has been created and waits for its first wake-up; a PF
\* that is used has full access from the start.
Init ==
  /\ slot = [i \in 0 .. Size - 1 |-> NoEvent] /\ rptr = 0 /\ wptr = 0 /\ batch = <<>>
  /\ lists = [k \in EventLists |-> <<>>] /\ next = NoEvent /\ cur = 0
  /\ hand = NoEvent /\ pc = "wait" /\ sig = 0
  /\ waiting = {} /\ fa = (IF PF \in Requester THEN PF ELSE NoVf)
  /\ locked = FALSE /\ saving = FALSE /\ pushed = 0 /\ freed = {}

InFullAccess == fa # NoVf
Unread == (wptr - rptr) % Size
Ring == [i \in 1 .. Unread |-> slot[(rptr + i - 1) % Size]]

-----------------------------------------------------------------------------
(* The producers.                                                          *)

\* Mutant of After: the index is wider than the ring.
AfterUnwrapped(i) == i + 1

\* The ring's indices wrap at its size.
After(i) == (i + 1) % Size

\* Mutant of Full: the last free entry is used too.
FullLate == FALSE

\* One entry of the ring stays free: a full ring is not taken for empty.
Full == After(wptr) = rptr

\* amdgv_sched_event_queue_push_ex.  An event is refused when the GPU is in
\* power saving, the ring is full or its entry cannot be allocated; its caller
\* returns at once.  SET_VF_COND_AVAIL is queued without a wake-up.
Push(id, vf, by) ==
  /\ pushed < MaxEvents /\ pushed' = pushed + 1
  /\ by \notin waiting
  /\ \/ UNCHANGED <<slot, wptr, sig, waiting>>
     \/ /\ ~Full /\ (saving => id = "EXIT_POWER_SAVING")
        /\ slot' = [slot EXCEPT ![wptr] = [id |-> id, vf |-> vf, by |-> by, finished |-> FALSE]]
        /\ wptr' = After(wptr)
        /\ sig' = IF id = "SET_VF_COND_AVAIL" THEN sig ELSE sig + 1
        /\ waiting' = waiting \union ({by} \ {NoClient})
  /\ UNCHANGED <<rptr, batch, arranged, hand, pc, sched, freed>>

-----------------------------------------------------------------------------
(* The event thread.                                                       *)

\* amdgv_sched_event_queue_pop_event_list, if there is anything in the ring.
Pop ==
  /\ pc = "pick"
  /\ \/ Unread = 0 /\ pc' = "choose" /\ UNCHANGED <<ring, batch>>
     \/ /\ Unread # 0 /\ pc' = "arrange"
        /\ batch' = Ring
        /\ rptr' = wptr /\ slot' = [s \in DOMAIN slot |-> NoEvent] /\ UNCHANGED wptr
  /\ UNCHANGED <<arranged, hand, sig, waiting, sched, pushed, freed>>

\* Mutant of Older: an event does not replace the older ones.
OlderNone(e) == {}

\* The events of its list that e replaces, by their positions.
Older(e) ==
  LET k == EventList(e.id) IN
  IF k \in Replacing \/ e.id \in ReplacingId
  THEN {p \in DOMAIN lists[k] : lists[k][p].vf = e.vf} ELSE {}

\* amdgv_sched_event_arrange_event_list: the loop over the popped events and,
\* inside, amdgv_sched_remove_duplicated_event, which frees an event without
\* telling its caller.
Arrange ==
  LET e == Head(batch)
      k == EventList(e.id)
  IN
  /\ pc = "arrange" /\ batch # <<>>
  /\ \/ \E p \in Older(e) :
          /\ lists' = [lists EXCEPT ![k] = RemoveAt(@, p)]
          /\ freed' = freed \union {x \in {lists[k][p]} : x.by # NoClient}
          /\ UNCHANGED batch
     \/ /\ Older(e) = {}
        /\ lists' = [lists EXCEPT ![k] = Append(@, e)]
        /\ batch' = Tail(batch) /\ UNCHANGED freed
  /\ UNCHANGED <<ring, next, cur, hand, pc, sig, waiting, sched, pushed>>

\* Mutant of StartOver: what next_event pointed to is kept.
StartOverKept ==
  /\ pc = "arrange" /\ batch = <<>> /\ pc' = "choose"
  /\ UNCHANGED <<ring, batch, arranged, hand, sig, waiting, sched, pushed, freed>>

\* After arranging, the search starts at the most urgent list again.
StartOver ==
  /\ pc = "arrange" /\ batch = <<>> /\ pc' = "choose"
  /\ next' = NoEvent /\ cur' = 0
  /\ UNCHANGED <<ring, batch, lists, hand, sig, waiting, sched, pushed, freed>>

NonEmpty(from) == {k \in from .. 5 : lists[k] # <<>>}
Least(S) == CHOOSE k \in S : \A j \in S : k <= j

\* The place, list k and position p, of the event to take.
IsNext(k, p) ==
  IF next = NoEvent THEN k = Least(NonEmpty(0)) /\ p = 1
  ELSE k = cur /\ p = Least({q \in DOMAIN lists[k] : lists[k][q] = next})

\* next_event and curr_event_list_idx move on to the following event.
Advance(k, p) ==
  LET later == NonEmpty(k + 1) IN
  IF p < Len(lists[k]) THEN next' = lists[k][p + 1] /\ cur' = k
  ELSE IF later = {} THEN next' = NoEvent /\ cur' = 0
  ELSE next' = Head(lists[Least(later)]) /\ cur' = Least(later)

\* amdgv_sched_pick_up_next_event, after arranging.
Pick ==
  /\ pc = "choose"
  /\ \/ /\ next = NoEvent /\ NonEmpty(0) = {}
        /\ pc' = "again" /\ UNCHANGED <<arranged, hand>>
     \/ \E k \in NonEmpty(0) : \E p \in DOMAIN lists[k] :
          /\ IsNext(k, p)
          /\ pc' = "handle" /\ hand' = lists[k][p]
          /\ lists' = [lists EXCEPT ![k] = RemoveAt(@, p)]
          /\ Advance(k, p)
  /\ UNCHANGED <<ring, batch, sig, waiting, sched, pushed, freed>>

\* Mutant of Deferred: a request made in another VF's full access is handled.
DeferredUnlessLocked(id) == locked /\ id # "RESUME"

\* handle_event_in_full_access and handle_event_in_non_full_access: what must
\* wait for the end of the full access or of the power saving, or for the
\* scheduler to be unlocked.
Deferred(id) ==
  \/ locked /\ id # "EXIT_POWER_SAVING" /\ (InFullAccess \/ id # "RESUME")
  \/ saving /\ id # "EXIT_POWER_SAVING"
  \/ InFullAccess /\ id \in {"REQ_GPU_INIT", "GPUMON", "SCHED_RESET_VF", "FORCE_RESET_GPU",
                             "SET_VF_COND_AVAIL", "ENTER_POWER_SAVING", "EXIT_POWER_SAVING"}
  \/ InFullAccess /\ fa # PF /\ id \in {"SUSPEND", "RESUME", "INIT_VF_FB"}

\* amdgv_sched_push_back_event, and AMDGV_EVENT_STOP_AND_KEEP.
PushBack ==
  LET k == EventList(hand.id) IN
  /\ pc = "handle" /\ ~hand.finished /\ Deferred(hand.id)
  /\ lists' = [lists EXCEPT ![k] = Cons(hand, @)]
  /\ next' = hand /\ cur' = k
  /\ hand' = NoEvent /\ pc' = "again"
  /\ UNCHANGED <<ring, batch, sig, waiting, sched, pushed, freed>>

\* The event is complete: its caller is told, and the thread goes on with
\* the next one or, AMDGV_EVENT_STOP_AND_RELEASE, ends this round.
Complete(go) == waiting' = waiting \ {hand.by} /\ hand' = NoEvent /\ pc' = go

\* amdgv_sched_remove_stale_events_after_wgr.
Stale(e) == IF e # NoEvent /\ e.id = "FORCE_RESET_GPU" THEN [e EXCEPT !.finished = TRUE] ELSE e
AfterWgr ==
  /\ lists' = [lists EXCEPT ![0] = [i \in DOMAIN @ |-> Stale(@[i])]]
  /\ next' = IF next # NoEvent /\ cur = 0 THEN Stale(next) ELSE next
  /\ slot' = [s \in DOMAIN slot |-> Stale(slot[s])]

\* amdgv_sched_process_event for an event that can be handled.
Handle ==
  /\ pc = "handle" /\ (hand.finished \/ ~Deferred(hand.id))
  /\ CASE hand.finished -> Complete("pick") /\ UNCHANGED <<sched, lists, next, slot>>
       [] ~hand.finished /\ hand.id = "REQ_GPU_INIT" ->
            /\ \/ fa' = hand.vf /\ Complete("again")
               \/ fa' = fa /\ Complete("pick")
            /\ UNCHANGED <<locked, saving, lists, next, slot>>
       [] ~hand.finished /\ hand.id = "REL_GPU_INIT" ->
            /\ fa' = IF fa = hand.vf THEN NoVf ELSE fa
            /\ Complete("pick") /\ UNCHANGED <<locked, saving, lists, next, slot>>
       [] ~hand.finished /\ hand.id \in {"SUSPEND", "RESUME"} /\ ~InFullAccess ->
            /\ locked' = (hand.id = "SUSPEND")
            /\ Complete("again") /\ UNCHANGED <<fa, saving, lists, next, slot>>
       [] ~hand.finished /\ hand.id = "ENTER_POWER_SAVING" ->
            /\ \/ locked' = TRUE /\ saving' = TRUE /\ Complete("again")
               \/ UNCHANGED <<locked, saving>> /\ Complete("pick")
            /\ UNCHANGED <<fa, lists, next, slot>>
       [] ~hand.finished /\ hand.id = "EXIT_POWER_SAVING" ->
            /\ \/ saving /\ saving' = FALSE /\ locked' \in {locked, FALSE}
               \/ UNCHANGED <<locked, saving>>
            /\ Complete("pick") /\ UNCHANGED <<fa, lists, next, slot>>
       [] ~hand.finished /\ hand.id = "FORCE_RESET_GPU" ->
            AfterWgr /\ Complete("pick") /\ UNCHANGED sched
       [] OTHER -> Complete("pick") /\ UNCHANGED <<sched, lists, next, slot>>
  /\ UNCHANGED <<cur, rptr, wptr, batch, sig, pushed, freed>>

\* The outer loop of amdgv_sched_process_event.
Again ==
  /\ pc = "again"
  /\ pc' = IF ~locked /\ Unread > 0 THEN "pick" ELSE "check"
  /\ UNCHANGED <<ring, batch, arranged, hand, sig, waiting, sched, pushed, freed>>

\* Mutant of Check: after a full access has timed out the thread sleeps.
CheckSleeps ==
  /\ pc = "check" /\ pc' = "wait"
  /\ fa' \in {fa, NoVf}
  /\ UNCHANGED <<ring, batch, arranged, hand, sig, waiting, locked, saving, pushed, freed>>

\* amdgv_sched_full_access_check_and_process: the time is up, or it is not.
Check ==
  /\ pc = "check"
  /\ \/ pc' = "wait" /\ UNCHANGED fa
     \/ InFullAccess /\ fa' = NoVf /\ pc' = "pick"
  /\ UNCHANGED <<ring, batch, arranged, hand, sig, waiting, locked, saving, pushed, freed>>

\* amdgv_sched_event_process_thread waits for a push, or for the end of the
\* full access.
Wake ==
  /\ pc = "wait" /\ pc' = "pick"
  /\ \/ sig > 0 /\ sig' = sig - 1 /\ UNCHANGED fa
     \/ InFullAccess /\ fa' = NoVf /\ UNCHANGED sig
  /\ UNCHANGED <<ring, batch, arranged, hand, waiting, locked, saving, pushed, freed>>

-----------------------------------------------------------------------------
Producers == \E id \in Kinds : \E vf \in Subject(id) : \E by \in Caller(id, vf) : Push(id, vf, by)
Thread == Pop \/ Arrange \/ StartOver \/ Pick \/ PushBack \/ Handle \/ Again \/ Check \/ Wake

Next == Producers \/ Thread
Spec == Init /\ [][Next]_vars

\* The kernel runs the event thread, and a full access ends in bounded time.
FairSpec == Spec /\ WF_vars(Thread)

-----------------------------------------------------------------------------
(* Properties.                                                             *)

TypeOK ==
  /\ slot \in [0 .. Size - 1 -> Event \union {NoEvent}]
  /\ rptr \in 0 .. Size - 1 /\ wptr \in 0 .. Size - 1
  /\ batch \in Seq(Event) /\ lists \in [EventLists -> Seq(Event)] /\ cur \in EventLists
  /\ next \in Event \union {NoEvent} /\ hand \in Event \union {NoEvent}
  /\ pc \in {"wait", "pick", "arrange", "choose", "handle", "again", "check"}
  /\ sig \in Nat /\ waiting \subseteq Client
  /\ fa \in VF \union {PF, NoVf} /\ locked \in BOOLEAN /\ saving \in BOOLEAN
  /\ pushed \in 0 .. MaxEvents /\ freed \subseteq Event

Held ==
  ToSet(Ring) \union ToSet(batch) \union (UNION {ToSet(lists[k]) : k \in EventLists}) \union {hand}

\* Except while events are arranged, which may free it, next_event is the head
\* of its list and no list that is more urgent holds anything: the thread never
\* follows a freed event and never prefers a less urgent one.
NextIsMostUrgent ==
  next # NoEvent /\ pc # "arrange" =>
    /\ lists[cur] # <<>> /\ Head(lists[cur]) = next
    /\ \A k \in 0 .. cur - 1 : lists[k] = <<>>

\* A caller that waits has an event on its way, or a newer event of the same
\* function has freed it in one of the lists where events replace each other:
\* nothing else between the ring and the handler loses an event somebody waits
\* for, and the host calls of lists 1 and 5 cannot lose theirs at all.
NoLostWaiter ==
  /\ \A c \in waiting : \E e \in (Held \ {NoEvent}) \union freed : e.by = c
  /\ \A e \in freed : EventList(e.id) \notin {1, 5}

\* However often a guest repeats its requests, the lists that hold them have
\* one event for each function, pushed-back ones included.
OneRequestEach ==
  \A k \in Replacing : \A i, j \in DOMAIN lists[k] : lists[k][i].vf = lists[k][j].vf => i = j

\* Full access is given to a VF only when no other VF has it.
NoTakeover == [][InFullAccess => fa' \in {fa, NoVf}]_fa

\* A host call returns, if nobody suspends or resumes the scheduler or enters
\* power saving and no newer event frees the one it waits for: events pushed
\* back, a full ring and signals that come while the thread is awake leave no
\* caller behind.
Freed(c) == \E e \in freed : e.by = c
NoSuspension == [](hand # NoEvent => hand.id \notin {"SUSPEND", "RESUME", "ENTER_POWER_SAVING"})
CallReturns == NoSuspension => \A c \in Client : c \in waiting ~> c \notin waiting \/ Freed(c)

\* An event deferred "till we get a resume" is handled once there was one:
\* a host call does not stay in the lists of an unlocked scheduler.
DeferredTillResume == \A c \in Client : c \in waiting ~> c \notin waiting \/ locked
=============================================================================
