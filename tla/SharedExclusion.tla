-------------------------- MODULE SharedExclusion --------------------------
(***************************************************************************)
(* The shared exclusion lock of libgv (libgv/core/amdgv_task_barrier.c).   *)
(* Threads of the same group may be inside together, threads of different  *)
(* groups may not.  An XGMI hive has one such lock; its groups are the CP  *)
(* DMA copies (mi300_misc.c) and the function level resets (mi300_reset.c) *)
(* of all the GPUs of the hive.                                            *)
(*                                                                         *)
(* The first thread of a group takes the main semaphore for the group; the *)
(* threads that come meanwhile wait at the group's gate, a semaphore that  *)
(* the first one raises once per waiter.  The regions guarded by the mutex *)
(* never block, so each of them is one atomic step.                        *)
(***************************************************************************)
EXTENDS Integers, FiniteSets

CONSTANTS
  Thread,     \* the threads that use the lock
  Group       \* the groups: SHARED_EXCLUSION_NUM_GROUPS is 2

\* The counts are read into uint8_t variables.
ASSUME ThreadAssumption == IsFiniteSet(Thread) /\ Cardinality(Thread) < 256
ASSUME GroupAssumption == Group # {}

UINT8 == 256

VARIABLES
  sem,      \* the main semaphore
  gate,     \* gate[g], a counting semaphore
  count,    \* count[g], the threads of g that have entered and not exited
  active,   \* active[g]: g owns the main semaphore
  pc,       \* where each thread is
  group     \* the group each thread entered for

vars == <<sem, gate, count, active, pc, group>>

Init ==
  /\ sem = 1
  /\ gate = [g \in Group |-> 0]
  /\ count = [g \in Group |-> 0]
  /\ active = [g \in Group |-> FALSE]
  /\ pc = [t \in Thread |-> "out"]
  /\ group \in [Thread -> Group]

-----------------------------------------------------------------------------
(* shared_exclusion_enter.                                                 *)

\* Up to the first unlock of the mutex.
Arrive(t, g) ==
  /\ pc[t] = "out"
  /\ group' = [group EXCEPT ![t] = g]
  /\ count' = [count EXCEPT ![g] = @ + 1]
  /\ pc' = [pc EXCEPT ![t] = IF count'[g] % UINT8 = 1 THEN "sem"
                             ELSE IF active[g] THEN "in" ELSE "gate"]
  /\ UNCHANGED <<sem, gate, active>>

\* oss_sema_down(sel->sem) by the first thread of a group.
TakeSem(t) ==
  /\ pc[t] = "sem"
  /\ sem > 0
  /\ sem' = sem - 1
  /\ pc' = [pc EXCEPT ![t] = "opening"]
  /\ UNCHANGED <<gate, count, active, group>>

\* Mutant of Open: the first thread's own count is subtracted twice.
OpenOneShort(t) ==
  LET g == group[t]
  IN  /\ pc[t] = "opening"
      /\ active' = [active EXCEPT ![g] = TRUE]
      /\ gate' = [gate EXCEPT ![g] = @ + (IF count[g] > 2 THEN count[g] - 2 ELSE 0)]
      /\ pc' = [pc EXCEPT ![t] = "in"]
      /\ UNCHANGED <<sem, count, group>>

\* The group is marked active and its gate raised once per waiter.
Open(t) ==
  LET g == group[t]
  IN  /\ pc[t] = "opening"
      /\ active' = [active EXCEPT ![g] = TRUE]
      /\ gate' = [gate EXCEPT ![g] = @ + ((count[g] - 1) % UINT8)]
      /\ pc' = [pc EXCEPT ![t] = "in"]
      /\ UNCHANGED <<sem, count, group>>

\* oss_sema_down(sel->gate[group]).
PassGate(t) ==
  /\ pc[t] = "gate"
  /\ gate[group[t]] > 0
  /\ gate' = [gate EXCEPT ![group[t]] = @ - 1]
  /\ pc' = [pc EXCEPT ![t] = "in"]
  /\ UNCHANGED <<sem, count, active, group>>

(* shared_exclusion_exit.                                                  *)

\* Mutant of Leave: the group stays active when its last thread leaves.
LeaveActive(t) ==
  LET g == group[t]
  IN  /\ pc[t] = "in"
      /\ count' = [count EXCEPT ![g] = @ - 1]
      /\ sem' = IF count'[g] % UINT8 = 0 THEN sem + 1 ELSE sem
      /\ pc' = [pc EXCEPT ![t] = "out"]
      /\ UNCHANGED <<gate, active, group>>

\* Mutant of Leave: every thread of the group raises the main semaphore.
LeaveRaises(t) ==
  LET g == group[t]
  IN  /\ pc[t] = "in"
      /\ count' = [count EXCEPT ![g] = @ - 1]
      /\ active' = [active EXCEPT ![g] = FALSE]
      /\ sem' = sem + 1
      /\ pc' = [pc EXCEPT ![t] = "out"]
      /\ UNCHANGED <<gate, group>>

\* The last thread of the group gives the main semaphore back.
Leave(t) ==
  LET g == group[t]
      last == (count[g] - 1) % UINT8 = 0
  IN  /\ pc[t] = "in"
      /\ count' = [count EXCEPT ![g] = @ - 1]
      /\ active' = [active EXCEPT ![g] = @ /\ ~last]
      /\ sem' = IF last THEN sem + 1 ELSE sem
      /\ pc' = [pc EXCEPT ![t] = "out"]
      /\ UNCHANGED <<gate, group>>

Next == \E t \in Thread :
  \/ \E g \in Group : Arrive(t, g)
  \/ TakeSem(t)
  \/ Open(t)
  \/ PassGate(t)
  \/ Leave(t)

Spec == Init /\ [][Next]_vars

\* A thread never stops inside the lock, and a thread waiting for a semaphore
\* that is up is woken; nothing makes a thread enter.
Fairness == \A t \in Thread : WF_vars(TakeSem(t) \/ Open(t) \/ PassGate(t) \/ Leave(t))

FairSpec == Spec /\ Fairness

-----------------------------------------------------------------------------
(* Properties.                                                             *)

Members(g) == {t \in Thread : group[t] = g /\ pc[t] # "out"}
AtGate(g) == {t \in Thread : group[t] = g /\ pc[t] = "gate"}

\* The types of the lock's fields and of the threads' positions; the
\* main semaphore is binary.
TypeOK ==
  /\ sem \in {0, 1}
  /\ gate \in [Group -> Nat]
  /\ count \in [Group -> 0 .. Cardinality(Thread)]
  /\ active \in [Group -> BOOLEAN]
  /\ pc \in [Thread -> {"out", "sem", "opening", "gate", "in"}]
  /\ group \in [Thread -> Group]

\* "Prevents CP DMA and FLR from running concurrently" (mi300_reset.c,
\* mi300_misc.c): the threads inside the lock are all of one group.
Exclusion ==
  \A t, u \in Thread : pc[t] = "in" /\ pc[u] = "in" => group[t] = group[u]

\* The gate of a group holds a token for each of its waiters, and none
\* when the group does not own the main semaphore: a token left over would
\* let a later thread in beside the other group, a missing one would leave a
\* waiter behind for ever.
TokenPerWaiter ==
  \A g \in Group : gate[g] = IF active[g] THEN Cardinality(AtGate(g)) ELSE 0

\* A thread that waits at the gate of a group which owns the lock gets in;
\* and when threads wait, some thread gets in: the main semaphore is never
\* lost and the two groups never wait on each other.
WaiterIsLetIn ==
  /\ \A t \in Thread : (pc[t] = "gate" /\ active[group[t]]) ~> (pc[t] = "in")
  /\ (\E t \in Thread : pc[t] # "out") ~> (\E t \in Thread : pc[t] = "in")

=============================================================================
