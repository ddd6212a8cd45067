----------------------- MODULE SharedExclusionProofs -----------------------
(***************************************************************************)
(* Proofs about module SharedExclusion, for any number of groups and any   *)
(* number of threads that fits the uint8_t counters.                       *)
(***************************************************************************)
EXTENDS SharedExclusion, FiniteSetTheorems, TLAPS

-----------------------------------------------------------------------------
(* The inductive invariant.                                                *)

\* count[g] counts the threads between enter and exit.
Counted == \A g \in Group : count[g] = Cardinality(Members(g))

\* The main semaphore is down exactly while one group owns it or a first
\* thread is about to claim it for its group.
Owner ==
  /\ \A t \in Thread : pc[t] = "opening" => sem = 0 /\ \A g \in Group : ~active[g]
  /\ \A g \in Group : active[g] => sem = 0 /\ count[g] > 0
  /\ \A g, h \in Group : active[g] /\ active[h] => g = h
  /\ \A t, u \in Thread : pc[t] = "opening" /\ pc[u] = "opening" => t = u

\* The threads inside belong to the owner; a group has one first thread, and
\* none once it is the owner.
Places ==
  /\ \A t \in Thread : pc[t] = "in" => active[group[t]]
  /\ \A t \in Thread : pc[t] \in {"sem", "opening"} => ~active[group[t]]
  /\ \A t, u \in Thread :
       pc[t] \in {"sem", "opening"} /\ pc[u] \in {"sem", "opening"}
         /\ group[t] = group[u] => t = u

IInv == TypeOK /\ Counted /\ Owner /\ Places /\ TokenPerWaiter

-----------------------------------------------------------------------------
(* Counting.                                                               *)

\* The sets of threads the lock counts are finite and fit a uint8_t.
LEMMA ThreadSets ==
  \A S \in SUBSET Thread : /\ IsFiniteSet(S)
                           /\ Cardinality(S) \in 0 .. Cardinality(Thread)
                           /\ Cardinality(S) = 0 <=> S = {}
<1>1. Cardinality(Thread) \in Nat
  BY ThreadAssumption, FS_CardinalityType
<1>2. ASSUME NEW S \in SUBSET Thread
      PROVE  /\ IsFiniteSet(S)
             /\ Cardinality(S) \in 0 .. Cardinality(Thread)
             /\ Cardinality(S) = 0 <=> S = {}
  <2>1. IsFiniteSet(S) /\ Cardinality(S) <= Cardinality(Thread)
    BY ThreadAssumption, FS_Subset
  <2>2. Cardinality(S) \in Nat
    BY <2>1, FS_CardinalityType
  <2> QED
    BY <1>1, <2>1, <2>2, FS_EmptySet
<1> QED
  BY <1>2

\* Numbers of threads are not changed by the conversion to uint8_t.
LEMMA FitsByte ==
  \A n \in 0 .. Cardinality(Thread) : n % UINT8 = n
<1>1. Cardinality(Thread) \in Nat /\ Cardinality(Thread) < 256
  BY ThreadAssumption, FS_CardinalityType
<1> QED
  BY <1>1 DEF UINT8

\* The members and the waiters of a group are threads.
LEMMA GroupSets ==
  \A g \in Group : /\ Members(g) \in SUBSET Thread
                   /\ AtGate(g) \in SUBSET Thread
BY DEF Members, AtGate

\* Adding or taking away one thread changes the count by one.
LEMMA OneMore ==
  ASSUME NEW S \in SUBSET Thread, NEW t \in Thread
  PROVE  /\ t \notin S => Cardinality(S \cup {t}) = Cardinality(S) + 1
         /\ t \in S => Cardinality(S \ {t}) = Cardinality(S) - 1
                      /\ Cardinality(S) > 0
<1>1. IsFiniteSet(S) /\ Cardinality(S) \in Nat /\ (Cardinality(S) = 0 <=> S = {})
  BY ThreadSets
<1>2. ASSUME t \notin S PROVE Cardinality(S \cup {t}) = Cardinality(S) + 1
  BY <1>1, <1>2, FS_AddElement
<1>3. ASSUME t \in S
      PROVE  Cardinality(S \ {t}) = Cardinality(S) - 1 /\ Cardinality(S) > 0
  <2>1. Cardinality(S) > 0
    BY <1>1, <1>3
  <2> QED
    BY <1>1, <1>3, <2>1, FS_RemoveElement
<1> QED
  BY <1>2, <1>3

-----------------------------------------------------------------------------
(* The invariant holds and is preserved.                                   *)

LEMMA InitInv == Init => IInv
<1> SUFFICES ASSUME Init PROVE IInv
  OBVIOUS
<1>1. \A g \in Group : Members(g) = {} /\ AtGate(g) = {}
  BY DEF Init, Members, AtGate
<1>2. Cardinality({}) = 0 /\ 0 \in 0 .. Cardinality(Thread)
  BY FS_EmptySet, ThreadAssumption, FS_CardinalityType
<1> QED
  BY <1>1, <1>2 DEF Init, IInv, TypeOK, Counted, Owner, Places, TokenPerWaiter

LEMMA ArriveInv ==
  ASSUME IInv, NEW t \in Thread, NEW g \in Group, Arrive(t, g)
  PROVE  IInv'
<1> USE DEF IInv
<1>1. \A h \in Group \ {g} : Members(h)' = Members(h) /\ AtGate(h)' = AtGate(h)
  BY DEF Arrive, Members, AtGate, TypeOK
<1>2. Members(g)' = Members(g) \cup {t} /\ t \notin Members(g)
  BY DEF Arrive, Members, TypeOK
<1>3. Cardinality(Members(g)') = count[g] + 1
  BY <1>2, GroupSets, OneMore DEF Counted
<1>4. count'[g] = count[g] + 1 /\ count'[g] \in 0 .. Cardinality(Thread)
  <2>1. Members(g) \cup {t} \in SUBSET Thread
    BY GroupSets
  <2> QED
    BY <1>2, <1>3, <2>1, ThreadSets DEF Arrive, TypeOK
<1>5. count'[g] % UINT8 = count'[g]
  BY <1>4, FitsByte
<1>6. Counted'
  BY <1>1, <1>3, <1>4 DEF Counted, Arrive, TypeOK
<1>7. CASE count'[g] = 1
  <2>1. Members(g) = {} /\ count[g] = 0
    <3>1. count[g] = 0
      BY <1>4, <1>7, ThreadAssumption, FS_CardinalityType DEF TypeOK
    <3> QED
      BY <3>1, ThreadSets, GroupSets DEF Counted
  <2>2. ~active[g] /\ \A u \in Thread : group[u] = g => pc[u] = "out"
    BY <2>1 DEF Owner, Members, TypeOK
  <2>3. pc' = [pc EXCEPT ![t] = "sem"]
    BY <1>5, <1>7 DEF Arrive
  <2>4. TypeOK'
    BY <1>4, <2>3 DEF TypeOK, Arrive
  <2>5. Owner' /\ Places'
    BY <2>2, <2>3, <1>4, <1>7 DEF TypeOK, Arrive, Owner, Places
  <2>6. AtGate(g)' = AtGate(g)
    BY <2>2, <2>3 DEF AtGate, Arrive, TypeOK
  <2> QED
    BY <1>1, <1>6, <2>4, <2>5, <2>6 DEF TokenPerWaiter, Arrive
<1>8. CASE count'[g] # 1 /\ active[g]
  <2>1. pc' = [pc EXCEPT ![t] = "in"]
    BY <1>5, <1>8 DEF Arrive
  <2>2. TypeOK'
    BY <1>4, <2>1 DEF TypeOK, Arrive
  <2>3. Owner' /\ Places'
    BY <1>4, <1>8, <2>1 DEF TypeOK, Arrive, Owner, Places
  <2>4. AtGate(g)' = AtGate(g)
    BY <2>1 DEF AtGate, Arrive, TypeOK
  <2> QED
    BY <1>1, <1>6, <2>2, <2>3, <2>4 DEF TokenPerWaiter, Arrive
<1>9. CASE count'[g] # 1 /\ ~active[g]
  <2>1. pc' = [pc EXCEPT ![t] = "gate"]
    BY <1>5, <1>9 DEF Arrive
  <2>2. TypeOK'
    BY <1>4, <2>1 DEF TypeOK, Arrive
  <2>3. Owner' /\ Places'
    BY <1>4, <1>9, <2>1 DEF TypeOK, Arrive, Owner, Places
  <2> QED
    BY <1>1, <1>6, <1>9, <2>2, <2>3 DEF TokenPerWaiter, Arrive
<1> QED
  BY <1>7, <1>8, <1>9

LEMMA TakeSemInv ==
  ASSUME IInv, NEW t \in Thread, TakeSem(t)
  PROVE  IInv'
<1> USE DEF IInv
<1>1. \A h \in Group : Members(h)' = Members(h) /\ AtGate(h)' = AtGate(h)
  BY DEF TakeSem, Members, AtGate, TypeOK
<1>2. TypeOK'
  BY DEF TypeOK, TakeSem
<1>3. Owner' /\ Places'
  BY DEF TypeOK, TakeSem, Owner, Places
<1> QED
  BY <1>1, <1>2, <1>3 DEF TakeSem, Counted, TokenPerWaiter

LEMMA OpenInv ==
  ASSUME IInv, NEW t \in Thread, Open(t)
  PROVE  IInv'
<1> USE DEF IInv
<1>g. PICK g \in Group : g = group[t]
  BY DEF TypeOK
<1>0. g = group[t] /\ pc[t] = "opening" /\ ~active[g] /\ gate[g] = 0
  BY <1>g DEF Open, TypeOK, Owner, TokenPerWaiter
<1>1. \A h \in Group : Members(h)' = Members(h) /\ AtGate(h)' = AtGate(h)
  BY DEF Open, Members, AtGate, TypeOK
<1>2. AtGate(g) = Members(g) \ {t} /\ t \in Members(g)
  BY <1>0 DEF AtGate, Members, Places, TypeOK
<1>3. Cardinality(AtGate(g)) = count[g] - 1 /\ count[g] \in Nat \ {0}
  BY <1>2, GroupSets, OneMore, ThreadSets DEF Counted
<1>4. (count[g] - 1) % UINT8 = count[g] - 1
  <2>1. count[g] - 1 \in 0 .. Cardinality(Thread)
    BY <1>3, ThreadAssumption, FS_CardinalityType DEF TypeOK
  <2> QED
    BY <2>1, FitsByte
<1>5. gate' = [gate EXCEPT ![g] = count[g] - 1]
  <2>1. gate' = [gate EXCEPT ![g] = @ + ((count[g] - 1) % UINT8)]
    BY <1>0 DEF Open
  <2>2. gate[g] + ((count[g] - 1) % UINT8) = count[g] - 1
    BY <1>0, <1>3, <1>4
  <2> QED
    BY <2>1, <2>2
<1>6. TypeOK'
  BY <1>0, <1>3, <1>5 DEF TypeOK, Open
<1>7. Owner' /\ Places'
  BY <1>0, <1>3 DEF TypeOK, Open, Owner, Places
<1>8. TokenPerWaiter'
  BY <1>0, <1>1, <1>3, <1>5 DEF TypeOK, Open, TokenPerWaiter
<1> QED
  BY <1>1, <1>6, <1>7, <1>8 DEF Open, Counted

LEMMA PassGateInv ==
  ASSUME IInv, NEW t \in Thread, PassGate(t)
  PROVE  IInv'
<1> USE DEF IInv
<1>g. PICK g \in Group : g = group[t]
  BY DEF TypeOK
<1>0. g = group[t] /\ pc[t] = "gate" /\ gate[g] \in Nat /\ gate[g] > 0 /\ active[g]
  BY <1>g DEF PassGate, TypeOK, TokenPerWaiter
<1>1. \A h \in Group : Members(h)' = Members(h)
  BY DEF PassGate, Members, TypeOK
<1>2. /\ \A h \in Group \ {g} : AtGate(h)' = AtGate(h)
      /\ AtGate(g)' = AtGate(g) \ {t} /\ t \in AtGate(g)
  BY <1>0 DEF PassGate, AtGate, TypeOK
<1>3. Cardinality(AtGate(g)') = gate[g] - 1
  BY <1>0, <1>2, GroupSets, OneMore DEF TokenPerWaiter
<1>4. TypeOK'
  BY <1>0 DEF TypeOK, PassGate
<1>5. Owner' /\ Places'
  BY <1>0 DEF TypeOK, PassGate, Owner, Places
<1>6. TokenPerWaiter'
  BY <1>0, <1>2, <1>3 DEF TypeOK, PassGate, TokenPerWaiter
<1> QED
  BY <1>1, <1>4, <1>5, <1>6 DEF PassGate, Counted

LEMMA LeaveInv ==
  ASSUME IInv, NEW t \in Thread, Leave(t)
  PROVE  IInv'
<1> USE DEF IInv
<1>g. PICK g \in Group : g = group[t]
  BY DEF TypeOK
<1>0. g = group[t] /\ pc[t] = "in" /\ active[g] /\ sem = 0
  BY <1>g DEF Leave, TypeOK, Places, Owner
<1>1. /\ \A h \in Group : AtGate(h)' = AtGate(h)
      /\ \A h \in Group \ {g} : Members(h)' = Members(h)
      /\ Members(g)' = Members(g) \ {t} /\ t \in Members(g)
  BY <1>0 DEF Leave, Members, AtGate, TypeOK
<1>2. Cardinality(Members(g)') = count[g] - 1 /\ count[g] \in Nat \ {0}
  BY <1>1, GroupSets, OneMore, ThreadSets DEF Counted
<1>3. (count[g] - 1) % UINT8 = count[g] - 1 /\ count[g] - 1 \in 0 .. Cardinality(Thread)
  <2>1. count[g] - 1 \in 0 .. Cardinality(Thread)
    BY <1>2, ThreadAssumption, FS_CardinalityType DEF TypeOK
  <2> QED
    BY <2>1, FitsByte
<1>4. Counted'
  BY <1>0, <1>1, <1>2 DEF Counted, Leave, TypeOK
<1> DEFINE last == (count[g] - 1) % UINT8 = 0
<1>l. /\ active' = [active EXCEPT ![g] = @ /\ ~last]
      /\ sem' = IF last THEN sem + 1 ELSE sem
  BY <1>0 DEF Leave
<1> HIDE DEF last
<1>5. CASE count[g] = 1
  <2>1. Members(g) = {t}
    <3>1. Cardinality(Members(g)') = 0
      BY <1>2, <1>5
    <3> QED
      BY <1>1, <3>1, ThreadSets DEF Members
  <2>2. \A u \in Thread : group[u] = g /\ u # t => pc[u] = "out"
    BY <2>1 DEF Members
  <2>3. sem' = 1 /\ active' = [active EXCEPT ![g] = FALSE]
    <3>1. last
      BY <1>3, <1>5 DEF last
    <3>2. (active[g] /\ ~last) = FALSE
      BY <3>1
    <3>3. sem' = 1
      BY <1>0, <1>l, <3>1
    <3>4. active' = [active EXCEPT ![g] = FALSE]
      BY <1>l, <3>2, Zenon
    <3> QED
      BY <3>3, <3>4
  <2>4. TypeOK'
    BY <1>0, <1>3, <2>3 DEF TypeOK, Leave
  <2>5. Owner' /\ Places'
    BY <1>0, <2>2, <2>3 DEF TypeOK, Leave, Owner, Places
  <2>6. AtGate(g) = {} /\ gate[g] = 0
    BY <1>0, <2>2, ThreadSets DEF AtGate, TokenPerWaiter
  <2>7. TokenPerWaiter'
    BY <1>0, <1>1, <2>3, <2>6 DEF TokenPerWaiter, Leave, TypeOK
  <2> QED
    BY <1>4, <2>4, <2>5, <2>7
<1>6. CASE count[g] # 1
  <2>1. sem' = 0 /\ active' = active
    <3>1. ~last
      BY <1>2, <1>3, <1>6 DEF last
    <3> QED
      BY <1>0, <1>l, <3>1 DEF TypeOK
  <2>2. TypeOK'
    BY <1>0, <1>3, <2>1 DEF TypeOK, Leave
  <2>3. Owner' /\ Places'
    BY <1>0, <1>2, <1>6, <2>1 DEF TypeOK, Leave, Owner, Places
  <2>4. TokenPerWaiter'
    BY <1>1, <2>1 DEF TokenPerWaiter, Leave
  <2> QED
    BY <1>4, <2>2, <2>3, <2>4
<1> QED
  BY <1>5, <1>6

LEMMA NextInv == IInv /\ [Next]_vars => IInv'
<1> SUFFICES ASSUME IInv, [Next]_vars PROVE IInv'
  OBVIOUS
<1>1. CASE UNCHANGED vars
  <2>1. \A g \in Group : Members(g)' = Members(g) /\ AtGate(g)' = AtGate(g)
    BY <1>1 DEF vars, Members, AtGate
  <2> QED
    BY <1>1, <2>1 DEF vars, IInv, TypeOK, Counted, Owner, Places, TokenPerWaiter
<1>2. CASE Next
  BY <1>2, ArriveInv, TakeSemInv, OpenInv, PassGateInv, LeaveInv DEF Next
<1> QED
  BY <1>1, <1>2

-----------------------------------------------------------------------------
(* The theorems.                                                           *)

\* The invariant holds of every behaviour of the lock.
LEMMA Inductive == Spec => []IInv
BY InitInv, NextInv, PTL DEF Spec

\* A CP DMA copy and a function level reset are never inside the lock
\* together, whatever the number of GPUs (shared_exclusion_enter and _exit).
THEOREM GroupsExclude == Spec => []Exclusion
<1>1. IInv => Exclusion
  BY DEF IInv, Exclusion, Places, Owner, TypeOK
<1> QED
  BY <1>1, Inductive, PTL

\* The gates never hold a token too many nor one too few: no waiter is left
\* behind and no later thread is let in by a stale token.
THEOREM GatesBalanced == Spec => []TokenPerWaiter
<1>1. IInv => TokenPerWaiter
  BY DEF IInv
<1> QED
  BY <1>1, Inductive, PTL

\* The fields keep their types; the main semaphore is raised at most once.
THEOREM LockTypes == Spec => []TypeOK
<1>1. IInv => TypeOK
  BY DEF IInv
<1> QED
  BY <1>1, Inductive, PTL

=============================================================================
