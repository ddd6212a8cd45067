-------------------------- MODULE ChainResetProofs --------------------------
(***************************************************************************)
(* Proofs about module ChainReset, for any number of nodes, any number of  *)
(* requests and any set of faults.                                         *)
(***************************************************************************)
EXTENDS ChainReset, FiniteSetTheorems, TLAPS

-----------------------------------------------------------------------------
(* The inductive invariant.                                                *)

In(n)    == pc[n] \in {"enter", "inside", "yield"}
Out(n)   == pc[n] \in {"yield", "drain", "leave"}
InUse(n) == In(n) \/ Out(n)

\* The barrier's counters count the nodes they are about, whatever fails.
Counted ==
  /\ tc = Cardinality({n \in Node : In(n)})
  /\ yc = Cardinality({n \in Node : Out(n)})

\* Nobody is inside the barrier unless all are in it: a node only lowers
\* thread_count when all have raised thread_yield_count.
Gathered == \A n \in Node : pc[n] = "inside" => \A m \in Node : In(m)

\* Where a node that has failed can be: a failure before the last barrier
\* makes the hive bad on the way there, and the node stays out afterwards.
Marked ==
  \A n \in Node :
    /\ pc[n] = "failed" => failed[n] # "no"
    /\ failed[n] # "no" =>
         \/ pc[n] = "failed"
         \/ failed[n] = "mode1" /\ at[n] = "mode1" /\ Out(n)
         \/ bad /\ (pc[n] = "idle" \/ (at[n] = "finish" /\ InUse(n)))

\* No node that missed the inner barrier, or failed in it, has come to the
\* outer one yet: the nodes still agree on which use of the barrier is on.
Aligned ==
  \A n \in Node : failed[n] \in {"alloc", "mode1"} =>
    \/ pc[n] = "failed"
    \/ at[n] = "mode1" /\ Out(n)

\* The part of a round of reset a node is in: before the inner barrier, in it,
\* past the point where all have had their mode-1 reset, on the way out of
\* the outer barrier.
Pre(n)  == \/ pc[n] \in {"idle", "begin", "broadcast", "self", "prepare"}
           \/ pc[n] = "failed" /\ failed[n] = "alloc"
Mid(n)  == at[n] = "mode1" /\ In(n)
Back(n) == \/ pc[n] = "reinit"
           \/ pc[n] = "failed" /\ failed[n] # "alloc"
           \/ at[n] = "finish" /\ In(n)
Past(n) == Back(n) \/ (at[n] = "mode1" /\ pc[n] \in {"drain", "leave"})
End(n)  == at[n] = "finish" /\ pc[n] \in {"drain", "leave"}

\* The nodes are in the same use of the barrier.
Alike == \A m, n \in Node : InUse(m) /\ InUse(n) => at[m] = at[n]

\* A node leaves only an empty barrier.
Emptied == \A m, n \in Node : pc[n] = "leave" => ~In(m)

\* Once a node is past its mode-1 reset no node is before it; once one is back,
\* none is still in the inner barrier; once one is on its way out of the outer
\* barrier, none is before it.
InStep ==
  \A m, n \in Node :
    /\ Past(m) => Past(n) \/ End(n) \/ (Mid(n) /\ pc[n] = "yield")
    /\ Back(m) => ~Mid(n)
    /\ End(m) => End(n) \/ Pre(n) \/ (at[n] = "finish" /\ pc[n] = "yield")
    /\ pc[m] = "failed" /\ failed[m] = "reinit" => pc[n] \notin {"drain", "leave"}

\* Without the flag there is nobody between the two barriers or before them.
Flagged ==
  ~inChain => \A n \in Node : \/ pc[n] \in {"idle", "begin"}
                              \/ at[n] = "finish" /\ InUse(n)

\* The flag is up only while somebody has still to come to the outer barrier;
\* the master has not been there.
Busy(n) == \/ pc[n] \in {"broadcast", "self", "prepare", "reinit", "failed"}
           \/ at[n] = "mode1" /\ InUse(n)
           \/ at[n] = "finish" /\ pc[n] \in {"enter", "inside"}
Underway ==
  /\ inChain => \E n \in Node : Busy(n)
  /\ pc[Master] = "yield" /\ at[Master] = "finish" => ~inChain

\* A node back from its reset has no internal event left to take.
Purged == \A n \in Node : ~bad /\ at[n] = "finish" /\ In(n) => ~internal[n]

\* A node that is to reset itself meets a chain reset; a bad hive takes no
\* further request.
Joined ==
  \A n \in Node :
    /\ pc[n] \in {"broadcast", "self", "prepare"} => inChain
    /\ pc[n] = "begin" => inChain \/ (all[n] /\ ~bad)
    /\ internal[n] /\ ~bad => inChain

Calm == Alike /\ Emptied /\ InStep /\ Flagged /\ Underway /\ Purged

Rest == Gathered /\ Marked /\ Joined /\ (Aligned => Calm)

IInv == TypeOK /\ Counted /\ Rest

-----------------------------------------------------------------------------
(* Counting.                                                               *)

\* The hive has N nodes, one of them the master.
LEMMA NodeFinite ==
  IsFiniteSet(Node) /\ Cardinality(Node) = N /\ N \in Nat /\ Master \in Node
<1>1. N \in Nat /\ 1 <= N /\ N - 1 \in Int /\ 0 \in Int
  BY NAssumption
<1>2. IsFiniteSet(0 .. N - 1) /\ Cardinality(0 .. N - 1) = N
  BY <1>1, FS_Interval
<1> QED BY <1>1, <1>2 DEF Node, Master

\* A set of nodes has at most N, and N only when it has them all.
LEMMA Census ==
  ASSUME NEW S \in SUBSET Node
  PROVE  /\ IsFiniteSet(S) /\ Cardinality(S) \in 0 .. N
         /\ Cardinality(S) >= N => S = Node
         /\ Cardinality(S) = 0 => S = {}
<1>1. IsFiniteSet(S) /\ Cardinality(S) <= N /\ (N = Cardinality(S) => Node = S)
  BY NodeFinite, FS_Subset
<1>2. Cardinality(S) \in Nat
  BY <1>1, FS_CardinalityType
<1>3. Cardinality(S) = 0 => S = {}
  BY <1>1, FS_EmptySet
<1> QED BY <1>1, <1>2, <1>3, NodeFinite

\* What a poll of the barrier's loops learns from the counters.
LEMMA Polls ==
  ASSUME Counted
  PROVE  /\ tc \in 0 .. N /\ yc \in 0 .. N
         /\ tc >= N => \A m \in Node : In(m)
         /\ tc = 0 => \A m \in Node : ~In(m)
         /\ yc >= N => \A m \in Node : Out(m)
<1> DEFINE I == {n \in Node : In(n)}
           O == {n \in Node : Out(n)}
<1>1. tc = Cardinality(I) /\ yc = Cardinality(O) /\ I \in SUBSET Node /\ O \in SUBSET Node
  BY DEF Counted
<1>2. /\ tc \in 0 .. N /\ yc \in 0 .. N
      /\ tc >= N => I = Node
      /\ tc = 0 => I = {}
      /\ yc >= N => O = Node
  BY <1>1, Census
<1>3. /\ I = Node => \A m \in Node : In(m)
      /\ I = {} => \A m \in Node : ~In(m)
      /\ O = Node => \A m \in Node : Out(m)
  OBVIOUS
<1> QED BY <1>2, <1>3

\* One node more or one node fewer.
LEMMA CountMove ==
  ASSUME NEW S \in SUBSET Node, NEW n \in Node
  PROVE  /\ n \notin S => Cardinality(S \cup {n}) = Cardinality(S) + 1
         /\ n \in S => Cardinality(S \ {n}) = Cardinality(S) - 1
<1>1. IsFiniteSet(S)
  BY Census
<1> QED BY <1>1, FS_AddElement, FS_RemoveElement

\* Every step keeps the counters exact, harmed or not.
LEMMA CountStep == TypeOK /\ Counted /\ [Next]_vars => Counted'
<1> SUFFICES ASSUME TypeOK, Counted, [Next]_vars PROVE Counted'
  OBVIOUS
<1> DEFINE I == {n \in Node : In(n)}
           O == {n \in Node : Out(n)}
<1>0. tc = Cardinality(I) /\ yc = Cardinality(O) /\ I \in SUBSET Node /\ O \in SUBSET Node
  BY DEF Counted
<1>a. ASSUME tc' = tc, yc' = yc,
             \A k \in Node : (In(k)' <=> In(k)) /\ (Out(k)' <=> Out(k))
      PROVE  Counted'
  <2>1. I' = I /\ O' = O
    BY <1>a
  <2> QED BY <1>0, <1>a, <2>1 DEF Counted
<1>b. ASSUME NEW n \in Node, ~InUse(n), tc' = tc + 1, yc' = yc,
             pc' = [pc EXCEPT ![n] = "enter"]
      PROVE  Counted'
  <2>1. I' = I \cup {n} /\ O' = O /\ n \notin I
    BY <1>b DEF In, Out, InUse, TypeOK
  <2> QED BY <1>0, <1>b, <2>1, CountMove DEF Counted
<1>1. ASSUME NEW n \in Node, Request(n) PROVE Counted'
  <2>1. tc' = tc /\ yc' = yc /\ pc' = pc
    BY <1>1 DEF Request, barrier, local
  <2> QED BY <1>a, <2>1 DEF In, Out
<1>2. ASSUME NEW n \in Node, Handle(n) \/ Begin(n) \/ Broadcast(n) \/ SelfReset(n)
                               \/ AllocFails(n) \/ ReinitFails(n)
      PROVE  Counted'
  <2>1. tc' = tc /\ yc' = yc
    BY <1>2 DEF Handle, Begin, Broadcast, SelfReset, AllocFails, ReinitFails, barrier
  <2>2. \A k \in Node : \/ pc'[k] = pc[k]
                          \/ /\ pc[k] \notin {"enter", "inside", "yield", "drain", "leave"}
                             /\ pc'[k] \notin {"enter", "inside", "yield", "drain", "leave"}
    BY <1>2 DEF Handle, Begin, Broadcast, SelfReset, AllocFails, ReinitFails,
                Goto, TypeOK
  <2>3. \A k \in Node : (In(k)' <=> In(k)) /\ (Out(k)' <=> Out(k))
    BY <2>2 DEF In, Out
  <2> QED BY <1>a, <2>1, <2>3
<1>3. ASSUME NEW n \in Node, Prepare(n) \/ Reinit(n) \/ Failed(n) PROVE Counted'
  BY <1>b, <1>3 DEF Prepare, Reinit, Failed, EnterBarrier, Goto, InUse, In, Out
<1>4. ASSUME NEW n \in Node, Entered(n) PROVE Counted'
  <2>1. I' = I /\ O' = O /\ tc' = tc /\ yc' = yc
    BY <1>4 DEF Entered, Goto, In, Out, TypeOK, barrier
  <2> QED BY <1>0, <2>1 DEF Counted
<1>5. ASSUME NEW n \in Node, Mode1(n) \/ Finish(n) PROVE Counted'
  <2>1. I' = I /\ O' = O \cup {n} /\ n \notin O /\ tc' = tc /\ yc' = yc + 1
    BY <1>5 DEF Mode1, Finish, Goto, In, Out, TypeOK
  <2> QED BY <1>0, <2>1, CountMove DEF Counted
<1>6. ASSUME NEW n \in Node, Yielded(n) PROVE Counted'
  <2>1. I' = I \ {n} /\ O' = O /\ n \in I /\ tc' = tc - 1 /\ yc' = yc
    BY <1>6 DEF Yielded, Goto, In, Out, TypeOK
  <2> QED BY <1>0, <2>1, CountMove DEF Counted
<1>7. ASSUME NEW n \in Node, Drained(n) PROVE Counted'
  <2>1. I' = I /\ O' = O /\ tc' = tc /\ yc' = yc
    BY <1>7 DEF Drained, Goto, In, Out, TypeOK, barrier
  <2> QED BY <1>0, <2>1 DEF Counted
<1>8. ASSUME NEW n \in Node, LeaveBarrier(n) PROVE Counted'
  <2>1. I' = I /\ O' = O \ {n} /\ n \in O /\ tc' = tc /\ yc' = yc - 1
    BY <1>8 DEF LeaveBarrier, Goto, In, Out, TypeOK
  <2> QED BY <1>0, <2>1, CountMove DEF Counted
<1>9. CASE UNCHANGED vars
  <2>1. tc' = tc /\ yc' = yc /\ pc' = pc
    BY <1>9 DEF vars, barrier, local
  <2> QED BY <1>a, <2>1 DEF In, Out
<1> QED BY <1>1, <1>2, <1>3, <1>4, <1>5, <1>6, <1>7, <1>8, <1>9 DEF Next, Step

\* Every step keeps the variables within their types.
LEMMA TypeStep == TypeOK /\ Counted /\ [Next]_vars => TypeOK'
<1> SUFFICES ASSUME TypeOK, Counted, [Next]_vars PROVE TypeOK'
  OBVIOUS
<1>0. Counted'
  BY CountStep
<1>1. tc' \in 0 .. N /\ yc' \in 0 .. N
  <2>1. /\ tc' = Cardinality({n \in Node : In(n)'})
        /\ yc' = Cardinality({n \in Node : Out(n)'})
    BY <1>0 DEF Counted
  <2>2. {n \in Node : In(n)'} \in SUBSET Node /\ {n \in Node : Out(n)'} \in SUBSET Node
    OBVIOUS
  <2> QED BY <2>1, <2>2, Census
<1> DEFINE T == /\ inChain' \in BOOLEAN /\ bad' \in BOOLEAN
                /\ own' \in [Node -> BOOLEAN] /\ internal' \in [Node -> BOOLEAN]
                /\ pc' \in [Node -> Place] /\ all' \in [Node -> BOOLEAN]
                /\ at' \in [Node -> {"mode1", "finish"}]
                /\ told' \in [Node -> SUBSET Node]
                /\ failed' \in [Node -> FaultKind \union {"no"}]
                /\ reqs' \in 0 .. MaxReq
<1> SUFFICES T
  BY <1>1 DEF TypeOK
<1> USE DEF TypeOK, Goto, Place, hive, queues, local
<1>2. ASSUME NEW n \in Node, Request(n) PROVE T
  BY <1>2, MaxReqAssumption DEF Request
<1>3. ASSUME NEW n \in Node, Handle(n) PROVE T
  BY <1>3 DEF Handle
<1>4. ASSUME NEW n \in Node, Begin(n) PROVE T
  BY <1>4 DEF Begin
<1>5. ASSUME NEW n \in Node, Broadcast(n) PROVE T
  <2>1. CASE told[n] = {}
    BY <1>5, <2>1 DEF Broadcast
  <2>2. CASE told[n] # {}
    <3>1. PICK m \in told[n] :
            /\ internal' = [internal EXCEPT ![m] = TRUE]
            /\ told' = [told EXCEPT ![n] = @ \ {m}]
      BY <1>5, <2>2 DEF Broadcast
    <3>2. internal' \in [Node -> BOOLEAN] /\ told' \in [Node -> SUBSET Node]
      BY <3>1
    <3> QED BY <1>5, <2>2, <3>2 DEF Broadcast
  <2> QED BY <2>1, <2>2
<1>6. ASSUME NEW n \in Node, SelfReset(n) PROVE T
  BY <1>6 DEF SelfReset
<1>7. ASSUME NEW n \in Node, Entered(n) \/ Yielded(n) \/ Drained(n) \/ LeaveBarrier(n)
      PROVE  T
  BY <1>7 DEF Entered, Yielded, Drained, LeaveBarrier
<1>8. ASSUME NEW n \in Node, Prepare(n) \/ Reinit(n) \/ Failed(n) PROVE T
  <2>1. CASE Prepare(n)
    BY <2>1 DEF Prepare, EnterBarrier
  <2>2. CASE Reinit(n)
    BY <2>2 DEF Reinit, EnterBarrier
  <2>3. CASE Failed(n)
    BY <2>3 DEF Failed, EnterBarrier
  <2> QED BY <1>8, <2>1, <2>2, <2>3
<1>9. ASSUME NEW n \in Node, AllocFails(n) \/ ReinitFails(n) PROVE T
  BY <1>9 DEF AllocFails, ReinitFails, FaultKind
<1>10. ASSUME NEW n \in Node, Mode1(n) PROVE T
  BY <1>10 DEF Mode1, FaultKind
<1>11. ASSUME NEW n \in Node, Finish(n) PROVE T
  BY <1>11 DEF Finish
<1>12. CASE UNCHANGED vars
  BY <1>12 DEF vars
<1> QED BY <1>2, <1>3, <1>4, <1>5, <1>6, <1>7, <1>8, <1>9, <1>10, <1>11, <1>12
        DEF Next, Step
-----------------------------------------------------------------------------
(* The barrier's steps.                                                    *)

\* A poll finds everybody in.
LEMMA EnteredStep ==
  ASSUME IInv, NEW n \in Node, Entered(n)
  PROVE  Rest'
<1> USE DEF IInv, Rest, TypeOK, In, Out, InUse
<1>1. /\ pc[n] = "enter" /\ \A k \in Node : In(k)
      /\ \A k \in Node : pc'[k] = IF k = n THEN "inside" ELSE pc[k]
      /\ UNCHANGED <<inChain, bad, internal, all, at, failed>>
  BY Polls DEF Entered, Goto, hive, queues
<1>2. Gathered'
  BY <1>1 DEF Gathered
<1>3. Marked' /\ Joined'
  BY <1>1 DEF Marked, Joined
<1>4. ASSUME Aligned' PROVE Calm'
  <2>1. Aligned /\ Calm
    BY <1>1, <1>4 DEF Aligned
  <2> USE DEF Calm
  <2>2. Alike' /\ Emptied'
    BY <1>1, <2>1 DEF Alike, Emptied
  <2>3. InStep'
    BY <1>1, <2>1 DEF InStep, Pre, Mid, Back, Past, End
  <2>4. Flagged' /\ Purged'
    BY <1>1, <2>1 DEF Flagged, Purged
  <2>5. Underway'
    BY <1>1, <2>1, NodeFinite DEF Underway, Busy
  <2> QED BY <2>2, <2>3, <2>4, <2>5
<1> QED BY <1>2, <1>3, <1>4

\* A poll finds that everybody has yielded.
LEMMA YieldedStep ==
  ASSUME IInv, NEW n \in Node, Yielded(n)
  PROVE  Rest'
<1> USE DEF IInv, Rest, TypeOK, In, Out, InUse
<1>1. /\ pc[n] = "yield" /\ \A k \in Node : Out(k)
      /\ \A k \in Node : pc'[k] = IF k = n THEN "drain" ELSE pc[k]
      /\ UNCHANGED <<inChain, bad, internal, all, at, failed>>
  BY Polls DEF Yielded, Goto, hive, queues
<1>2. Gathered'
  BY <1>1 DEF Gathered
<1>3. Marked' /\ Joined'
  BY <1>1 DEF Marked, Joined
<1>4. ASSUME Aligned' PROVE Calm'
  <2>1. Aligned /\ Calm
    BY <1>1, <1>4 DEF Aligned
  <2> USE DEF Calm
  <2>2. Alike' /\ Emptied'
    BY <1>1, <2>1 DEF Alike, Emptied
  <2>3. InStep'
    BY <1>1, <2>1, <2>2 DEF InStep, Alike, Pre, Mid, Back, Past, End
  <2>4. Flagged' /\ Purged'
    BY <1>1, <2>1 DEF Flagged, Purged
  <2>5. Underway'
    BY <1>1, <2>1, NodeFinite DEF Underway, Busy
  <2> QED BY <2>2, <2>3, <2>4, <2>5
<1> QED BY <1>2, <1>3, <1>4

\* A poll finds everybody gone.
LEMMA DrainedStep ==
  ASSUME IInv, NEW n \in Node, Drained(n)
  PROVE  Rest'
<1> USE DEF IInv, Rest, TypeOK, In, Out, InUse
<1>1. /\ pc[n] = "drain" /\ \A k \in Node : ~In(k)
      /\ \A k \in Node : pc'[k] = IF k = n THEN "leave" ELSE pc[k]
      /\ UNCHANGED <<inChain, bad, internal, all, at, failed>>
  BY Polls DEF Drained, Goto, hive, queues
<1>2. Gathered'
  BY <1>1 DEF Gathered
<1>3. Marked' /\ Joined'
  BY <1>1 DEF Marked, Joined
<1>4. ASSUME Aligned' PROVE Calm'
  <2>1. Aligned /\ Calm
    BY <1>1, <1>4 DEF Aligned
  <2> USE DEF Calm
  <2>2. Alike' /\ Emptied'
    BY <1>1, <2>1 DEF Alike, Emptied
  <2>3. InStep'
    BY <1>1, <2>1 DEF InStep, Pre, Mid, Back, Past, End
  <2>4. Flagged' /\ Purged'
    BY <1>1, <2>1 DEF Flagged, Purged
  <2>5. Underway'
    BY <1>1, <2>1, NodeFinite DEF Underway, Busy
  <2> QED BY <2>2, <2>3, <2>4, <2>5
<1> QED BY <1>2, <1>3, <1>4

\* The last operation of the exit; a node leaves an empty barrier.
LEMMA LeaveStep ==
  ASSUME IInv, NEW n \in Node, LeaveBarrier(n)
  PROVE  Rest'
<1> USE DEF IInv, Rest, TypeOK, In, Out, InUse
<1> DEFINE to == IF at[n] = "finish" THEN "idle"
                 ELSE IF failed[n] # "no" THEN "failed" ELSE "reinit"
<1>1. /\ pc[n] = "leave"
      /\ \A k \in Node : pc'[k] = IF k = n THEN to ELSE pc[k]
      /\ UNCHANGED <<inChain, bad, internal, all, at, failed>>
  BY DEF LeaveBarrier, Goto, hive, queues
<1>2. Gathered'
  BY <1>1 DEF Gathered
<1>3. Marked' /\ Joined'
  BY <1>1 DEF Marked, Joined
<1>4. ASSUME Aligned' PROVE Calm'
  <2>1. Aligned /\ Calm
    BY <1>1, <1>3, <1>4 DEF Aligned, Marked
  <2> USE DEF Calm
  <2>2. Alike' /\ Emptied'
    BY <1>1, <2>1 DEF Alike, Emptied
  <2>3. InStep'
    BY <1>1, <2>1 DEF InStep, Alike, Emptied, Marked, Pre, Mid, Back, Past, End
  <2>4. Flagged' /\ Purged'
    BY <1>1, <2>1 DEF Flagged, Purged
  <2>5. Underway'
    BY <1>1, <2>1, NodeFinite DEF Underway, Busy
  <2> QED BY <2>2, <2>3, <2>4, <2>5
<1> QED BY <1>2, <1>3, <1>4

-----------------------------------------------------------------------------
(* The steps outside the barrier.                                          *)

\* An event is taken, or dropped because the hive is bad.
LEMMA HandleStep ==
  ASSUME IInv, NEW n \in Node, Handle(n)
  PROVE  Rest'
<1> USE DEF IInv, Rest, TypeOK, In, Out, InUse
<1>1. /\ pc[n] = "idle"
      /\ \A k \in Node : pc'[k] = IF k = n THEN IF bad THEN "idle" ELSE "begin" ELSE pc[k]
      /\ \A k \in Node : k # n => all'[k] = all[k] /\ internal'[k] = internal[k]
      /\ internal'[n] => internal[n]
      /\ all'[n] \/ internal[n]
      /\ UNCHANGED <<inChain, bad, at, failed>>
  BY DEF Handle, Goto, hive
<1>2. Gathered'
  BY <1>1 DEF Gathered
<1>3. Marked' /\ Joined'
  BY <1>1 DEF Marked, Joined
<1>4. ASSUME Aligned' PROVE Calm'
  <2>1. Aligned /\ Calm
    BY <1>1, <1>4 DEF Aligned, Marked
  <2> USE DEF Calm
  <2>2. Alike' /\ Emptied'
    BY <1>1, <2>1 DEF Alike, Emptied
  <2>3. InStep'
    BY <1>1, <2>1 DEF InStep, Pre, Mid, Back, Past, End
  <2>4. Flagged' /\ Purged'
    BY <1>1, <2>1 DEF Flagged, Purged
  <2>5. Underway'
    BY <1>1, <2>1, NodeFinite DEF Underway, Busy
  <2> QED BY <2>2, <2>3, <2>4, <2>5
<1> QED BY <1>2, <1>3, <1>4

\* The first request with reset_all raises the flag.
LEMMA BeginStep ==
  ASSUME IInv, NEW n \in Node, Begin(n)
  PROVE  Rest'
<1> USE DEF IInv, Rest, TypeOK, In, Out, InUse
<1>1. /\ pc[n] = "begin" /\ inChain'
      /\ \A k \in Node : k # n => pc'[k] = pc[k]
      /\ pc'[n] \in {"broadcast", "self"}
      /\ UNCHANGED <<bad, internal, all, at, failed>>
  BY DEF Begin, Goto, queues, Joined
<1>2. Gathered'
  BY <1>1 DEF Gathered
<1>3. Marked' /\ Joined'
  BY <1>1 DEF Marked, Joined
<1>4. ASSUME Aligned' PROVE Calm'
  <2>1. Aligned /\ Calm
    BY <1>1, <1>4 DEF Aligned, Marked
  <2> USE DEF Calm
  <2>2. Alike' /\ Emptied'
    BY <1>1, <2>1 DEF Alike, Emptied
  <2>3. InStep'
    BY <1>1, <2>1 DEF InStep, Pre, Mid, Back, Past, End
  <2>4. Flagged' /\ Purged'
    BY <1>1, <2>1 DEF Flagged, Purged
  <2>5. Underway'
    BY <1>1, <2>1, NodeFinite DEF Underway, Busy, InStep, Pre, Mid, Back, Past, End
  <2> QED BY <2>2, <2>3, <2>4, <2>5
<1> QED BY <1>2, <1>3, <1>4

\* One more node is told: none of them is back from this reset.
LEMMA BroadcastStep ==
  ASSUME IInv, NEW n \in Node, Broadcast(n)
  PROVE  Rest'
<1> USE DEF IInv, Rest, TypeOK, In, Out, InUse
<1>1. /\ pc[n] = "broadcast"
      /\ \A k \in Node : k # n => pc'[k] = pc[k]
      /\ pc'[n] \in {"broadcast", "self"}
      /\ UNCHANGED <<inChain, bad, all, at, failed>>
  BY DEF Broadcast, Goto, hive
<1>2. Gathered'
  BY <1>1 DEF Gathered
<1>3. Marked' /\ Joined'
  BY <1>1 DEF Marked, Joined
<1>4. ASSUME Aligned' PROVE Calm'
  <2>1. Aligned /\ Calm
    BY <1>1, <1>4 DEF Aligned, Marked
  <2> USE DEF Calm
  <2>2. Alike' /\ Emptied'
    BY <1>1, <2>1 DEF Alike, Emptied
  <2>3. InStep'
    BY <1>1, <2>1 DEF InStep, Pre, Mid, Back, Past, End
  <2>4. Flagged' /\ Purged'
    BY <1>1, <2>1 DEF Flagged, Purged, InStep, Pre, Back, Past, Mid, End
  <2>5. Underway'
    BY <1>1, <2>1, NodeFinite DEF Underway, Busy
  <2> QED BY <2>2, <2>3, <2>4, <2>5
<1> QED BY <1>2, <1>3, <1>4

\* The node joins the chain reset that is on.
LEMMA SelfResetStep ==
  ASSUME IInv, NEW n \in Node, SelfReset(n)
  PROVE  Rest'
<1> USE DEF IInv, Rest, TypeOK, In, Out, InUse
<1>1. /\ pc[n] = "self" /\ inChain
      /\ \A k \in Node : pc'[k] = IF k = n THEN "prepare" ELSE pc[k]
      /\ \A k \in Node : failed'[k] = IF k = n THEN "no" ELSE failed[k]
      /\ UNCHANGED <<inChain, bad, internal, all, at>>
  BY DEF SelfReset, Goto, hive, queues, Joined
<1>2. Gathered'
  BY <1>1 DEF Gathered
<1>3. Marked' /\ Joined'
  BY <1>1 DEF Marked, Joined
<1>4. ASSUME Aligned' PROVE Calm'
  <2>1. Aligned /\ Calm
    BY <1>1, <1>4 DEF Aligned, Marked
  <2> USE DEF Calm
  <2>2. Alike' /\ Emptied'
    BY <1>1, <2>1 DEF Alike, Emptied
  <2>3. InStep'
    BY <1>1, <2>1 DEF InStep, Pre, Mid, Back, Past, End
  <2>4. Flagged' /\ Purged'
    BY <1>1, <2>1 DEF Flagged, Purged
  <2>5. Underway'
    BY <1>1, <2>1, NodeFinite DEF Underway, Busy
  <2> QED BY <2>2, <2>3, <2>4, <2>5
<1> QED BY <1>2, <1>3, <1>4

\* The hardware is stopped and the node comes to the inner barrier.
LEMMA PrepareStep ==
  ASSUME IInv, NEW n \in Node, Prepare(n)
  PROVE  Rest'
<1> USE DEF IInv, Rest, TypeOK, In, Out, InUse
<1>1. /\ pc[n] = "prepare" /\ \A k \in Node : pc[k] \notin {"drain", "leave"}
      /\ \A k \in Node : pc'[k] = IF k = n THEN "enter" ELSE pc[k]
      /\ \A k \in Node : at'[k] = IF k = n THEN "mode1" ELSE at[k]
      /\ UNCHANGED <<inChain, bad, internal, all, failed>>
  BY DEF Prepare, EnterBarrier, Prompt, Goto, hive, queues
<1>2. Gathered'
  BY <1>1 DEF Gathered
<1>3. Marked' /\ Joined'
  BY <1>1 DEF Marked, Joined
<1>4. ASSUME Aligned' PROVE Calm'
  <2>1. Aligned /\ Calm
    BY <1>1, <1>4 DEF Aligned, Marked
  <2> USE DEF Calm
  <2>2. Alike' /\ Emptied'
    BY <1>1, <2>1 DEF Alike, Emptied, InStep, Pre, Mid, Back, Past, End
  <2>3. InStep'
    BY <1>1, <2>1 DEF InStep, Pre, Mid, Back, Past, End, Marked
  <2>4. Flagged' /\ Purged'
    BY <1>1, <2>1 DEF Flagged, Purged
  <2>5. Underway'
    BY <1>1, <2>1, NodeFinite DEF Underway, Busy
  <2> QED BY <2>2, <2>3, <2>4, <2>5
<1> QED BY <1>2, <1>3, <1>4

\* The node fails before the inner barrier.
LEMMA AllocFailsStep ==
  ASSUME IInv, NEW n \in Node, AllocFails(n)
  PROVE  Rest'
<1> USE DEF IInv, Rest, TypeOK, In, Out, InUse
<1>1. /\ pc[n] = "prepare"
      /\ \A k \in Node : pc'[k] = IF k = n THEN "failed" ELSE pc[k]
      /\ \A k \in Node : failed'[k] = IF k = n THEN "alloc" ELSE failed[k]
      /\ UNCHANGED <<inChain, bad, internal, all, at>>
  BY DEF AllocFails, Goto, hive, queues
<1>2. Gathered'
  BY <1>1 DEF Gathered
<1>3. Marked' /\ Joined'
  BY <1>1 DEF Marked, Joined
<1>4. ASSUME Aligned' PROVE Calm'
  <2>1. Aligned /\ Calm
    BY <1>1, <1>4 DEF Aligned, Marked
  <2> USE DEF Calm
  <2>2. Alike' /\ Emptied'
    BY <1>1, <2>1 DEF Alike, Emptied
  <2>3. InStep'
    BY <1>1, <2>1 DEF InStep, Pre, Mid, Back, Past, End
  <2>4. Flagged' /\ Purged'
    BY <1>1, <2>1 DEF Flagged, Purged
  <2>5. Underway'
    BY <1>1, <2>1, NodeFinite DEF Underway, Busy
  <2> QED BY <2>2, <2>3, <2>4, <2>5
<1> QED BY <1>2, <1>3, <1>4

\* The mode-1 reset, which may fail.
LEMMA Mode1Step ==
  ASSUME IInv, NEW n \in Node, Mode1(n)
  PROVE  Rest'
<1> USE DEF IInv, Rest, TypeOK, In, Out, InUse
<1>1. /\ pc[n] = "inside" /\ at[n] = "mode1"
      /\ \A k \in Node : pc'[k] = IF k = n THEN "yield" ELSE pc[k]
      /\ \A k \in Node : k # n => failed'[k] = failed[k]
      /\ failed'[n] \in {"no", "mode1"}
      /\ UNCHANGED <<inChain, bad, internal, all, at>>
  BY DEF Mode1, Goto, hive, queues
<1>2. Gathered'
  BY <1>1 DEF Gathered
<1>3. Marked' /\ Joined'
  BY <1>1 DEF Marked, Joined
<1>4. ASSUME Aligned' PROVE Calm'
  <2>1. Aligned /\ Calm
    BY <1>1, <1>4 DEF Aligned, Marked
  <2> USE DEF Calm
  <2>2. Alike' /\ Emptied'
    BY <1>1, <2>1 DEF Alike, Emptied
  <2>3. InStep'
    BY <1>1, <2>1 DEF InStep, Pre, Mid, Back, Past, End, Gathered
  <2>4. Flagged' /\ Purged'
    BY <1>1, <2>1 DEF Flagged, Purged
  <2>5. Underway'
    BY <1>1, <2>1, NodeFinite DEF Underway, Busy
  <2> QED BY <2>2, <2>3, <2>4, <2>5
<1> QED BY <1>2, <1>3, <1>4

\* The node is back and comes to the outer barrier without stale events.
LEMMA ReinitStep ==
  ASSUME IInv, NEW n \in Node, Reinit(n)
  PROVE  Rest'
<1> USE DEF IInv, Rest, TypeOK, In, Out, InUse
<1>1. /\ pc[n] = "reinit" /\ \A k \in Node : pc[k] \notin {"drain", "leave"}
      /\ \A k \in Node : pc'[k] = IF k = n THEN "enter" ELSE pc[k]
      /\ \A k \in Node : at'[k] = IF k = n THEN "finish" ELSE at[k]
      /\ \A k \in Node : internal'[k] = (k # n /\ internal[k])
      /\ UNCHANGED <<inChain, bad, all, failed>>
  BY DEF Reinit, EnterBarrier, Prompt, Goto, hive
<1>2. Gathered'
  BY <1>1 DEF Gathered
<1>3. Marked' /\ Joined'
  BY <1>1 DEF Marked, Joined
<1>4. ASSUME Aligned' PROVE Calm'
  <2>1. Aligned /\ Calm
    BY <1>1, <1>4 DEF Aligned, Marked
  <2> USE DEF Calm
  <2>2. Alike' /\ Emptied'
    BY <1>1, <2>1 DEF Alike, Emptied, InStep, Pre, Mid, Back, Past, End
  <2>3. InStep'
    BY <1>1, <2>1 DEF InStep, Pre, Mid, Back, Past, End, Marked
  <2>4. Flagged' /\ Purged'
    BY <1>1, <2>1 DEF Flagged, Purged
  <2>5. Underway'
    BY <1>1, <2>1, NodeFinite DEF Underway, Busy
  <2> QED BY <2>2, <2>3, <2>4, <2>5
<1> QED BY <1>2, <1>3, <1>4

\* The node does not come back.
LEMMA ReinitFailsStep ==
  ASSUME IInv, NEW n \in Node, ReinitFails(n)
  PROVE  Rest'
<1> USE DEF IInv, Rest, TypeOK, In, Out, InUse
<1>1. /\ pc[n] = "reinit" /\ \A k \in Node : pc[k] \notin {"drain", "leave"}
      /\ \A k \in Node : pc'[k] = IF k = n THEN "failed" ELSE pc[k]
      /\ \A k \in Node : failed'[k] = IF k = n THEN "reinit" ELSE failed[k]
      /\ UNCHANGED <<inChain, bad, internal, all, at>>
  BY DEF ReinitFails, Prompt, Goto, hive, queues
<1>2. Gathered'
  BY <1>1 DEF Gathered
<1>3. Marked' /\ Joined'
  BY <1>1 DEF Marked, Joined
<1>4. ASSUME Aligned' PROVE Calm'
  <2>1. Aligned /\ Calm
    BY <1>1, <1>4 DEF Aligned, Marked
  <2> USE DEF Calm
  <2>2. Alike' /\ Emptied'
    BY <1>1, <2>1 DEF Alike, Emptied
  <2>3. InStep'
    BY <1>1, <2>1 DEF InStep, Pre, Mid, Back, Past, End
  <2>4. Flagged' /\ Purged'
    BY <1>1, <2>1 DEF Flagged, Purged
  <2>5. Underway'
    BY <1>1, <2>1, NodeFinite DEF Underway, Busy
  <2> QED BY <2>2, <2>3, <2>4, <2>5
<1> QED BY <1>2, <1>3, <1>4

\* A failed node makes the hive bad and comes to the outer barrier.
LEMMA FailedStep ==
  ASSUME IInv, NEW n \in Node, Failed(n)
  PROVE  Rest'
<1> USE DEF IInv, Rest, TypeOK, In, Out, InUse
<1>1. /\ pc[n] = "failed" /\ bad'
      /\ \A k \in Node : pc'[k] = IF k = n THEN "enter" ELSE pc[k]
      /\ \A k \in Node : at'[k] = IF k = n THEN "finish" ELSE at[k]
      /\ UNCHANGED <<inChain, internal, all, failed>>
  BY DEF Failed, EnterBarrier, Goto, queues
<1>2. Gathered'
  BY <1>1 DEF Gathered
<1>3. Marked' /\ Joined'
  BY <1>1 DEF Marked, Joined, Aligned, Calm, Flagged
<1>4. ASSUME Aligned' PROVE Calm'
  <2>1. Aligned /\ Calm
    BY <1>1, <1>4 DEF Aligned, Marked
  <2>a. failed[n] = "reinit"
    BY <1>1, <1>4 DEF Aligned, Marked, FaultKind
  <2> USE DEF Calm
  <2>2. Alike' /\ Emptied'
    BY <1>1, <2>1, <2>a DEF Alike, Emptied, InStep, Pre, Mid, Back, Past, End
  <2>3. InStep'
    BY <1>1, <2>1, <2>a DEF InStep, Pre, Mid, Back, Past, End, Marked
  <2>4. Flagged' /\ Purged'
    BY <1>1, <2>1 DEF Flagged, Purged
  <2>5. Underway'
    BY <1>1, <2>1, NodeFinite DEF Underway, Busy
  <2> QED BY <2>2, <2>3, <2>4, <2>5
<1> QED BY <1>2, <1>3, <1>4

\* Between enter and exit of the outer barrier.
LEMMA FinishStep ==
  ASSUME IInv, NEW n \in Node, Finish(n)
  PROVE  Rest'
<1> USE DEF IInv, Rest, TypeOK, In, Out, InUse
<1>1. /\ pc[n] = "inside" /\ at[n] = "finish" /\ \A k \in Node : In(k)
      /\ inChain' = (inChain /\ n # Master)
      /\ \A k \in Node : pc'[k] = IF k = n THEN "yield" ELSE pc[k]
      /\ UNCHANGED <<bad, internal, all, at, failed>>
  BY DEF Finish, Goto, queues, Gathered
<1>2. Gathered'
  BY <1>1 DEF Gathered
<1>3. Marked' /\ Joined'
  BY <1>1 DEF Marked, Joined, Aligned, Calm, Purged, Alike
<1>4. ASSUME Aligned' PROVE Calm'
  <2>1. Aligned /\ Calm
    BY <1>1, <1>4 DEF Aligned, Marked
  <2> USE DEF Calm
  <2>2. Alike' /\ Emptied'
    BY <1>1, <2>1 DEF Alike, Emptied
  <2>3. InStep'
    BY <1>1, <2>1 DEF InStep, Pre, Mid, Back, Past, End
  <2>4. Flagged' /\ Purged'
    BY <1>1, <2>1 DEF Flagged, Purged, Alike
  <2>5. Underway'
    BY <1>1, <2>1, NodeFinite DEF Underway, Busy, Alike
  <2> QED BY <2>2, <2>3, <2>4, <2>5
<1> QED BY <1>2, <1>3, <1>4

-----------------------------------------------------------------------------
(* The theorems.                                                           *)

\* Every step keeps the inductive invariant.
LEMMA IInvStep == IInv /\ [Next]_vars => IInv'
<1> SUFFICES ASSUME IInv, [Next]_vars PROVE Rest'
  BY TypeStep, CountStep DEF IInv
<1>1. CASE UNCHANGED <<inChain, bad, internal, all, pc, at, failed>>
  BY <1>1 DEF IInv, Rest, Calm, Gathered, Marked, Joined, Aligned, Alike, Emptied,
              InStep, Flagged, Underway, Purged, In, Out, InUse, Pre, Mid, Back,
              Past, End, Busy
<1>2. ASSUME NEW n \in Node, Request(n) PROVE Rest'
  BY <1>1, <1>2 DEF Request, hive, local
<1>3. CASE UNCHANGED vars
  BY <1>1, <1>3 DEF vars, hive, queues, local
<1>4. ASSUME NEW n \in Node, Step(n) PROVE Rest'
  BY <1>4, HandleStep, BeginStep, BroadcastStep, SelfResetStep, EnteredStep,
     YieldedStep, DrainedStep, LeaveStep, PrepareStep, AllocFailsStep, Mode1Step,
     ReinitStep, ReinitFailsStep, FailedStep, FinishStep DEF Step
<1> QED BY <1>2, <1>3, <1>4 DEF Next

\* An idle hive satisfies it.
LEMMA IInvInit == Init => IInv
<1> SUFFICES ASSUME Init PROVE IInv
  OBVIOUS
<1>1. \A n \in Node : pc[n] = "idle" /\ failed[n] = "no" /\ ~internal[n]
  BY DEF Init
<1>2. TypeOK
  <2>1. tc \in 0 .. N /\ yc \in 0 .. N /\ reqs \in 0 .. MaxReq
    BY NodeFinite, MaxReqAssumption DEF Init
  <2>2. /\ told \in [Node -> SUBSET Node] /\ pc \in [Node -> Place]
        /\ failed \in [Node -> FaultKind \union {"no"}]
    BY DEF Init, Place
  <2>3. /\ inChain \in BOOLEAN /\ bad \in BOOLEAN
        /\ own \in [Node -> BOOLEAN] /\ internal \in [Node -> BOOLEAN]
        /\ all \in [Node -> BOOLEAN] /\ at \in [Node -> {"mode1", "finish"}]
    BY DEF Init
  <2> QED BY <2>1, <2>2, <2>3 DEF TypeOK
<1>3. Counted
  <2>1. {n \in Node : In(n)} = {} /\ {n \in Node : Out(n)} = {}
    BY <1>1 DEF In, Out
  <2> QED BY <2>1, FS_EmptySet DEF Counted, Init
<1>4. ~inChain /\ ~bad
  BY DEF Init
<1>5. Rest
  BY <1>1, <1>4, NodeFinite
     DEF Rest, Calm, Gathered, Marked, Joined, Alike, Emptied, InStep, Flagged,
         Underway, Purged, In, Out, InUse, Pre, Mid, Back, Past, End
<1> QED BY <1>2, <1>3, <1>5 DEF IInv

LEMMA IInvAlways == Spec => []IInv
BY IInvInit, IInvStep, PTL DEF Spec

\* Every field of the hive keeps its type, for any number of nodes: in
\* particular thread_count and thread_yield_count never exceed the number of
\* adapters nor drop below zero, whatever fails.
THEOREM TypeCorrect == Spec => []TypeOK
<1>1. IInv => TypeOK
  BY DEF IInv
<1> QED BY <1>1, IInvAlways, PTL

\* Unless a node failed before or in its mode-1 reset, all nodes of a hive of
\* any size are between enter and exit of the inner barrier while one of them
\* is reset.
THEOREM ResetsTogether == Spec => []ResetTogether
<1>1. IInv => ResetTogether
  <2> SUFFICES ASSUME IInv, Unharmed, NEW n \in Node, pc[n] = "inside",
                      at[n] = "mode1", NEW m \in Node
               PROVE  at[m] = "mode1" /\ pc[m] \in {"enter", "inside", "yield"}
    BY DEF ResetTogether
  <2>1. In(m) /\ In(n)
    BY DEF IInv, Rest, Gathered
  <2>2. Alike
    BY DEF IInv, Rest, Calm, Aligned, Unharmed
  <2> QED BY <2>1, <2>2 DEF Alike, In, InUse
<1> QED BY <1>1, IInvAlways, PTL

\* Case 4 of amdgv_sched_gpu_chain_reset never happens: a node that has come
\* to reset itself finds the chain reset it was asked to join.
THEOREM NeverOrphaned == Spec => []NoOrphan
<1>1. IInv => NoOrphan
  BY DEF IInv, Rest, Joined, NoOrphan
<1> QED BY <1>1, IInvAlways, PTL

\* A chain reset that ends without a failure before or in the mode-1 reset
\* leaves both counters at zero, the flag down, and no internal event unless
\* the hive is bad.
THEOREM EndsClean == Spec => []BarrierClean
<1>1. IInv => BarrierClean
  <2> SUFFICES ASSUME IInv, Unharmed, \A n \in Node : pc[n] = "idle"
               PROVE  /\ tc = 0 /\ yc = 0 /\ ~inChain
                      /\ bad \/ \A n \in Node : ~internal[n]
    BY DEF BarrierClean
  <2>1. tc = 0 /\ yc = 0
    <3>1. {n \in Node : In(n)} = {} /\ {n \in Node : Out(n)} = {}
      BY DEF In, Out
    <3> QED BY <3>1, FS_EmptySet DEF IInv, Counted
  <2>2. ~inChain
    <3>1. Underway
      BY DEF IInv, Rest, Calm, Aligned, Unharmed
    <3> QED BY <3>1 DEF Underway, Busy, InUse, In, Out
  <2>3. bad \/ \A n \in Node : ~internal[n]
    BY <2>2 DEF IInv, Rest, Joined
  <2> QED BY <2>1, <2>2, <2>3
<1> QED BY <1>1, IInvAlways, PTL

\* Once a reset has failed no new chain reset begins, although a node looks
\* at bad_hive long before it raises in_chain_reset.
THEOREM BadHiveStaysDown == Spec => NoChainAfterFailure
<1>1. IInv /\ [Next]_vars => [bad /\ inChain' => inChain]_vars
  <2> SUFFICES ASSUME IInv, Next, bad, inChain' PROVE inChain
    BY DEF vars
  <2>1. PICK n \in Node : Request(n) \/ Step(n)
    BY DEF Next
  <2>2. CASE Begin(n)
    BY <2>2 DEF Begin, IInv, Rest, Joined
  <2>3. CASE Finish(n)
    BY <2>3 DEF Finish
  <2>4. CASE ~Begin(n) /\ ~Finish(n)
    BY <2>1, <2>4 DEF Request, Step, Handle, Broadcast, SelfReset, Entered, Yielded,
       Drained, LeaveBarrier, Prepare, AllocFails, Mode1, Reinit, ReinitFails,
       Failed, hive
  <2> QED BY <2>2, <2>3, <2>4
<1> QED BY <1>1, IInvAlways, PTL DEF Spec, NoChainAfterFailure

=============================================================================
