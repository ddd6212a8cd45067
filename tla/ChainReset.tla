----------------------------- MODULE ChainReset -----------------------------
(***************************************************************************)
(* The whole-GPU reset of an XGMI hive (libgv/core/amdgv_sched_reset.c):   *)
(* a GPU that must be reset takes every other GPU of its hive with it.     *)
(* Each GPU is a node with its own event thread.  The first one to ask     *)
(* sets hive->in_chain_reset and queues an internal reset event to the     *)
(* others; every node then resets itself, meeting the others twice at the  *)
(* same barrier, tb_chain_reset: around the mode-1 reset                   *)
(* (mi300_gpu_reset_and_reinit) and after its re-initialisation.           *)
(*                                                                         *)
(* The barrier (amdgv_task_barrier.h) is modelled atomic operation by      *)
(* atomic operation: its waits are polling loops with a sleep, so a        *)
(* condition that held for a moment may be missed.                         *)
(***************************************************************************)
EXTENDS Integers, FiniteSets

CONSTANTS
  N,         \* hive->number_adapters
  MaxReq,    \* bound: reset requests made in a behaviour
  Faults     \* the failures considered, a subset of FaultKind

\* reset_state cannot be allocated; the mode-1 reset fails; the GPU does not
\* come back after it.
FaultKind == {"alloc", "mode1", "reinit"}

ASSUME NAssumption == N \in Nat \ {0, 1}
ASSUME MaxReqAssumption == MaxReq \in Nat
ASSUME FaultsAssumption == Faults \subseteq FaultKind

Node == 0 .. N - 1
Master == 0            \* hive->master_adapt

VARIABLES
  inChain,   \* hive->in_chain_reset
  bad,       \* hive->bad_hive
  tc,        \* tb_chain_reset.thread_count
  yc,        \* tb_chain_reset.thread_yield_count
  own,       \* own[n]: a FORCE_RESET_GPU event is queued at n
  internal,  \* internal[n]: a FORCE_RESET_GPU_INTERNAL event is queued at n
  all,       \* the reset_all argument of n's reset
  pc,        \* where the event thread of n is
  at,        \* the barrier use n is in: "mode1" or "finish"
  told,      \* the nodes n has still to broadcast to
  failed,    \* failed[n]: how n's amdgv_sched_whole_gpu_reset failed, or "no"
  reqs       \* number of requests so far

hive == <<inChain, bad>>
barrier == <<tc, yc>>
queues == <<own, internal, reqs>>
local == <<pc, all, at, told, failed>>
vars == <<hive, barrier, queues, local>>

Goto(n, p) == pc' = [pc EXCEPT ![n] = p]

Init ==
  /\ inChain = FALSE /\ bad = FALSE
  /\ tc = 0 /\ yc = 0
  /\ own = [n \in Node |-> FALSE]
  /\ internal = [n \in Node |-> FALSE]
  /\ pc = [n \in Node |-> "idle"]
  /\ all = [n \in Node |-> FALSE]
  /\ at = [n \in Node |-> "mode1"]
  /\ told = [n \in Node |-> {}]
  /\ failed = [n \in Node |-> "no"]
  /\ reqs = 0

-----------------------------------------------------------------------------
(* Asking for a reset.                                                     *)

\* A fatal RAS error, a user or a failed FLR asks for a reset of n.
Request(n) ==
  /\ reqs < MaxReq
  /\ ~own[n]
  /\ reqs' = reqs + 1
  /\ own' = [own EXCEPT ![n] = TRUE]
  /\ UNCHANGED <<hive, barrier, internal, local>>

\* Mutant of Handle: a bad hive is reset again.
HandleBadHive(n) ==
  /\ pc[n] = "idle"
  /\ own[n] \/ internal[n]
  /\ all' = [all EXCEPT ![n] = own[n]]
  /\ own' = [own EXCEPT ![n] = FALSE]
  /\ internal' = [internal EXCEPT ![n] = @ /\ own[n]]
  /\ Goto(n, "begin")
  /\ UNCHANGED <<hive, barrier, reqs, at, told, failed>>

\* The event thread takes a reset event.  amdgv_sched_gpu_reset_wrap drops it
\* when the hive is bad, and otherwise first stops the world switches.
Handle(n) ==
  /\ pc[n] = "idle"
  /\ \/ /\ own[n]
        /\ own' = [own EXCEPT ![n] = FALSE]
        /\ all' = [all EXCEPT ![n] = TRUE]
        /\ UNCHANGED internal
     \/ /\ internal[n]
        /\ internal' = [internal EXCEPT ![n] = FALSE]
        /\ all' = [all EXCEPT ![n] = FALSE]
        /\ UNCHANGED own
  /\ Goto(n, IF bad THEN "idle" ELSE "begin")
  /\ UNCHANGED <<hive, barrier, reqs, at, told, failed>>

\* amdgv_sched_gpu_chain_reset: under chain_reset_lock the first request with
\* reset_all raises the flag; it is the one that is broadcast.
Begin(n) ==
  LET first == all[n] /\ ~inChain
  IN  /\ pc[n] = "begin"
      /\ inChain' = (inChain \/ first)
      /\ told' = [told EXCEPT ![n] = IF first THEN Node \ {n} ELSE {}]
      /\ Goto(n, IF first THEN "broadcast" ELSE "self")
      /\ UNCHANGED <<bad, barrier, queues, all, at, failed>>

\* Queue the internal event at one more node.
Broadcast(n) ==
  /\ pc[n] = "broadcast"
  /\ IF told[n] = {}
     THEN Goto(n, "self") /\ UNCHANGED <<internal, told>>
     ELSE \E m \in told[n] :
            /\ internal' = [internal EXCEPT ![m] = TRUE]
            /\ told' = [told EXCEPT ![n] = @ \ {m}]
            /\ UNCHANGED pc
  /\ UNCHANGED <<hive, barrier, own, reqs, all, at, failed>>

\* self_reset: a request that meets no chain reset is dropped (case 4).
SelfReset(n) ==
  /\ pc[n] = "self"
  /\ Goto(n, IF inChain THEN "prepare" ELSE "idle")
  /\ failed' = [failed EXCEPT ![n] = "no"]
  /\ UNCHANGED <<hive, barrier, queues, all, at, told>>

-----------------------------------------------------------------------------
(* The barrier.                                                            *)

\* task_barrier_enter, up to its loop.
EnterBarrier(n, use) ==
  /\ tc' = tc + 1
  /\ at' = [at EXCEPT ![n] = use]
  /\ Goto(n, "enter")

\* Mutant of Entered: the loop counts one node too few.
EnteredEarly(n) ==
  /\ pc[n] = "enter"
  /\ tc >= N - 1
  /\ Goto(n, "inside")
  /\ UNCHANGED <<hive, barrier, queues, all, at, told, failed>>

\* A poll of the loop of task_barrier_enter finds everybody in.
Entered(n) ==
  /\ pc[n] = "enter"
  /\ tc >= N
  /\ Goto(n, "inside")
  /\ UNCHANGED <<hive, barrier, queues, all, at, told, failed>>

\* task_barrier_exit, first loop and what follows it.
Yielded(n) ==
  /\ pc[n] = "yield"
  /\ yc >= N
  /\ tc' = tc - 1
  /\ Goto(n, "drain")
  /\ UNCHANGED <<hive, yc, queues, all, at, told, failed>>

\* A poll of its second loop finds everybody gone.
Drained(n) ==
  /\ pc[n] = "drain"
  /\ tc = 0
  /\ Goto(n, "leave")
  /\ UNCHANGED <<hive, barrier, queues, all, at, told, failed>>

\* Mutant of LeaveBarrier: thread_yield_count is not lowered again.
LeaveBarrierYielded(n) ==
  /\ pc[n] = "leave"
  /\ Goto(n, IF at[n] = "finish" THEN "idle"
             ELSE IF failed[n] # "no" THEN "failed" ELSE "reinit")
  /\ UNCHANGED <<hive, barrier, queues, all, at, told, failed>>

\* Its last operation; then on to re-initialisation, or done.
LeaveBarrier(n) ==
  /\ pc[n] = "leave"
  /\ yc' = yc - 1
  /\ Goto(n, IF at[n] = "finish" THEN "idle"
             ELSE IF failed[n] # "no" THEN "failed" ELSE "reinit")
  /\ UNCHANGED <<hive, tc, queues, all, at, told, failed>>

\* The loops sleep 50 microseconds; saving and stopping the hardware, and
\* starting it again, take far longer, so no node is still leaving the
\* previous use of the barrier when another one has done that.
Prompt == \A m \in Node : pc[m] \notin {"drain", "leave"}

-----------------------------------------------------------------------------
(* The reset of one node.                                                  *)

\* amdgv_sched_whole_gpu_reset up to the inner barrier: tell the guests, stop
\* the hardware.
Prepare(n) ==
  /\ pc[n] = "prepare"
  /\ Prompt
  /\ EnterBarrier(n, "mode1")
  /\ UNCHANGED <<hive, yc, queues, all, told, failed>>

\* The memory for the state to save cannot be had.
AllocFails(n) ==
  /\ pc[n] = "prepare"
  /\ "alloc" \in Faults
  /\ failed' = [failed EXCEPT ![n] = "alloc"]
  /\ Goto(n, "failed")
  /\ UNCHANGED <<hive, barrier, queues, all, at, told>>

\* gpu_mode1_reset, between enter and exit of the inner barrier.
Mode1(n) ==
  /\ pc[n] = "inside" /\ at[n] = "mode1"
  /\ \E f \in {"no"} \union ({"mode1"} \intersect Faults) :
       failed' = [failed EXCEPT ![n] = f]
  /\ yc' = yc + 1
  /\ Goto(n, "yield")
  /\ UNCHANGED <<hive, tc, queues, all, at, told>>

\* Mutant of Reinit: the stale reset events stay queued.
ReinitKeepsEvents(n) ==
  /\ pc[n] = "reinit"
  /\ Prompt
  /\ EnterBarrier(n, "finish")
  /\ UNCHANGED <<hive, yc, queues, all, told, failed>>

\* The GPU is up again, its VFs are told, and the reset events that reached
\* it meanwhile are stale (amdgv_sched_remove_stale_events_after_wgr).
Reinit(n) ==
  /\ pc[n] = "reinit"
  /\ Prompt
  /\ own' = [own EXCEPT ![n] = FALSE]
  /\ internal' = [internal EXCEPT ![n] = FALSE]
  /\ EnterBarrier(n, "finish")
  /\ UNCHANGED <<hive, yc, reqs, all, told, failed>>

\* It does not come up.
ReinitFails(n) ==
  /\ pc[n] = "reinit"
  /\ Prompt
  /\ "reinit" \in Faults
  /\ failed' = [failed EXCEPT ![n] = "reinit"]
  /\ Goto(n, "failed")
  /\ UNCHANGED <<hive, barrier, queues, all, at, told>>

\* Mutant of Failed: the failing node does not come to the outer barrier.
FailedReturns(n) ==
  /\ pc[n] = "failed"
  /\ bad' = TRUE
  /\ Goto(n, "idle")
  /\ UNCHANGED <<inChain, barrier, queues, all, at, told, failed>>

\* "if any reset failed, mark hive bad to drop any further reset".
Failed(n) ==
  /\ pc[n] = "failed"
  /\ bad' = TRUE
  /\ EnterBarrier(n, "finish")
  /\ UNCHANGED <<inChain, yc, queues, all, told, failed>>

\* Mutant of Finish: the flag is cleared by nobody.
FinishNobody(n) ==
  /\ pc[n] = "inside" /\ at[n] = "finish"
  /\ yc' = yc + 1
  /\ Goto(n, "yield")
  /\ UNCHANGED <<hive, tc, queues, all, at, told, failed>>

\* Between enter and exit of the outer barrier: the master clears the flag.
Finish(n) ==
  /\ pc[n] = "inside" /\ at[n] = "finish"
  /\ inChain' = (inChain /\ n # Master)
  /\ yc' = yc + 1
  /\ Goto(n, "yield")
  /\ UNCHANGED <<bad, tc, queues, all, at, told, failed>>

Step(n) ==
  \/ Handle(n) \/ Begin(n) \/ Broadcast(n) \/ SelfReset(n)
  \/ Entered(n) \/ Yielded(n) \/ Drained(n) \/ LeaveBarrier(n)
  \/ Prepare(n) \/ AllocFails(n) \/ Mode1(n)
  \/ Reinit(n) \/ ReinitFails(n) \/ Failed(n) \/ Finish(n)

Next == \E n \in Node : Request(n) \/ Step(n)

Spec == Init /\ [][Next]_vars

\* Every event thread keeps running.  A poll that may be missed, because the
\* condition is only briefly true, is not granted strong fairness.
Fairness == \A n \in Node : WF_vars(Step(n))

FairSpec == Spec /\ Fairness

-----------------------------------------------------------------------------
(* Properties.                                                             *)

Place == {"idle", "begin", "broadcast", "self", "prepare", "enter", "inside", "yield",
          "drain", "leave", "reinit", "failed"}

\* The types of the hive's fields.
TypeOK ==
  /\ inChain \in BOOLEAN /\ bad \in BOOLEAN
  /\ tc \in 0 .. N /\ yc \in 0 .. N
  /\ own \in [Node -> BOOLEAN] /\ internal \in [Node -> BOOLEAN]
  /\ pc \in [Node -> Place]
  /\ all \in [Node -> BOOLEAN]
  /\ at \in [Node -> {"mode1", "finish"}]
  /\ told \in [Node -> SUBSET Node]
  /\ failed \in [Node -> FaultKind \union {"no"}]
  /\ reqs \in 0 .. MaxReq

\* No node has failed where its next barrier is not the one the others are
\* at.  A node that fails before its mode-1 reset never comes to that
\* barrier; one that fails in it is not waited for.
Unharmed == \A n \in Node : failed[n] \notin {"alloc", "mode1"}

\* While one node is in its mode-1 reset, every other node has stopped its
\* hardware and none has started to bring it back: all are between enter and
\* exit of that use of the barrier (mi300_reset.c, around gpu_mode1_reset).
ResetTogether ==
  Unharmed => \A n \in Node : pc[n] = "inside" /\ at[n] = "mode1" =>
    \A m \in Node : at[m] = "mode1" /\ pc[m] \in {"enter", "inside", "yield"}

\* "Case 4 [...] Ideally the case should not happen": no node finds that the
\* chain reset it was asked to join does not exist, whatever fails.
NoOrphan == \A n \in Node : pc[n] = "self" => inChain

\* A chain reset that has ended leaves the barrier as it found it and, unless
\* the hive is bad, no internal event of which a node would make an orphan.
BarrierClean ==
  Unharmed /\ (\A n \in Node : pc[n] = "idle") =>
     tc = 0 /\ yc = 0 /\ ~inChain /\ (bad \/ \A n \in Node : ~internal[n])

\* The flag raised by the first request is cleared again ("clear the global
\* reset flag by master"): the hive can be reset again.
FlagCleared == inChain ~> ~inChain

\* The same when a GPU may fail to come back, but none fails before.
FlagClearedUnharmed == inChain ~> ~inChain \/ ~Unharmed

\* "mark hive bad to drop any further reset": once a reset has failed, no new
\* chain reset begins, although the hive is looked at long before the flag.
NoChainAfterFailure == [][bad /\ inChain' => inChain]_vars

\* Every reset request is taken, or dropped as stale or for a bad hive.
RequestsServed == \A n \in Node : own[n] ~> ~own[n] \/ ~Unharmed

=============================================================================
