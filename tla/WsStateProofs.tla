--------------------------- MODULE WsStateProofs ---------------------------
(***************************************************************************)
(* Proofs about module WsState, for any number of VFs and engines and both *)
(* FLR sequences: the records of the engines agree, success is real, the   *)
(* commands world_switch_get_next_state chooses are legal, and loop_okay   *)
(* is enough.                                                              *)
(***************************************************************************)
EXTENDS WsState, FiniteSetTheorems, TLAPS

-----------------------------------------------------------------------------
(* The inductive invariant.                                                *)

\* A command waited for is the one world_switch_get_next_state still yields:
\* nothing else moves that engine meanwhile.
Pending ==
  /\ call.waiting \subseteq call.todo
  /\ call.pc = "wait" =>
       \A h \in call.waiting : call.next[h] = NextState(h, call.fn, call.st)

\* An engine that left the loop for good, and is not bad, has arrived.
Arrivals ==
  call.pc \in {"loop", "wait"} =>
    \A h \in call.mask : \/ h \in call.todo \cup call.bad
                         \/ gpu[h] = call.st /\ cur[h] = call.fn

\* The engine and the function it holds are recorded alike, or both parked.
Matched(h) == \/ vf[cur[h]][h] = gpu[h]
              \/ vf[cur[h]][h] \in Parked /\ gpu[h] \in Parked

\* The engines an FLR has still to visit are as FlrStart found them; those it
\* has dealt with are shut down, until the legacy sequence's final save.
FlrProgress ==
  /\ call.pc \in {"flr", "reset"} => call.job = "flr"
  /\ call.job = "flr" /\ call.pc # "idle" =>
       /\ call.todo \cap call.rest = {}
       /\ call.todo \subseteq call.mask
       /\ \A h \in call.rest \ torn : Matched(h)
       /\ call.pc # "reset" =>
            \/ call.st = "SAVE" /\ call.mask = HwSched /\ call.rest = {}
                 /\ call.pc # "flr"
            \/ /\ call.st = "SHUTDOWN"
               /\ call.pc = "flr" => call.mask = {}
               /\ \A h \in HwSched \ (call.rest \cup call.mask) :
                    gpu[h] = "SHUTDOWN" /\ cur[h] = call.fn

\* The engine's function may be recorded live although the engine is parked:
\* between an FLR's change of cur_gpu_state and the next recorded command.
Loose(h) ==
  /\ InFlr(cur[h])
  /\ \/ gpu[h] = "SAVE" /\ call.st # "SAVE"
     \/ gpu[h] = "SHUTDOWN" /\ LegacyFlr

Tracked ==
  \A h \in HwSched \ torn :
    /\ \A g \in Func \ {cur[h]} : vf[g][h] \in Parked
    /\ Matched(h) \/ Loose(h)

IInv == TypeOK /\ Pending /\ Arrivals /\ FlrProgress /\ Tracked

-----------------------------------------------------------------------------
(* Types.                                                                  *)

\* The number of engines and of any part of them is a natural number.
LEMMA EnginesFinite ==
  \A S \in SUBSET HwSched : IsFiniteSet(S) /\ Cardinality(S) \in Nat
BY HwSchedAssumption, FS_Subset, FS_CardinalityType

\* The value a call has between calls is a well-formed one.
LEMMA NoCallType == NoCall \in Call
BY NumVfAssumption DEF NoCall, Call, Step, GpuState, Func, PF

\* world_switch_get_next_state and the calls it serves yield well-formed
\* commands.
LEMMA NextStateType ==
  ASSUME TypeOK, NEW h \in HwSched, NEW f \in Func, NEW s \in GpuState
  PROVE  NextState(h, f, s) \in Step
BY DEF NextState, FromParked, Step, TypeOK, GpuState

\* Entering a goto_state gives a well-formed call.
LEMMA GotoCallType ==
  ASSUME NEW kind \in {"bulk", "single"},
         NEW job \in {"run", "skip_run", "pause", "shutdown", "flr"},
         NEW mask \in SUBSET HwSched, NEW f \in Func, NEW s \in GpuState,
         NEW rest \in SUBSET HwSched
  PROVE  GotoCall(kind, job, mask, f, s, rest) \in Call
<1>1. NoCall.next \in [HwSched -> Step]
  BY NoCallType DEF Call
<1>2. Cardinality(HwSched) \in Nat
  BY EnginesFinite
<1>3. (LOOP_OKAY * IF kind = "bulk" THEN Cardinality(HwSched) ELSE 1) \in Int
  BY <1>2 DEF LOOP_OKAY
<1> QED BY <1>1, <1>3 DEF GotoCall, Call

\* Every step of the state machine keeps every variable within its type.
LEMMA TypeStep == TypeOK /\ [Next]_vars => TypeOK'
<1> SUFFICES ASSUME TypeOK, [Next]_vars PROVE TypeOK'
  OBVIOUS
<1> USE DEF TypeOK
<1>0. PF \in Func /\ "RUN" \in GpuState /\ "LOAD" \in GpuState
        /\ "SAVE" \in GpuState /\ "SHUTDOWN" \in GpuState /\ "IDLE" \in GpuState
  BY DEF Func, GpuState
<1>1. ASSUME NEW f \in Func, NEW skip \in BOOLEAN, BulkRun(f, skip) PROVE TypeOK'
  BY <1>0, <1>1, GotoCallType DEF BulkRun
<1>2. ASSUME NEW f \in Func, BulkPause(f) PROVE TypeOK'
  BY <1>0, <1>2, GotoCallType DEF BulkPause
<1>2a. ASSUME NEW f \in Func, BulkIdle(f) PROVE TypeOK'
  BY <1>0, <1>2a, GotoCallType DEF BulkIdle
<1>3. ASSUME NEW f \in Func, BulkShutdown(f) PROVE TypeOK'
  BY <1>0, <1>3, GotoCallType DEF BulkShutdown
<1>4. ASSUME NEW f \in Func, NEW h \in HwSched, SingleRun(h, f) PROVE TypeOK'
  <2> DEFINE c == GotoCall("single", "run", {h}, f, "RUN", {})
  <2>1. c \in Call
    BY <1>0, GotoCallType
  <2> HIDE DEF c
  <2>2. [st |-> "IDLE", fn |-> cur[h]] \in Step
    BY <1>0 DEF Step
  <2>3. [c EXCEPT !.pc = "wait", !.waiting = {h},
                  !.next[h] = [st |-> "IDLE", fn |-> cur[h]]] \in Call
    BY <2>1, <2>2 DEF Call
  <2>4. call' \in Call
    BY <1>4, <2>1, <2>3 DEF SingleRun, c
  <2> QED BY <1>4, <2>4 DEF SingleRun
<1>5. ASSUME NEW f \in Func, NEW h \in HwSched, SinglePause(h, f) PROVE TypeOK'
  BY <1>0, <1>5, GotoCallType DEF SinglePause
<1>6. CASE Issue
  <2>1. Going \in SUBSET HwSched /\ Cardinality(Going) \in Nat
    BY EnginesFinite DEF Going, Call
  <2>2. \A h \in HwSched : NextState(h, call.fn, call.st) \in Step
    BY NextStateType DEF Call
  <2>3. \A h \in HwSched : NoCall.next[h] \in Step
    BY NoCallType DEF Call
  <2> DEFINE nx == [h \in HwSched |->
                      IF h \in Going THEN NextState(h, call.fn, call.st)
                                     ELSE NoCall.next[h]]
             left == call.loops - Cardinality(Going)
             go == Going
  <2>4. nx \in [HwSched -> Step]
    BY <2>2, <2>3
  <2>5. left \in Int /\ go \in SUBSET HwSched
    BY <2>1 DEF Call
  <2>6. call' = [call EXCEPT !.pc = "wait", !.todo = go, !.waiting = go,
                             !.next = nx, !.loops = left]
    BY <1>6 DEF Issue
  <2> HIDE DEF nx, left, go
  <2>7. call' \in Call
    BY <2>4, <2>5, <2>6 DEF Call
  <2> QED BY <1>6, <2>7 DEF Issue
<1>7. ASSUME NEW h \in HwSched, Done(h) PROVE TypeOK'
  <2>1. call.next[h] \in Step /\ NoCall.next[h] \in Step
    BY NoCallType DEF Call
  <2>2. call' \in Call
    BY <1>7, <2>1 DEF Done, Call
  <2>3. gpu' \in [HwSched -> GpuState] /\ cur' \in [HwSched -> Func]
    BY <1>7, <2>1 DEF Done, Step
  <2>4. vf' \in [Func -> [HwSched -> GpuState]]
    BY <1>7, <2>1 DEF Done, Step
  <2> QED BY <1>7, <2>2, <2>3, <2>4 DEF Done
<1>8. CASE Timeout
  <2>1. call' \in Call
    BY <1>8, NoCallType DEF Timeout, Call
  <2> QED BY <1>8, <2>1 DEF Timeout
<1>9. CASE Return
  <2>1. AfterCall(Going = {} /\ call.bad = {}) \in Call
    <3>1. [NoCall EXCEPT !.pc = "reset", !.job = "flr", !.fn = call.fn,
                         !.rest = call.rest] \in Call
      BY NoCallType DEF Call
    <3>2. [NoCall EXCEPT !.pc = "flr", !.job = "flr", !.fn = call.fn,
                         !.rest = call.rest] \in Call
      BY NoCallType DEF Call
    <3>3. GotoCall("bulk", "flr", HwSched, call.fn, "SAVE", {}) \in Call
      BY <1>0, GotoCallType DEF Call
    <3> QED BY <3>1, <3>2, <3>3, NoCallType DEF AfterCall
  <2>2. call' \in Call
    BY <1>9, <2>1 DEF Return
  <2> QED BY <1>9, <2>2 DEF Return
<1>10. ASSUME NEW f \in Func, FlrStart(f) PROVE TypeOK'
  <2>1. call' \in Call
    BY <1>10, NoCallType DEF FlrStart, Call
  <2> QED BY <1>10, <2>1 DEF FlrStart
<1>11. CASE FlrFail
  <2>1. call' \in Call
    BY <1>11 DEF FlrFail, Call
  <2> QED BY <1>11, <2>1 DEF FlrFail
<1>12. ASSUME NEW h \in HwSched, FlrEngine(h) PROVE TypeOK'
  <2>1. call.fn \in Func /\ call.rest \ {h} \in SUBSET HwSched /\ {h} \in SUBSET HwSched
    BY DEF Call
  <2>2. call' \in Call
    BY <1>0, <1>12, <2>1, GotoCallType DEF FlrEngine
  <2>3. gpu' \in [HwSched -> GpuState] /\ vf' \in [Func -> [HwSched -> GpuState]]
    BY <1>0, <1>12 DEF FlrEngine
  <2>4. torn' \subseteq HwSched
    BY <1>12 DEF FlrEngine
  <2> QED BY <1>12, <2>2, <2>3, <2>4 DEF FlrEngine
<1>13. CASE GpuReset
  <2>1. sched' \in [Func -> SchedState] /\ torn' = {}
    BY <1>13 DEF GpuReset, SchedState
  <2>2. gpu' \in [HwSched -> GpuState] /\ vf' \in [Func -> [HwSched -> GpuState]]
    BY <1>0, <1>13 DEF GpuReset
  <2> QED BY <1>13, <2>1, <2>2, NoCallType DEF GpuReset
<1>13a. CASE GpuResetRefused
  BY <1>13a, NoCallType DEF GpuResetRefused
<1>13b. CASE EnterPowerSaving
  <2>1. torn' \subseteq HwSched
    BY <1>13b DEF EnterPowerSaving
  <2>2. gpu' \in [HwSched -> GpuState] /\ vf' \in [Func -> [HwSched -> GpuState]]
    BY <1>0, <1>13b DEF EnterPowerSaving
  <2> QED BY <1>13b, <2>1, <2>2 DEF EnterPowerSaving
<1>14. ASSUME NEW f \in Func, Activate(f) \/ Suspend(f) \/ SetAvail(f) PROVE TypeOK'
  BY <1>14 DEF Activate, Suspend, SetAvail, SchedState
<1>15. CASE UNCHANGED vars
  BY <1>15 DEF vars
<1> QED
  BY <1>1, <1>2, <1>2a, <1>3, <1>4, <1>5, <1>6, <1>7, <1>8, <1>9, <1>10, <1>11,
     <1>12, <1>13, <1>13a, <1>13b, <1>14, <1>15 DEF Next, Work

-----------------------------------------------------------------------------
(* The inductive step.                                                     *)

\* Between calls nothing is loose: the engine and its function agree.
LEMMA IdleTracked ==
  ASSUME TypeOK, Tracked, call.pc = "idle", UNCHANGED <<gpu, cur, vf, torn>>
  PROVE  Tracked'
BY DEF Tracked, Matched, Loose, InFlr

\* A call that begins disturbs nothing.
LEMMA BeginStep ==
  ASSUME IInv, call.pc = "idle", UNCHANGED <<gpu, cur, vf, sched, torn>>,
         NEW kind, NEW job, NEW mask, NEW f, NEW s, job # "flr",
         call' = GotoCall(kind, job, mask, f, s, {})
  PROVE  Pending' /\ Arrivals' /\ FlrProgress' /\ Tracked'
<1>1. /\ call'.pc = "loop" /\ call'.job = job
      /\ call'.mask = mask /\ call'.todo = mask /\ call'.waiting = {}
  BY DEF GotoCall
<1>2. Tracked'
  BY IdleTracked DEF IInv
<1> QED BY <1>1, <1>2 DEF Pending, Arrivals, FlrProgress

\* The completion of one command keeps the two records of the engine's context
\* together, whichever command of the graph it was.
LEMMA DoneTracked ==
  ASSUME IInv, NEW h \in HwSched, Done(h)
  PROVE  Tracked'
<1> USE DEF IInv
<1> DEFINE n == NextState(h, call.fn, call.st)
           f == call.fn
<1>1. /\ n = call.next[h]
      /\ f \in Func
      /\ n \in Step
  BY NextStateType DEF Done, Pending, TypeOK, Call
<1>2. /\ gpu' = [gpu EXCEPT ![h] = n.st]
      /\ cur' = [cur EXCEPT ![h] = n.fn]
      /\ vf' = IF Recorded(n.st) THEN [vf EXCEPT ![n.fn][h] = n.st] ELSE vf
  BY <1>1 DEF Done
<1>3. /\ call'.fn = f /\ call'.st = call.st /\ call'.job = call.job
      /\ call'.pc # "idle" /\ call.pc = "wait"
  BY DEF Done, TypeOK, Call
<1>4. \A k \in HwSched : gpu'[k] = IF k = h THEN n.st ELSE gpu[k]
  BY <1>2 DEF TypeOK
<1>5. \A k \in HwSched : cur'[k] = IF k = h THEN n.fn ELSE cur[k]
  BY <1>2 DEF TypeOK
<1>6. \A g \in Func, k \in HwSched :
        vf'[g][k] = IF k = h /\ g = n.fn /\ Recorded(n.st) THEN n.st ELSE vf[g][k]
  BY <1>1, <1>2 DEF TypeOK, Step
<1>0. torn' = torn
  BY DEF Done
<1>7. ASSUME NEW k \in HwSched \ torn, k # h
      PROVE  /\ \A g \in Func \ {cur'[k]} : vf'[g][k] \in Parked
             /\ Matched(k)' \/ Loose(k)'
  <2>1. cur'[k] = cur[k] /\ gpu'[k] = gpu[k] /\ cur[k] \in Func
    BY <1>4, <1>5, <1>7 DEF TypeOK
  <2>2. \A g \in Func : vf'[g][k] = vf[g][k]
    BY <1>6, <1>7
  <2>3. Loose(k) => Loose(k)'
    BY <1>3, <2>1 DEF Loose, InFlr
  <2> QED BY <2>1, <2>2, <2>3 DEF Tracked, Matched
<1>8. n = [st |-> n.st, fn |-> n.fn] /\ n.fn \in {cur[h], f} /\ n.fn \in Func
  <2>1. n.fn \in {cur[h], f}
    BY DEF NextState, FromParked
  <2> QED BY <1>1, <2>1 DEF Step
<1>9. ASSUME h \notin torn
      PROVE  /\ \A g \in Func \ {cur'[h]} : vf'[g][h] \in Parked
             /\ \/ vf'[cur'[h]][h] = gpu'[h]
                \/ vf'[cur'[h]][h] \in Parked /\ gpu'[h] \in Parked
                \/ Loose(h)'
  <2>0. cur'[h] = n.fn /\ gpu'[h] = n.st /\ cur[h] \in Func
          /\ vf'[n.fn][h] = (IF Recorded(n.st) THEN n.st ELSE vf[n.fn][h])
          /\ \A g \in Func \ {n.fn} : vf'[g][h] = vf[g][h]
    BY <1>4, <1>5, <1>6, <1>8 DEF TypeOK
  <2>1. CASE gpu[h] \notin Parked
    <3>1. n.fn = cur[h] /\ n.st # "SHUTDOWN"
      BY <2>1 DEF NextState, TypeOK, GpuState, Parked
    <3> QED BY <1>9, <2>0, <3>1 DEF Tracked, Recorded
  <2>2. CASE gpu[h] \in Parked
    <3>1. n.fn = f \/ n.fn = cur[h]
      BY <1>8
    <3>2. \A g \in Func \ {n.fn} : vf[g][h] \in Parked
      <4>1. n.fn = f
        BY <2>2 DEF NextState, FromParked, Parked
      <4>2. CASE cur[h] = f
        BY <1>9, <4>1, <4>2 DEF Tracked
      <4>3. CASE cur[h] # f
        <5>1. ~Loose(h)
          BY <4>3 DEF Loose, InFlr
        <5>2. vf[cur[h]][h] \in Parked
          BY <1>9, <2>2, <5>1 DEF Tracked, Matched
        <5> QED BY <1>9, <5>2 DEF Tracked
      <4> QED BY <4>2, <4>3
    <3>3. CASE Recorded(n.st)
      BY <2>0, <3>2, <3>3
    <3>4. CASE ~Recorded(n.st)
      <4>1. LegacyFlr /\ n.st = "SHUTDOWN"
        BY <3>4, LegacyFlrAssumption DEF Recorded
      <4>2. n.fn = f
        BY <2>2 DEF NextState, FromParked, Parked
      <4>3. vf'[n.fn][h] = vf[n.fn][h]
        BY <2>0, <3>4
      <4>4. CASE vf[f][h] \in Parked
        BY <2>0, <3>2, <4>1, <4>2, <4>3, <4>4 DEF Parked
      <4>5. CASE vf[f][h] \notin Parked
        <5>1. cur[h] = f /\ Loose(h)
          BY <1>1, <1>9, <2>2, <4>5 DEF Tracked, Matched, Parked
        <5>2. Loose(h)'
          BY <1>3, <2>0, <4>1, <4>2, <5>1 DEF Loose, InFlr
        <5> QED BY <2>0, <3>2, <5>2
      <4> QED BY <4>4, <4>5
    <3> QED BY <3>3, <3>4
  <2> QED BY <2>1, <2>2
<1> QED BY <1>0, <1>7, <1>9 DEF Tracked, Matched

\* The rest of the invariant across the completion of one command.
LEMMA DoneStep ==
  ASSUME IInv, NEW h \in HwSched, Done(h)
  PROVE  Pending' /\ Arrivals' /\ FlrProgress'
<1> USE DEF IInv
<1>1. /\ call'.fn = call.fn /\ call'.st = call.st /\ call'.job = call.job
      /\ call'.mask = call.mask /\ call'.todo = call.todo /\ call'.bad = call.bad
      /\ call'.rest = call.rest /\ call'.waiting = call.waiting \ {h}
      /\ call.pc = "wait" /\ call'.pc \in {"loop", "wait"} /\ h \in call.todo
      /\ \A k \in HwSched \ {h} : call'.next[k] = call.next[k]
  BY DEF Done, TypeOK, Call, Pending
<1>2. \A k \in HwSched \ {h} :
        /\ gpu'[k] = gpu[k] /\ cur'[k] = cur[k]
        /\ \A g \in Func : vf'[g][k] = vf[g][k]
  <2>1. call.next[h] \in Step
    BY DEF TypeOK, Call
  <2> QED BY <2>1 DEF Done, TypeOK, Step
<1>3. Pending'
  <2>1. \A k \in HwSched \ {h} :
          NextState(k, call.fn, call.st)' = NextState(k, call.fn, call.st)
    <3>1. sched' = sched /\ call.fn \in Func
      BY DEF Done, TypeOK, Call
    <3> QED BY <1>1, <1>2, <3>1 DEF NextState, FromParked
  <2>2. call.waiting \subseteq HwSched
    BY DEF TypeOK, Call
  <2> QED BY <1>1, <2>1, <2>2 DEF Pending
<1>4. Arrivals'
  <2>1. call.mask \subseteq HwSched
    BY DEF TypeOK, Call
  <2> QED BY <1>1, <1>2, <2>1 DEF Arrivals
<1>5. FlrProgress'
  <2>1. call.mask \subseteq HwSched /\ call.rest \subseteq HwSched
    BY DEF TypeOK, Call
  <2>2. CASE call.job = "flr"
    <3>1. h \notin call.rest /\ h \in call.mask
      BY <1>1, <2>2 DEF FlrProgress
    <3>2. torn' = torn /\ \A k \in call.rest \ torn : Matched(k)'
      <4>1. torn' = torn /\ \A k \in call.rest \ torn : Matched(k) /\ k # h /\ k \in HwSched
        BY <1>1, <2>1, <2>2, <3>1 DEF FlrProgress, Done
      <4>2. \A k \in HwSched : cur[k] \in Func
        BY DEF TypeOK
      <4> QED BY <1>2, <4>1, <4>2 DEF Matched
    <3>3. \/ call.st = "SAVE" /\ call.mask = HwSched /\ call.rest = {}
          \/ /\ call.st = "SHUTDOWN"
             /\ \A k \in HwSched \ (call.rest \cup call.mask) :
                  gpu'[k] = "SHUTDOWN" /\ cur'[k] = call.fn
      BY <1>1, <1>2, <2>2, <3>1 DEF FlrProgress
    <3> QED BY <1>1, <2>2, <3>2, <3>3 DEF FlrProgress
  <2> QED BY <1>1, <2>2 DEF FlrProgress
<1> QED BY <1>3, <1>4, <1>5

\* A finished call hands over to what its caller does next; nothing is left
\* loose when that is nothing.
LEMMA ReturnStep ==
  ASSUME IInv, Return
  PROVE  Pending' /\ Arrivals' /\ FlrProgress' /\ Tracked'
<1> USE DEF IInv
<1> DEFINE ok == Going = {} /\ call.bad = {}
<1>1. call' = AfterCall(ok) /\ UNCHANGED <<gpu, cur, vf, torn>> /\ call.pc = "loop"
  BY DEF Return
<1>2. ok => \A h \in call.mask : gpu[h] = call.st /\ cur[h] = call.fn
  BY <1>1 DEF Arrivals, Going, Arrived
<1>3. CASE call' = NoCall
  <2>1. Pending' /\ Arrivals' /\ FlrProgress'
    BY <1>3 DEF NoCall, Pending, Arrivals, FlrProgress
  <2>2. \A h \in HwSched : ~Loose(h)
    <3>1. CASE call.job # "flr"
      BY <3>1 DEF Loose, InFlr
    <3>2. CASE call.job = "flr"
      <4>1. ok /\ call.rest = {} /\ ~(LegacyFlr /\ call.st = "SHUTDOWN")
        <5>1. AfterCall(ok).pc = "idle"
          BY <1>1, <1>3 DEF NoCall
        <5> QED BY <3>2, <5>1 DEF AfterCall, GotoCall, NoCall
      <4>2. CASE call.st = "SAVE"
        BY <1>1, <1>2, <3>2, <4>1, <4>2 DEF FlrProgress, Loose
      <4>3. CASE call.st # "SAVE"
        <5>1. \A h \in HwSched : gpu[h] = "SHUTDOWN" /\ ~LegacyFlr
          BY <1>1, <1>2, <3>2, <4>1, <4>3, LegacyFlrAssumption DEF FlrProgress
        <5> QED BY <5>1 DEF Loose
      <4> QED BY <4>2, <4>3
    <3> QED BY <3>1, <3>2
  <2>3. Tracked'
    BY <1>1, <2>2 DEF Tracked, Matched
  <2> QED BY <2>1, <2>3
<1>4. CASE call' # NoCall
  <2>0. call.job = "flr"
    BY <1>1, <1>4 DEF AfterCall
  <2>0a. \A h \in call.rest \ torn : Matched(h)'
    BY <1>1, <2>0 DEF FlrProgress, Matched
  <2>1. CASE ~ok
    <3>1. call' = [NoCall EXCEPT !.pc = "reset", !.job = "flr", !.fn = call.fn,
                                 !.rest = call.rest]
      BY <1>1, <2>0, <2>1 DEF AfterCall
    <3>2. /\ call'.pc = "reset" /\ call'.job = "flr" /\ call'.fn = call.fn
          /\ call'.st = "SHUTDOWN" /\ call'.todo = {} /\ call'.waiting = {}
          /\ call'.rest = call.rest /\ call'.mask = {}
      BY <3>1 DEF NoCall
    <3>3. \A h \in HwSched : Loose(h) => Loose(h)'
      BY <1>1, <2>0, <3>2 DEF Loose, InFlr
    <3>4. FlrProgress'
      BY <1>1, <2>0, <2>0a, <3>2 DEF FlrProgress
    <3> QED BY <1>1, <3>2, <3>3, <3>4 DEF Pending, Arrivals, Tracked, Matched
  <2>2. CASE ok /\ call.rest # {}
    <3>1. call' = [NoCall EXCEPT !.pc = "flr", !.job = "flr", !.fn = call.fn,
                                 !.rest = call.rest]
      BY <1>1, <2>0, <2>2 DEF AfterCall
    <3>2. /\ call'.pc = "flr" /\ call'.job = "flr" /\ call'.fn = call.fn
          /\ call'.st = "SHUTDOWN" /\ call'.todo = {} /\ call'.waiting = {}
          /\ call'.rest = call.rest /\ call'.mask = {}
      BY <3>1 DEF NoCall
    <3>3. \A h \in HwSched : Loose(h) => Loose(h)'
      BY <1>1, <2>0, <3>2 DEF Loose, InFlr
    <3>4. call.st = "SHUTDOWN" /\ call.rest \subseteq HwSched
      BY <1>1, <2>0, <2>2 DEF FlrProgress, TypeOK, Call
    <3>5. FlrProgress'
      BY <1>1, <1>2, <2>0, <2>0a, <2>2, <3>2, <3>4 DEF FlrProgress
    <3> QED BY <1>1, <3>2, <3>3, <3>5 DEF Pending, Arrivals, Tracked, Matched
  <2>3. CASE ok /\ call.rest = {}
    <3>1. LegacyFlr /\ call.st = "SHUTDOWN"
           /\ call' = GotoCall("bulk", "flr", HwSched, call.fn, "SAVE", {})
      BY <1>1, <1>4, <2>0, <2>3, LegacyFlrAssumption DEF AfterCall
    <3>2. /\ call'.pc = "loop" /\ call'.job = "flr" /\ call'.fn = call.fn
          /\ call'.st = "SAVE" /\ call'.todo = HwSched /\ call'.waiting = {}
          /\ call'.rest = {} /\ call'.mask = HwSched
      BY <3>1 DEF GotoCall
    <3>3. \A h \in HwSched : gpu[h] = "SHUTDOWN"
      BY <1>1, <1>2, <2>0, <2>3, <3>1 DEF FlrProgress
    <3>4. \A h \in HwSched : Loose(h) => Loose(h)'
      BY <1>1, <2>0, <3>1, <3>2, <3>3 DEF Loose, InFlr
    <3> QED BY <1>1, <3>2, <3>4 DEF Pending, Arrivals, FlrProgress, Tracked, Matched
  <2> QED BY <2>1, <2>2, <2>3
<1> QED BY <1>3, <1>4

\* An FLR's visit to one engine.
LEMMA FlrEngineStep ==
  ASSUME IInv, NEW h \in HwSched, FlrEngine(h)
  PROVE  Pending' /\ Arrivals' /\ FlrProgress' /\ Tracked'
<1> USE DEF IInv
<1> DEFINE f == call.fn
<1>1. /\ call.pc = "flr" /\ call.job = "flr" /\ call.st = "SHUTDOWN"
      /\ h \in call.rest /\ call.mask = {} /\ f \in Func
      /\ call.rest \subseteq HwSched
  BY DEF FlrEngine, FlrProgress, TypeOK, Call
<1>2. /\ call'.pc = "loop" /\ call'.job = "flr" /\ call'.fn = f
      /\ call'.st = "SHUTDOWN" /\ call'.mask = {h} /\ call'.todo = {h}
      /\ call'.waiting = {} /\ call'.rest = call.rest \ {h}
  BY DEF FlrEngine, GotoCall
<1>3. /\ cur' = cur
      /\ \A k \in HwSched : gpu'[k] = IF k = h THEN "SAVE" ELSE gpu[k]
      /\ \A g \in Func, k \in HwSched :
           vf'[g][k] = IF k = h /\ sched[g] = "ACTIVE" THEN "SAVE" ELSE vf[g][k]
  BY DEF FlrEngine, TypeOK
<1>4. Pending' /\ Arrivals'
  BY <1>2 DEF Pending, Arrivals
<1>3a. /\ torn \subseteq torn' /\ torn' \subseteq torn \cup {h}
       /\ Bystander(h, f) => h \in torn'
  BY DEF FlrEngine
<1>5. FlrProgress'
  <2>1. \A k \in call'.rest \ torn' : Matched(k)'
    <3> SUFFICES ASSUME NEW k \in call'.rest \ torn' PROVE Matched(k)'
      OBVIOUS
    <3>1. k \in HwSched /\ k # h /\ Matched(k) /\ cur[k] \in Func
      BY <1>1, <1>2, <1>3a DEF FlrProgress, TypeOK
    <3> QED BY <1>3, <3>1 DEF Matched
  <2>2. \A k \in HwSched \ (call'.rest \cup call'.mask) :
          gpu'[k] = "SHUTDOWN" /\ cur'[k] = f
    BY <1>1, <1>2, <1>3 DEF FlrProgress
  <2> QED BY <1>2, <2>1, <2>2 DEF FlrProgress
<1>6. Tracked'
  <2>1. ASSUME NEW k \in HwSched \ torn, k # h
        PROVE  /\ \A g \in Func \ {cur'[k]} : vf'[g][k] \in Parked
               /\ Matched(k)' \/ Loose(k)'
    <3>1. cur[k] \in Func /\ gpu'[k] = gpu[k] /\ \A g \in Func : vf'[g][k] = vf[g][k]
      BY <1>3, <2>1 DEF TypeOK
    <3>2. Loose(k) => Loose(k)'
      BY <1>1, <1>2, <1>3, <3>1 DEF Loose, InFlr
    <3> QED BY <1>3, <3>1, <3>2 DEF Tracked, Matched
  <2>2. h \notin torn => \A g \in Func \ {cur'[h]} : vf'[g][h] \in Parked
    BY <1>3 DEF Tracked, Parked
  <2>3. ASSUME h \notin torn' PROVE Matched(h)' \/ Loose(h)'
    <3>1. CASE cur[h] = f
      BY <1>2, <1>3, <3>1 DEF Loose, InFlr
    <3>2. CASE cur[h] # f
      <4>1. cur[h] \in Func /\ Matched(h)
        BY <1>1, <1>3a, <2>3 DEF FlrProgress, TypeOK
      <4>2. CASE gpu[h] \in Parked
        <5>1. vf[cur[h]][h] \in Parked
          BY <4>1, <4>2 DEF Matched
        <5>2. vf'[cur'[h]][h] \in Parked /\ gpu'[h] \in Parked
          BY <1>3, <4>1, <5>1 DEF Parked
        <5> QED BY <5>2 DEF Matched
      <4>3. CASE gpu[h] \notin Parked
        <5>1. sched[cur[h]] = "ACTIVE"
          BY <1>3a, <2>3, <3>2, <4>3 DEF Bystander
        <5>2. vf'[cur'[h]][h] = "SAVE" /\ gpu'[h] = "SAVE"
          BY <1>3, <4>1, <5>1
        <5> QED BY <5>2 DEF Matched
      <4> QED BY <4>2, <4>3
    <3> QED BY <3>1, <3>2
  <2> QED BY <1>3a, <2>1, <2>2, <2>3 DEF Tracked
<1> QED BY <1>4, <1>5, <1>6

\* Every step keeps the inductive invariant.
LEMMA IInvStep == IInv /\ [Next]_vars => IInv'
<1> SUFFICES ASSUME IInv, [Next]_vars PROVE Pending' /\ Arrivals' /\ FlrProgress' /\ Tracked'
  BY TypeStep DEF IInv
<1> DEFINE Goal == Pending' /\ Arrivals' /\ FlrProgress' /\ Tracked'
<1>1. ASSUME NEW f \in Func, NEW skip \in BOOLEAN, BulkRun(f, skip) PROVE Goal
  BY <1>1, BeginStep DEF BulkRun
<1>2. ASSUME NEW f \in Func, BulkPause(f) PROVE Goal
  BY <1>2, BeginStep DEF BulkPause
<1>2a. ASSUME NEW f \in Func, BulkIdle(f) PROVE Goal
  BY <1>2a, BeginStep DEF BulkIdle
<1>3. ASSUME NEW f \in Func, BulkShutdown(f) PROVE Goal
  BY <1>3, BeginStep DEF BulkShutdown
<1>4. ASSUME NEW f \in Func, NEW h \in HwSched, SingleRun(h, f) PROVE Goal
  <2> DEFINE c == GotoCall("single", "run", {h}, f, "RUN", {})
  <2>1. call.pc = "idle" /\ UNCHANGED <<gpu, cur, vf, sched, torn>>
    BY <1>4 DEF SingleRun
  <2>2. CASE gpu[h] # "RUN"
    BY <1>4, <2>1, <2>2, BeginStep DEF SingleRun
  <2>3. CASE gpu[h] = "RUN"
    <3>1. call' = [c EXCEPT !.pc = "wait", !.waiting = {h},
                            !.next[h] = [st |-> "IDLE", fn |-> cur[h]]]
      BY <1>4, <2>3 DEF SingleRun
    <3>2. /\ c.job = "run" /\ c.mask = {h} /\ c.todo = {h} /\ c.next = NoCall.next
          /\ c.fn = f /\ c.st = "RUN" /\ c \in Call
      BY GotoCallType DEF GotoCall, GpuState
    <3> HIDE DEF c
    <3>3. /\ call'.pc = "wait" /\ call'.job = "run" /\ call'.mask = {h}
          /\ call'.todo = {h} /\ call'.waiting = {h} /\ call'.fn = f
          /\ call'.st = "RUN" /\ call'.next[h] = [st |-> "IDLE", fn |-> cur[h]]
      BY <3>1, <3>2 DEF Call
    <3>4. NextState(h, f, "RUN")' = [st |-> "IDLE", fn |-> cur[h]]
      BY <2>1, <2>3 DEF NextState
    <3>5. Tracked'
      BY <2>1, IdleTracked DEF IInv
    <3> QED BY <3>3, <3>4, <3>5 DEF Pending, Arrivals, FlrProgress
  <2> QED BY <2>2, <2>3
<1>5. ASSUME NEW f \in Func, NEW h \in HwSched, SinglePause(h, f) PROVE Goal
  BY <1>5, BeginStep DEF SinglePause
<1>6. CASE Issue
  <2>1. /\ call'.pc = "wait" /\ call'.todo = Going /\ call'.waiting = Going
        /\ call'.mask = call.mask /\ call'.bad = call.bad /\ call'.rest = call.rest
        /\ call'.fn = call.fn /\ call'.st = call.st /\ call'.job = call.job
        /\ \A h \in Going : call'.next[h] = NextState(h, call.fn, call.st)
        /\ UNCHANGED <<gpu, cur, vf, sched, torn>> /\ call.pc = "loop"
    <3> DEFINE nx == [h \in HwSched |->
                        IF h \in Going THEN NextState(h, call.fn, call.st)
                                       ELSE NoCall.next[h]]
               left == call.loops - Cardinality(Going)
               go == Going
    <3>1. call' = [call EXCEPT !.pc = "wait", !.todo = go, !.waiting = go,
                               !.next = nx, !.loops = left]
      BY <1>6 DEF Issue
    <3>2. \A h \in go : nx[h] = NextState(h, call.fn, call.st)
      BY DEF Going, IInv, TypeOK, Call
    <3> HIDE DEF nx, left, go
    <3>3. /\ call'.pc = "wait" /\ call'.todo = go /\ call'.waiting = go
          /\ call'.mask = call.mask /\ call'.bad = call.bad /\ call'.rest = call.rest
          /\ call'.fn = call.fn /\ call'.st = call.st /\ call'.job = call.job
          /\ call'.next = nx
      BY <3>1 DEF IInv, TypeOK, Call
    <3> QED BY <1>6, <3>2, <3>3 DEF Issue, go
  <2>2. Pending'
    <3>1. \A h \in Going : NextState(h, call.fn, call.st)' = NextState(h, call.fn, call.st)
      BY <2>1 DEF NextState, FromParked
    <3> QED BY <2>1, <3>1 DEF Pending
  <2>3. Arrivals'
    BY <2>1 DEF IInv, Arrivals, Going, Arrived
  <2>4. FlrProgress'
    BY <2>1 DEF IInv, FlrProgress, Matched, Going
  <2>5. Tracked'
    BY <2>1 DEF IInv, Tracked, Matched, Loose, InFlr
  <2> QED BY <2>2, <2>3, <2>4, <2>5
<1>7. ASSUME NEW h \in HwSched, Done(h) PROVE Goal
  BY <1>7, DoneStep, DoneTracked
<1>8. CASE Timeout
  <2>1. /\ call'.pc = "loop" /\ call'.todo = call.todo \ call.waiting
        /\ call'.waiting = {} /\ call'.mask = call.mask
        /\ call'.bad = call.bad \cup call.waiting /\ call'.rest = call.rest
        /\ call'.fn = call.fn /\ call'.st = call.st /\ call'.job = call.job
        /\ UNCHANGED <<gpu, cur, vf, sched, torn>> /\ call.pc = "wait"
    BY <1>8 DEF Timeout, IInv, TypeOK, Call
  <2>2. Pending' /\ Arrivals'
    BY <2>1 DEF IInv, Pending, Arrivals
  <2>3. FlrProgress'
    BY <2>1 DEF IInv, FlrProgress, Matched
  <2>4. Tracked'
    BY <2>1 DEF IInv, Tracked, Matched, Loose, InFlr
  <2> QED BY <2>2, <2>3, <2>4
<1>9. CASE Return
  BY <1>9, ReturnStep
<1>10. ASSUME NEW f \in Func, FlrStart(f) PROVE Goal
  <2>1. /\ call'.pc = "flr" /\ call'.job = "flr" /\ call'.fn = f
        /\ call'.st = "SHUTDOWN" /\ call'.rest = HwSched /\ call'.mask = {}
        /\ call'.todo = {} /\ call'.waiting = {}
    BY <1>10 DEF FlrStart, NoCall
  <2>2. Tracked'
    BY <1>10, IdleTracked DEF FlrStart, IInv
  <2>3. FlrProgress'
    <3>1. UNCHANGED <<gpu, cur, vf, torn>> /\ call.pc = "idle"
      BY <1>10 DEF FlrStart
    <3>2. \A h \in HwSched \ torn : Matched(h)'
      BY <3>1 DEF IInv, Tracked, Loose, InFlr, Matched
    <3> QED BY <2>1, <3>1, <3>2 DEF FlrProgress
  <2> QED BY <2>1, <2>2, <2>3 DEF Pending, Arrivals
<1>11. CASE FlrFail
  <2>1. /\ call'.pc = "reset" /\ call'.job = call.job /\ call'.fn = call.fn
        /\ call'.st = call.st /\ call'.rest = call.rest /\ call'.mask = call.mask
        /\ call'.todo = call.todo /\ call'.waiting = call.waiting
        /\ UNCHANGED <<gpu, cur, vf, sched, torn>> /\ call.pc = "flr"
    BY <1>11 DEF FlrFail, IInv, TypeOK, Call
  <2>2. Tracked'
    BY <2>1 DEF IInv, Tracked, Matched, Loose, InFlr
  <2>3. FlrProgress'
    BY <2>1 DEF IInv, FlrProgress, Matched
  <2> QED BY <2>1, <2>2, <2>3 DEF IInv, Pending, Arrivals
<1>12. ASSUME NEW h \in HwSched, FlrEngine(h) PROVE Goal
  BY <1>12, FlrEngineStep
<1>13. CASE GpuReset
  <2>1. /\ call'.pc = "idle" /\ call'.waiting = {} /\ call'.todo = {}
    BY <1>13 DEF GpuReset, NoCall
  <2>2. Tracked'
    BY <1>13 DEF GpuReset, Tracked, Matched, Parked, IInv, TypeOK
  <2> QED BY <2>1, <2>2 DEF Pending, Arrivals, FlrProgress
<1>13a. CASE GpuResetRefused
  <2>1. /\ call'.pc = "idle" /\ call'.waiting = {} /\ call'.todo = {}
        /\ UNCHANGED <<gpu, cur, vf>> /\ call.pc = "reset"
        /\ torn' = torn \cup (HwSched \ call.rest)
    BY <1>13a DEF GpuResetRefused, NoCall
  <2>2. \A h \in HwSched \ torn' : h \in call.rest \ torn /\ Matched(h)
    BY <2>1 DEF IInv, FlrProgress
  <2>3. Tracked'
    BY <2>1, <2>2 DEF IInv, Tracked, Matched
  <2> QED BY <2>1, <2>3 DEF Pending, Arrivals, FlrProgress
<1>13b. CASE EnterPowerSaving
  <2>1. /\ call.pc = "idle" /\ UNCHANGED <<cur, call, sched>>
        /\ torn' = torn \cup {h \in HwSched : Bystander(h, PF)}
        /\ \A f \in Func : sched[f] # "ACTIVE"
        /\ \A h \in HwSched : gpu'[h] = "SHUTDOWN"
        /\ \A g \in Func, h \in HwSched :
             vf'[g][h] = IF g = PF THEN "SHUTDOWN" ELSE vf[g][h]
    BY <1>13b DEF EnterPowerSaving, IInv, TypeOK
  <2>2. ASSUME NEW h \in HwSched \ torn'
        PROVE  /\ \A g \in Func \ {cur[h]} : vf'[g][h] \in Parked
               /\ Matched(h)'
    <3>1. /\ h \in HwSched \ torn /\ ~Bystander(h, PF) /\ cur[h] \in Func
          /\ ~Loose(h)
      BY <2>1, <2>2 DEF IInv, TypeOK, Loose, InFlr
    <3>2. /\ \A g \in Func \ {cur[h]} : vf[g][h] \in Parked
          /\ Matched(h)
      BY <3>1 DEF IInv, Tracked
    <3>3. cur[h] = PF \/ gpu[h] \in Parked
      BY <2>1, <3>1 DEF Bystander
    <3>4. vf'[cur[h]][h] \in Parked
      BY <2>1, <3>1, <3>2, <3>3 DEF Matched, Parked
    <3> QED BY <2>1, <3>1, <3>2, <3>4 DEF Matched, Parked
  <2>3. Tracked'
    BY <2>1, <2>2 DEF Tracked
  <2> QED BY <2>1, <2>3 DEF IInv, Pending, Arrivals, FlrProgress
<1>14. ASSUME NEW f \in Func, Activate(f) \/ Suspend(f) \/ SetAvail(f) PROVE Goal
  <2>1. call.pc = "idle" /\ UNCHANGED <<gpu, cur, vf, call, torn>>
    BY <1>14 DEF Activate, Suspend, SetAvail
  <2>2. Tracked'
    BY <2>1, IdleTracked DEF IInv
  <2> QED BY <2>1, <2>2 DEF IInv, Pending, Arrivals, FlrProgress
<1>15. CASE UNCHANGED vars
  <2>1. UNCHANGED <<gpu, cur, vf, sched, call, torn>>
    BY <1>15 DEF vars
  <2>2. Pending' /\ Arrivals' /\ FlrProgress'
    BY <2>1 DEF IInv, Pending, Arrivals, FlrProgress, Matched, NextState, FromParked
  <2>3. Tracked'
    BY <2>1 DEF IInv, Tracked, Matched, Loose, InFlr
  <2> QED BY <2>2, <2>3
<1> QED
  BY <1>1, <1>2, <1>2a, <1>3, <1>4, <1>5, <1>6, <1>7, <1>8, <1>9, <1>10, <1>11,
     <1>12, <1>13, <1>13a, <1>13b, <1>14, <1>15 DEF Next, Work

\* A freshly initialised scheduler satisfies the invariant.
LEMMA IInvInit == Init => IInv
<1> SUFFICES ASSUME Init PROVE IInv
  OBVIOUS
<1> USE DEF Init
<1>1. TypeOK
  BY NoCallType, NumVfAssumption DEF TypeOK, GpuState, SchedState, Func
<1>2. call.pc = "idle" /\ call.waiting = {} /\ call.todo = {}
  BY DEF NoCall
<1>3. Tracked
  BY NumVfAssumption DEF Tracked, Matched, Func, Parked
<1> QED BY <1>1, <1>2, <1>3 DEF IInv, Pending, Arrivals, FlrProgress

-----------------------------------------------------------------------------
(* The theorems.                                                           *)

LEMMA IInvAlways == Spec => []IInv
BY IInvInit, IInvStep, PTL DEF Spec

\* Every variable of the state machine keeps its type, whatever sequence of
\* calls, timeouts and resets amdgv_ws_state.c goes through.
THEOREM TypeCorrect == Spec => []TypeOK
<1>1. IInv => TypeOK
  BY DEF IInv
<1> QED BY <1>1, IInvAlways, PTL

\* For any number of VFs and engines, and with either FLR sequence, no two
\* functions are recorded live on one engine and the engine's record agrees
\* with its function's, through timeouts, FLRs from any state of the engines
\* and GPU resets, on every engine but those on which an FLR or power saving
\* passed over another function's live context (amdgv_sched_event.c:1862) or
\* failed without the whole-GPU reset it asked for.
THEOREM Isolation == Spec => []OneLiveContext
<1>1. IInv => OneLiveContext
  BY DEF IInv, Tracked, Matched, OneLiveContext, Loose, Parked
<1> QED BY <1>1, IInvAlways, PTL

\* A goto_state call that returns success left every engine it was given at
\* the state and the function it was asked for.
THEOREM SuccessIsReal == Spec => []SuccessMeansArrived
<1>1. IInv => SuccessMeansArrived
  BY DEF IInv, Arrivals, SuccessMeansArrived, Going, Arrived
<1> QED BY <1>1, IInvAlways, PTL

-----------------------------------------------------------------------------
(* The walk.  IInv says what the records are; WInv says where the walk of  *)
(* the call in progress is.                                                *)

\* The states a caller may ask for.
Target == {"RUN", "LOAD", "IDLE", "SAVE", "SHUTDOWN"}

\* What each caller asks for, and that a shutdown is asked for by a shutdown or
\* an FLR only.
Jobs ==
  call.pc \in {"loop", "wait"} =>
    /\ call.st \in Target
    /\ call.st = "SHUTDOWN" => call.job \in {"shutdown", "flr"}

\* An engine left by a SAVE has its function's context saved, except on the
\* engines an FLR has changed to SAVE itself.
SavedAgrees ==
  \A h \in HwSched \ torn : gpu[h] = "SAVE" =>
    \/ vf[cur[h]][h] = "SAVE"
    \/ /\ call.pc # "idle" /\ call.job = "flr" /\ call.st = "SHUTDOWN"
       /\ h \notin call.rest

\* The engines an FLR of an active function has visited: their record is the
\* saved context, or what the commands since have made of it.
FlrRecords ==
  call.job = "flr" /\ call.pc \in {"flr", "loop", "wait"}
    /\ sched[call.fn] = "ACTIVE" =>
    \A h \in HwSched \ call.rest :
      /\ cur[h] = call.fn \/ gpu[h] \in Parked
      /\ gpu[h] = "SAVE" => vf[call.fn][h] = "SAVE"
      /\ gpu[h] = "SHUTDOWN" => vf[call.fn][h] \in Parked

\* How many commands take an engine in state st to SAVE.
ToSave(st) == IF st \in {"LOAD", "INIT"} THEN 3
              ELSE IF st = "RUN" THEN 2
              ELSE IF st = "IDLE" THEN 1 ELSE 0

\* How many commands an engine whose last one was e is from state s of
\* function f, at most: on the way when it is f that it holds, else by way of
\* parking the function it holds.  To be loaded f has to be saved first: sv
\* says that it is, or will be when e is done.
Rank(e, f, s, sv) ==
  IF e = [st |-> s, fn |-> f] THEN 0
  ELSE IF s = "RUN"
       THEN IF e.fn = f /\ e.st \in {"LOAD", "INIT"} THEN 1 ELSE 2 + ToSave(e.st)
  ELSE IF s = "IDLE"
       THEN IF e.fn = f /\ e.st \in {"LOAD", "INIT", "RUN"}
            THEN ToSave(e.st) - 1 ELSE 3 + ToSave(e.st)
  ELSE IF s = "LOAD"
       THEN IF (e.fn = f /\ e.st \notin Parked) \/ (e.st \in Parked /\ sv)
            THEN 1 + ToSave(e.st) ELSE 5 + ToSave(e.st)
  ELSE IF s = "SAVE"
       THEN IF e.fn = f /\ e.st # "SHUTDOWN" THEN ToSave(e.st) ELSE 4 + ToSave(e.st)
  ELSE IF e.fn = f THEN 1 + ToSave(e.st) ELSE 5 + ToSave(e.st)

\* The command engine h executes or has executed last.
Last(h) == IF h \in call.waiting THEN call.next[h]
                                 ELSE [st |-> gpu[h], fn |-> cur[h]]

\* The function asked for is saved on engine h, or is being saved there.
SavedThere(h) ==
  IF h \in call.waiting /\ call.next[h].fn = call.fn
  THEN call.next[h].st = "SAVE" ELSE vf[call.fn][h] = "SAVE"

\* The commands engine h needs yet, at most.
Left(h) == Rank(Last(h), call.fn, call.st, SavedThere(h))

\* loop_okay still pays for r more rounds, and no engine needs more.
Pays(r) ==
  /\ \A h \in call.todo : Left(h) <= r
  /\ r * Cardinality(call.todo) <= call.loops

Budget == call.pc \in {"loop", "wait"} => \E r \in 0 .. 8 : Pays(r)

\* Nothing is waited for between the rounds of the loop.
Quiet == call.pc # "wait" => call.waiting = {}

WInv == Quiet /\ Jobs /\ SavedAgrees /\ FlrRecords /\ Budget

-----------------------------------------------------------------------------
(* What one command does.                                                  *)

\* The command chosen next is for the engine's function or for the one asked
\* for; a live context is only ever moved on along the graph.
LEMMA NextCases ==
  ASSUME TypeOK, NEW h \in HwSched, NEW f \in Func, NEW s \in GpuState
  PROVE  LET n == NextState(h, f, s) IN
         /\ gpu[h] = "IDLE" => n = [st |-> "SAVE", fn |-> cur[h]]
         /\ gpu[h] \in {"LOAD", "INIT"} => n = [st |-> "RUN", fn |-> cur[h]]
         /\ gpu[h] = "RUN" => n = [st |-> "IDLE", fn |-> cur[h]]
         /\ gpu[h] \in Parked =>
              /\ n.fn = f
              /\ n.st \in {"SHUTDOWN", "LOAD", "INIT"}
              /\ n.st = "SHUTDOWN" =>
                   /\ s = "SHUTDOWN"
                   /\ \/ vf[f][h] = "SAVE" /\ cur[h] # f
                      \/ gpu[h] = "SAVE" /\ (cur[h] = f \/ sched[f] = "SUSPEND")
              /\ n.st = "LOAD" => vf[f][h] = "SAVE"
              /\ n.st = "INIT" => vf[f][h] # "SAVE"
              /\ s = "SHUTDOWN" /\ gpu[h] = "SAVE" /\ cur[h] = f
                   => n.st = "SHUTDOWN"
              /\ s = "SHUTDOWN" /\ cur[h] # f => n.st # "LOAD"
BY DEF NextState, FromParked, Parked, TypeOK, GpuState

\* The bound on the commands still needed is between 0 and 8, and 0 only for
\* an engine that has arrived.
LEMMA RankRange ==
  ASSUME NEW e \in Step, NEW f \in Func, NEW s \in Target, NEW sv \in BOOLEAN
  PROVE  /\ Rank(e, f, s, sv) \in 0 .. 8
         /\ Rank(e, f, s, sv) = 0 <=> e.st = s /\ e.fn = f
<1>1. e.st \in GpuState
  BY DEF Step
<1>2. CASE s = "RUN"
  BY <1>1, <1>2 DEF Rank, ToSave, Parked, GpuState, Step
<1>3. CASE s = "LOAD"
  BY <1>1, <1>3 DEF Rank, ToSave, Parked, GpuState, Step
<1>4. CASE s = "SAVE"
  BY <1>1, <1>4 DEF Rank, ToSave, Parked, GpuState, Step
<1>5. CASE s = "SHUTDOWN"
  BY <1>1, <1>5 DEF Rank, ToSave, Parked, GpuState, Step
<1>6. CASE s = "IDLE"
  BY <1>1, <1>6 DEF Rank, ToSave, Parked, GpuState, Step
<1> QED BY <1>2, <1>3, <1>4, <1>5, <1>6 DEF Target

\* Each command brings its engine nearer to what was asked for.
LEMMA WalkStep ==
  ASSUME IInv, Jobs, call.pc = "loop", NEW h \in Going, NEW v \in BOOLEAN,
         v = IF NextState(h, call.fn, call.st).fn = call.fn
             THEN NextState(h, call.fn, call.st).st = "SAVE"
             ELSE vf[call.fn][h] = "SAVE"
  PROVE  Rank(NextState(h, call.fn, call.st), call.fn, call.st, v)
           < Rank([st |-> gpu[h], fn |-> cur[h]], call.fn, call.st,
                  vf[call.fn][h] = "SAVE")
<1> DEFINE f == call.fn
           s == call.st
           n == NextState(h, f, s)
           e == [st |-> gpu[h], fn |-> cur[h]]
           w == vf[f][h] = "SAVE"
<1>1. /\ TypeOK /\ h \in HwSched /\ f \in Func /\ s \in GpuState
      /\ gpu[h] \in GpuState /\ cur[h] \in Func
      /\ ~(gpu[h] = s /\ cur[h] = f)
      /\ s \in Target
  BY DEF IInv, TypeOK, Call, Going, Arrived, Jobs
<1>2. n \in Step /\ n.st \in GpuState /\ n.fn \in Func
  BY <1>1, NextStateType DEF Step
<1>3. /\ gpu[h] = "IDLE" => n.st = "SAVE" /\ n.fn = cur[h]
      /\ gpu[h] \in {"LOAD", "INIT"} => n.st = "RUN" /\ n.fn = cur[h]
      /\ gpu[h] = "RUN" => n.st = "IDLE" /\ n.fn = cur[h]
      /\ gpu[h] \in Parked =>
           /\ n.fn = f /\ n.st \in {"SHUTDOWN", "LOAD", "INIT"}
           /\ n.st = "SHUTDOWN" => s = "SHUTDOWN"
           /\ n.st = "LOAD" => w
           /\ n.st = "INIT" => ~w
           /\ s = "SHUTDOWN" /\ gpu[h] = "SAVE" /\ cur[h] = f => n.st = "SHUTDOWN"
  BY <1>1, NextCases
<1>4. w \in BOOLEAN /\ v \in BOOLEAN
  OBVIOUS
<1>4a. v <=> IF n.fn = f THEN n.st = "SAVE" ELSE w
  OBVIOUS
<1> HIDE DEF n, s, f, w
<1>5. e.st = gpu[h] /\ e.fn = cur[h]
  OBVIOUS
<1> HIDE DEF e
<1>6. Rank(n, f, s, v) < Rank(e, f, s, w)
  <2>1. CASE s = "RUN"
    BY <1>1, <1>2, <1>3, <1>5, <2>1 DEF Rank, ToSave, Parked, GpuState, Step
  <2>2. CASE s = "LOAD"
    BY <1>1, <1>2, <1>3, <1>4, <1>4a, <1>5, <2>2 DEF Rank, ToSave, Parked, GpuState, Step
  <2>3. CASE s = "SAVE"
    BY <1>1, <1>2, <1>3, <1>5, <2>3 DEF Rank, ToSave, Parked, GpuState, Step
  <2>4. CASE s = "SHUTDOWN"
    BY <1>1, <1>2, <1>3, <1>5, <2>4 DEF Rank, ToSave, Parked, GpuState, Step
  <2>5. CASE s = "IDLE"
    BY <1>1, <1>2, <1>3, <1>5, <2>5 DEF Rank, ToSave, Parked, GpuState, Step
  <2> QED BY <1>1, <2>1, <2>2, <2>3, <2>4, <2>5 DEF Target
<1> QED BY <1>6 DEF n, e, f, s, w

-----------------------------------------------------------------------------
(* The inductive step.                                                     *)

\* For an engine to be loaded with a function recorded live, the records
\* would have to disagree; only an FLR makes them, on engines it has visited.
LEMMA ParkedRecord ==
  ASSUME IInv, NEW h \in HwSched \ torn, NEW f \in Func, gpu[h] \in Parked,
         ~InFlr(f) \/ cur[h] # f
  PROVE  vf[f][h] \in Parked
<1>1. CASE cur[h] = f
  BY <1>1 DEF IInv, Tracked, Matched, Loose
<1>2. CASE cur[h] # f
  BY <1>2 DEF IInv, Tracked
<1> QED BY <1>1, <1>2

\* A call starts with the loop_okay that the longest walk needs.
LEMMA FreshBudget ==
  ASSUME TypeOK, TypeOK', NEW kind \in {"bulk", "single"}, NEW job,
         NEW mask \in SUBSET HwSched, NEW f \in Func,
         NEW s \in Target, NEW rest,
         kind = "single" => \E h \in HwSched : mask = {h},
         call' = GotoCall(kind, job, mask, f, s, rest)
  PROVE  Budget'
<1>1. /\ call'.pc = "loop" /\ call'.fn = f /\ call'.st = s
      /\ call'.todo = mask /\ call'.waiting = {}
      /\ call'.loops = LOOP_OKAY * (IF kind = "bulk" THEN Cardinality(HwSched) ELSE 1)
  BY DEF GotoCall
<1>2. ASSUME NEW h \in mask PROVE Left(h)' <= 8
  <2>1. Last(h)' = [st |-> gpu'[h], fn |-> cur'[h]] /\ SavedThere(h)' \in BOOLEAN
    BY <1>1 DEF Last, SavedThere
  <2>2. [st |-> gpu'[h], fn |-> cur'[h]] \in Step
    BY DEF Step, TypeOK
  <2> QED BY <1>1, <2>1, <2>2, RankRange DEF Left
<1>3. 8 * Cardinality(mask) <= call'.loops
  <2>1. /\ Cardinality(mask) \in Nat /\ Cardinality(HwSched) \in Nat
        /\ Cardinality(mask) <= Cardinality(HwSched)
    BY EnginesFinite, FS_Subset, HwSchedAssumption
  <2>2. kind = "single" => Cardinality(mask) = 1
    BY FS_Singleton
  <2> QED BY <1>1, <2>1, <2>2 DEF LOOP_OKAY
<1> QED BY <1>1, <1>2, <1>3 DEF Budget, Pays

\* A call that begins, other than an FLR's, has the engines where the last
\* one left them and the loop_okay that the longest walk needs.
LEMMA BeginWalk ==
  ASSUME IInv, TypeOK', WInv, call.pc = "idle",
         UNCHANGED <<gpu, cur, vf, sched, torn>>,
         NEW kind \in {"bulk", "single"},
         NEW job \in {"run", "skip_run", "pause", "shutdown"},
         NEW mask \in SUBSET HwSched, NEW f \in Func,
         NEW s \in Target, s = "SHUTDOWN" => job = "shutdown",
         kind = "single" => \E h \in HwSched : mask = {h},
         call' = GotoCall(kind, job, mask, f, s, {})
  PROVE  WInv'
<1>1. /\ call'.pc = "loop" /\ call'.kind = kind /\ call'.job = job
      /\ call'.fn = f /\ call'.st = s /\ call'.todo = mask /\ call'.waiting = {}
      /\ call'.loops = LOOP_OKAY * (IF kind = "bulk" THEN Cardinality(HwSched) ELSE 1)
  BY DEF GotoCall
<1>2. Jobs'
  BY <1>1 DEF Jobs
<1>3. Quiet' /\ SavedAgrees' /\ FlrRecords'
  BY <1>1 DEF WInv, Quiet, SavedAgrees, FlrRecords
<1>4. Budget'
  BY FreshBudget DEF IInv
<1> QED BY <1>2, <1>3, <1>4 DEF WInv

\* The fields of the call after each step of its loop.
LEMMA IssueCall ==
  ASSUME TypeOK, Issue
  PROVE  /\ call'.pc = "wait" /\ call'.todo = Going /\ call'.waiting = Going
         /\ call'.rest = call.rest /\ call'.fn = call.fn /\ call'.st = call.st
         /\ call'.job = call.job /\ call'.kind = call.kind
         /\ \A h \in Going : call'.next[h] = NextState(h, call.fn, call.st)
         /\ call'.loops = call.loops - Cardinality(Going)
<1> DEFINE nx == [h \in HwSched |->
                    IF h \in Going THEN NextState(h, call.fn, call.st)
                                   ELSE NoCall.next[h]]
           left == call.loops - Cardinality(Going)
           go == Going
<1>1. call' = [call EXCEPT !.pc = "wait", !.todo = go, !.waiting = go,
                           !.next = nx, !.loops = left]
  BY DEF Issue
<1>2. \A h \in go : nx[h] = NextState(h, call.fn, call.st)
  BY DEF Going, TypeOK, Call
<1> HIDE DEF nx, left, go
<1>3. /\ call'.pc = "wait" /\ call'.todo = go /\ call'.waiting = go
      /\ call'.rest = call.rest /\ call'.fn = call.fn /\ call'.st = call.st
      /\ call'.job = call.job /\ call'.kind = call.kind
      /\ call'.next = nx /\ call'.loops = left
  BY <1>1 DEF TypeOK, Call
<1> QED BY <1>2, <1>3 DEF go, left

\* Sending a round of commands: what is sent is one command nearer, and
\* loop_okay has been charged for it.
LEMMA IssueWalk ==
  ASSUME IInv, WInv, Issue
  PROVE  WInv'
<1> USE DEF IInv
<1>1. /\ call'.pc = "wait" /\ call'.todo = Going /\ call'.waiting = Going
      /\ call'.rest = call.rest /\ call'.fn = call.fn /\ call'.st = call.st
      /\ call'.job = call.job /\ call'.kind = call.kind
      /\ \A h \in Going : call'.next[h] = NextState(h, call.fn, call.st)
      /\ call'.loops = call.loops - Cardinality(Going)
  BY IssueCall
<1>2. call.pc = "loop" /\ Going # {} /\ UNCHANGED <<gpu, cur, vf, sched, torn>>
  BY DEF Issue
<1>3. Jobs'
  BY <1>1, <1>2 DEF WInv, Jobs
<1>4. Quiet' /\ SavedAgrees' /\ FlrRecords'
  BY <1>1, <1>2 DEF WInv, Quiet, SavedAgrees, FlrRecords
<1>5. Budget'
  <2>1. PICK r \in 0 .. 8 : Pays(r)
    BY <1>2 DEF WInv, Budget
  <2>2. /\ call.fn \in Func /\ call.st \in Target
        /\ call.st \in GpuState /\ call.waiting = {} /\ call.todo \subseteq HwSched
        /\ Going \subseteq call.todo /\ call.loops \in Int
    <3>1. call.waiting = {}
      BY <1>2 DEF WInv, Quiet
    <3> QED BY <1>2, <3>1 DEF WInv, Jobs, TypeOK, Call, Going
  <2>3. ASSUME NEW h \in Going
        PROVE  Left(h)' <= r - 1 /\ 1 <= r
    <3> DEFINE n == NextState(h, call.fn, call.st)
               w == vf[call.fn][h] = "SAVE"
               v == IF n.fn = call.fn THEN n.st = "SAVE" ELSE w
    <3>1. Last(h) = [st |-> gpu[h], fn |-> cur[h]] /\ Last(h) \in Step
            /\ SavedThere(h) = w
      BY <2>2 DEF Last, SavedThere, Step, TypeOK
    <3>2. Last(h)' = n /\ SavedThere(h)' = v
      BY <1>1, <1>2 DEF Last, SavedThere
    <3>2a. w \in BOOLEAN /\ v \in BOOLEAN
      OBVIOUS
    <3>3. Rank(n, call.fn, call.st, v)
            < Rank([st |-> gpu[h], fn |-> cur[h]], call.fn, call.st, w)
      BY <1>2, <3>2a, WalkStep DEF WInv
    <3>3a. Left(h)' < Left(h)
      BY <1>1, <3>1, <3>2, <3>3 DEF Left
    <3>4. Left(h) <= r
      BY <2>1, <2>2 DEF Pays
    <3>5. n \in Step
      BY <2>2, NextStateType
    <3>6. Left(h)' \in 0 .. 8 /\ Left(h) \in 0 .. 8
      BY <1>1, <2>2, <3>1, <3>2, <3>2a, <3>5, RankRange DEF Left
    <3> QED BY <3>3a, <3>4, <3>6
  <2>4. (r - 1) * Cardinality(Going) <= call.loops - Cardinality(Going)
    <3> DEFINE a == Cardinality(Going)
               b == Cardinality(call.todo)
    <3>1. a \in Nat /\ b \in Nat /\ a <= b
      <4>1. IsFiniteSet(call.todo)
        BY <2>2, EnginesFinite
      <4>2. Cardinality(Going) <= Cardinality(call.todo)
        BY <2>2, <4>1, FS_Subset
      <4> QED BY <2>2, <4>2, EnginesFinite
    <3>2. r * b <= call.loops
      BY <2>1 DEF Pays
    <3> HIDE DEF a, b
    <3>3. r * a <= r * b /\ r * a \in Int /\ r * b \in Int
      BY <3>1
    <3>4. (r - 1) * a = r * a - a
      BY <3>1
    <3>5. (r - 1) * a <= call.loops - a
      BY <2>2, <3>1, <3>2, <3>3, <3>4
    <3> QED BY <3>5 DEF a
  <2>5. r - 1 \in 0 .. 8
    BY <1>2, <2>3
  <2>6. Pays(r - 1)'
    BY <1>1, <2>3, <2>4 DEF Pays
  <2> QED BY <2>5, <2>6 DEF Budget
<1> QED BY <1>3, <1>4, <1>5 DEF WInv

\* The completion of one command.
LEMMA DoneWalk ==
  ASSUME IInv, WInv, NEW h \in HwSched, Done(h)
  PROVE  WInv'
<1> USE DEF IInv
<1> DEFINE f == call.fn
           s == call.st
           n == NextState(h, f, s)
<1>1. /\ call'.fn = f /\ call'.st = s /\ call'.job = call.job
      /\ call'.kind = call.kind /\ call'.todo = call.todo
      /\ call'.loops = call.loops
      /\ call'.rest = call.rest /\ call'.waiting = call.waiting \ {h}
      /\ call.pc = "wait" /\ call'.pc \in {"loop", "wait"}
      /\ call'.pc = "loop" => call.waiting = {h}
      /\ h \in call.waiting
      /\ \A k \in HwSched \ {h} : call'.next[k] = call.next[k]
  BY DEF Done, TypeOK, Call, Pending
<1>2. /\ n = call.next[h]
      /\ f \in Func /\ s \in GpuState
      /\ n \in Step /\ n.st \in GpuState /\ n.fn \in Func
      /\ s \in Target
      /\ gpu[h] \in GpuState /\ cur[h] \in Func /\ torn' = torn
      /\ call.waiting \subseteq HwSched
  BY <1>1, NextStateType DEF Pending, TypeOK, Call, Step, WInv, Jobs, Done
<1>3. /\ sched' = sched
      /\ \A k \in HwSched : gpu'[k] = IF k = h THEN n.st ELSE gpu[k]
      /\ \A k \in HwSched : cur'[k] = IF k = h THEN n.fn ELSE cur[k]
      /\ \A g \in Func, k \in HwSched :
           vf'[g][k] = IF k = h /\ g = n.fn /\ Recorded(n.st) THEN n.st ELSE vf[g][k]
  BY <1>2 DEF Done, TypeOK, Step
<1>4. /\ gpu[h] = "IDLE" => n.st = "SAVE" /\ n.fn = cur[h]
      /\ gpu[h] \in {"LOAD", "INIT"} => n.st = "RUN" /\ n.fn = cur[h]
      /\ gpu[h] = "RUN" => n.st = "IDLE" /\ n.fn = cur[h]
      /\ gpu[h] \in Parked =>
           /\ n.fn = f /\ n.st \in {"SHUTDOWN", "LOAD", "INIT"}
           /\ n.st = "SHUTDOWN" => s = "SHUTDOWN"
           /\ n.st = "INIT" => vf[f][h] # "SAVE"
  BY <1>2, NextCases
<1> HIDE DEF n
<1>5. Quiet' /\ Jobs'
  BY <1>1, <1>2, <1>3 DEF WInv, Quiet, Jobs
<1>7. SavedAgrees'
  <2> SUFFICES ASSUME NEW k \in HwSched \ torn, gpu'[k] = "SAVE"
               PROVE  \/ vf'[cur'[k]][k] = "SAVE"
                      \/ call.job = "flr" /\ s = "SHUTDOWN" /\ k \notin call.rest
    BY <1>1, <1>2 DEF SavedAgrees
  <2>1. CASE k = h
    BY <1>2, <1>3, <2>1 DEF Recorded
  <2>2. CASE k # h
    <3>1. cur[k] \in Func
      BY DEF TypeOK
    <3> QED BY <1>1, <1>3, <2>2, <3>1 DEF WInv, SavedAgrees
  <2> QED BY <2>1, <2>2
<1>8. FlrRecords'
  <2> SUFFICES ASSUME call.job = "flr", sched[f] = "ACTIVE",
                      NEW k \in HwSched \ call.rest
               PROVE  /\ cur'[k] = f \/ gpu'[k] \in Parked
                      /\ gpu'[k] = "SAVE" => vf'[f][k] = "SAVE"
                      /\ gpu'[k] = "SHUTDOWN" => vf'[f][k] \in Parked
    BY <1>1, <1>3 DEF FlrRecords
  <2>1. /\ cur[k] = f \/ gpu[k] \in Parked
        /\ gpu[k] = "SAVE" => vf[f][k] = "SAVE"
        /\ gpu[k] = "SHUTDOWN" => vf[f][k] \in Parked
    BY <1>1 DEF WInv, FlrRecords
  <2>2. CASE k # h
    BY <1>2, <1>3, <2>1, <2>2
  <2>3. CASE k = h
    <3>1. n.fn = f
      BY <1>2, <1>4, <2>1, <2>3 DEF GpuState, Parked
    <3>2. n.st = "SAVE" => vf'[f][h] = "SAVE"
      BY <1>2, <1>3, <3>1 DEF Recorded
    <3>3. n.st = "SHUTDOWN" => gpu[h] \in Parked
      BY <1>2, <1>4 DEF GpuState, Parked
    <3>4. n.st = "SHUTDOWN" => vf'[f][h] \in Parked
      BY <1>2, <1>3, <2>1, <2>3, <3>1, <3>3 DEF Parked
    <3> QED BY <1>3, <2>3, <3>1, <3>2, <3>4
  <2> QED BY <2>2, <2>3
<1>9. Budget'
  <2>1. PICK r \in 0 .. 8 : Pays(r)
    BY <1>1 DEF WInv, Budget
  <2>2. ASSUME NEW k \in call.todo
        PROVE  Rank(Last(k)', f, s, SavedThere(k)') = Rank(Last(k), f, s, SavedThere(k))
    <3>1. CASE k = h
      <4>1. [st |-> n.st, fn |-> n.fn] = n
        BY <1>2 DEF Step
      <4>2. Last(k)' = n /\ Last(k) = n
        BY <1>1, <1>2, <1>3, <3>1, <4>1 DEF Last
      <4>3. CASE n.fn # f \/ Recorded(n.st)
        <5>1. SavedThere(k)' <=> SavedThere(k)
          BY <1>1, <1>2, <1>3, <3>1, <4>3 DEF SavedThere
        <5>2. SavedThere(k)' \in BOOLEAN /\ SavedThere(k) \in BOOLEAN
          BY DEF SavedThere
        <5> QED BY <4>2, <5>1, <5>2
      <4>4. CASE n.fn = f /\ ~Recorded(n.st)
        <5>1. n = [st |-> s, fn |-> f]
          BY <1>2, <1>4, <4>1, <4>4 DEF Recorded, GpuState, Parked
        <5> QED BY <4>2, <5>1 DEF Rank
      <4> QED BY <4>3, <4>4
    <3>2. CASE k # h
      <4>1. k \in HwSched
        BY DEF TypeOK, Call
      <4>2. Last(k)' = Last(k)
        BY <1>1, <1>3, <3>2, <4>1 DEF Last
      <4>3. SavedThere(k)' = SavedThere(k)
        BY <1>1, <1>2, <1>3, <3>2, <4>1 DEF SavedThere
      <4> QED BY <4>2, <4>3
    <3> QED BY <3>1, <3>2
  <2>3. Pays(r)'
    BY <1>1, <2>1, <2>2 DEF Pays, Left
  <2> QED BY <2>3 DEF Budget
<1> QED BY <1>5, <1>7, <1>8, <1>9 DEF WInv

\* Engines that time out leave the call, and the budget with them.
LEMMA TimeoutWalk ==
  ASSUME IInv, WInv, Timeout
  PROVE  WInv'
<1> USE DEF IInv
<1>1. /\ call'.pc = "loop" /\ call'.todo = call.todo \ call.waiting
      /\ call'.waiting = {} /\ call'.rest = call.rest /\ call'.kind = call.kind
      /\ call'.fn = call.fn /\ call'.st = call.st /\ call'.job = call.job
      /\ call'.loops = call.loops
      /\ UNCHANGED <<gpu, cur, vf, sched, torn>> /\ call.pc = "wait"
  BY DEF Timeout, TypeOK, Call
<1>2. Quiet' /\ Jobs' /\ SavedAgrees' /\ FlrRecords'
  BY <1>1 DEF WInv, Quiet, Jobs, SavedAgrees, FlrRecords
<1>3. Budget'
  <2>1. PICK r \in 0 .. 8 : Pays(r)
    BY <1>1 DEF WInv, Budget
  <2>2. \A k \in call'.todo : k \in call.todo /\ Left(k)' = Left(k)
    BY <1>1 DEF Last, SavedThere, Left
  <2> DEFINE a == Cardinality(call'.todo)
             b == Cardinality(call.todo)
  <2>3. a \in Nat /\ b \in Nat /\ a <= b
    <3>1. call.todo \subseteq HwSched /\ call'.todo \subseteq call.todo
      BY <1>1 DEF TypeOK, Call
    <3>2. IsFiniteSet(call.todo)
      BY <3>1, EnginesFinite
    <3>3. Cardinality(call'.todo) <= Cardinality(call.todo)
      BY <3>1, <3>2, FS_Subset
    <3> QED BY <3>1, <3>3, EnginesFinite
  <2>4. r * b <= call.loops /\ call.loops \in Int
    BY <2>1 DEF Pays, TypeOK, Call
  <2> HIDE DEF a, b
  <2>5. r * a <= r * b /\ r * a \in Int /\ r * b \in Int
    BY <2>3
  <2>6. r * a <= call.loops
    BY <2>4, <2>5
  <2>7. Pays(r)'
    BY <1>1, <2>1, <2>2, <2>6 DEF Pays, a
  <2> QED BY <2>7 DEF Budget
<1> QED BY <1>2, <1>3 DEF WInv

\* What follows a call: nothing, the next engine of an FLR, the legacy
\* sequence's final save, or the GPU reset after a failure.
LEMMA ReturnWalk ==
  ASSUME IInv, WInv, Return, TypeOK'
  PROVE  WInv'
<1> USE DEF IInv
<1> DEFINE ok == Going = {} /\ call.bad = {}
           f == call.fn
<1>1. /\ call' = AfterCall(ok) /\ UNCHANGED <<gpu, cur, vf, sched, torn>>
      /\ call.pc = "loop" /\ f \in Func
  BY DEF Return, TypeOK, Call
<1>2. ok => \A h \in call.mask : gpu[h] = call.st /\ cur[h] = f
  BY <1>1 DEF Arrivals, Going, Arrived
<1>3. CASE call' = NoCall
  <2>1. call'.pc = "idle" /\ call'.waiting = {}
    BY <1>3 DEF NoCall
  <2>3. SavedAgrees'
    <3>1. CASE call.job # "flr" \/ call.st # "SHUTDOWN"
      BY <1>1, <3>1 DEF WInv, SavedAgrees
    <3>2. CASE call.job = "flr" /\ call.st = "SHUTDOWN"
      <4>1. AfterCall(ok).pc = "idle"
        BY <1>1, <2>1
      <4>2. ok /\ call.rest = {}
        BY <3>2, <4>1 DEF AfterCall, GotoCall, NoCall
      <4>3. \A h \in HwSched : gpu[h] = "SHUTDOWN"
        BY <1>1, <1>2, <3>2, <4>2 DEF FlrProgress
      <4> QED BY <1>1, <4>3 DEF SavedAgrees
    <3> QED BY <3>1, <3>2
  <2> QED BY <2>1, <2>3 DEF WInv, Quiet, Jobs, FlrRecords, Budget
<1>4. CASE call' # NoCall
  <2>0. call.job = "flr"
    BY <1>1, <1>4 DEF AfterCall
  <2>1. CASE ~ok
    <3>1. call' = [NoCall EXCEPT !.pc = "reset", !.job = "flr", !.fn = f,
                                 !.rest = call.rest]
      BY <1>1, <2>0, <2>1 DEF AfterCall
    <3>2. /\ call'.pc = "reset" /\ call'.job = "flr" /\ call'.fn = f
          /\ call'.st = "SHUTDOWN" /\ call'.waiting = {} /\ call'.rest = call.rest
      BY <3>1 DEF NoCall
    <3>4. SavedAgrees'
      BY <1>1, <2>0, <3>2 DEF WInv, SavedAgrees
    <3> QED BY <3>2, <3>4 DEF WInv, Quiet, Jobs, FlrRecords, Budget
  <2>2. CASE ok /\ call.rest # {}
    <3>1. call' = [NoCall EXCEPT !.pc = "flr", !.job = "flr", !.fn = f,
                                 !.rest = call.rest]
      BY <1>1, <2>0, <2>2 DEF AfterCall
    <3>2. /\ call'.pc = "flr" /\ call'.job = "flr" /\ call'.fn = f
          /\ call'.st = "SHUTDOWN" /\ call'.waiting = {}
          /\ call'.rest = call.rest
      BY <3>1 DEF NoCall
    <3>4. SavedAgrees' /\ FlrRecords'
      BY <1>1, <2>0, <3>2 DEF WInv, SavedAgrees, FlrRecords
    <3> QED BY <3>2, <3>4 DEF WInv, Quiet, Jobs, Budget
  <2>3. CASE ok /\ call.rest = {}
    <3>1. /\ LegacyFlr /\ call.st = "SHUTDOWN"
          /\ call' = GotoCall("bulk", "flr", HwSched, f, "SAVE", {})
      BY <1>1, <1>4, <2>0, <2>3, LegacyFlrAssumption DEF AfterCall
    <3>2. /\ call'.pc = "loop" /\ call'.job = "flr" /\ call'.fn = f
          /\ call'.st = "SAVE" /\ call'.waiting = {} /\ call'.rest = {}
      BY <3>1 DEF GotoCall
    <3>4. \A h \in HwSched : gpu[h] = "SHUTDOWN"
      BY <1>1, <1>2, <2>0, <2>3, <3>1 DEF FlrProgress
    <3>5. SavedAgrees' /\ FlrRecords'
      BY <1>1, <2>0, <2>3, <3>2, <3>4 DEF WInv, SavedAgrees, FlrRecords
    <3>6. Budget'
      BY <1>1, <3>1, FreshBudget DEF Target
    <3> QED BY <3>2, <3>5, <3>6 DEF WInv, Quiet, Jobs, Target
  <2> QED BY <2>1, <2>2, <2>3
<1> QED BY <1>3, <1>4

\* An FLR's visit to one engine.
LEMMA FlrEngineWalk ==
  ASSUME IInv, WInv, TypeOK', NEW h \in HwSched, FlrEngine(h)
  PROVE  WInv'
<1> USE DEF IInv
<1> DEFINE f == call.fn
<1>1. /\ call.pc = "flr" /\ call.job = "flr" /\ h \in call.rest /\ f \in Func
      /\ sched' = sched /\ cur' = cur /\ torn \subseteq torn'
  BY DEF FlrEngine, FlrProgress, TypeOK, Call
<1>2. /\ call'.pc = "loop" /\ call'.job = "flr" /\ call'.fn = f
      /\ call'.st = "SHUTDOWN" /\ call'.waiting = {} /\ call'.rest = call.rest \ {h}
  BY DEF FlrEngine, GotoCall
<1>3. /\ \A k \in HwSched : gpu'[k] = IF k = h THEN "SAVE" ELSE gpu[k]
      /\ \A g \in Func, k \in HwSched :
           vf'[g][k] = IF k = h /\ sched[g] = "ACTIVE" THEN "SAVE" ELSE vf[g][k]
  BY DEF FlrEngine, TypeOK
<1>4. Quiet' /\ Jobs'
  BY <1>2 DEF Quiet, Jobs, Target
<1>5. SavedAgrees'
  <2> SUFFICES ASSUME NEW k \in HwSched \ torn', gpu'[k] = "SAVE", k \in call'.rest
               PROVE  vf'[cur'[k]][k] = "SAVE"
    BY <1>2 DEF SavedAgrees
  <2>1. k # h /\ k \in call.rest /\ k \in HwSched \ torn /\ cur[k] \in Func
    BY <1>1, <1>2 DEF TypeOK
  <2>2. gpu[k] = "SAVE" => vf[cur[k]][k] = "SAVE"
    BY <2>1 DEF WInv, SavedAgrees
  <2> QED BY <1>1, <1>3, <2>1, <2>2
<1>6. FlrRecords'
  BY <1>1, <1>2, <1>3 DEF WInv, FlrRecords, Parked
<1>7. Budget'
  BY <1>1, FreshBudget DEF FlrEngine, Target
<1> QED BY <1>4, <1>5, <1>6, <1>7 DEF WInv

\* A running function is idled first when its engine is to be run.
LEMMA SingleRunWalk ==
  ASSUME IInv, WInv, TypeOK', NEW h \in HwSched, NEW f \in Func, SingleRun(h, f)
  PROVE  WInv'
<1> USE DEF IInv
<1> DEFINE c == GotoCall("single", "run", {h}, f, "RUN", {})
<1>1. call.pc = "idle" /\ UNCHANGED <<gpu, cur, vf, sched, torn>>
  BY DEF SingleRun
<1>2. CASE gpu[h] # "RUN"
  BY <1>1, <1>2, BeginWalk DEF SingleRun, Target
<1>3. CASE gpu[h] = "RUN"
  <2>1. call' = [c EXCEPT !.pc = "wait", !.waiting = {h},
                          !.next[h] = [st |-> "IDLE", fn |-> cur[h]]]
    BY <1>3 DEF SingleRun
  <2>2. c \in Call
    BY GotoCallType DEF GpuState
  <2>2b. c.loops = 20
    BY DEF GotoCall, LOOP_OKAY
  <2>2c. /\ c.job = "run" /\ c.kind = "single" /\ c.todo = {h}
        /\ c.fn = f /\ c.st = "RUN"
    BY DEF GotoCall
  <2> HIDE DEF c
  <2>3. /\ call'.pc = "wait" /\ call'.job = "run" /\ call'.kind = "single"
        /\ call'.todo = {h} /\ call'.waiting = {h} /\ call'.fn = f
        /\ call'.st = "RUN" /\ call'.next[h] = [st |-> "IDLE", fn |-> cur[h]]
        /\ call'.loops = 20
    BY <2>1, <2>2, <2>2b, <2>2c DEF Call
  <2>4. Quiet' /\ Jobs'
    BY <2>3 DEF Quiet, Jobs, Target
  <2>5. SavedAgrees' /\ FlrRecords'
    BY <1>1, <2>3 DEF WInv, SavedAgrees, FlrRecords
  <2>6. Budget'
    <3>1. Last(h)' \in Step
      BY <2>3 DEF Last, Step, GpuState, TypeOK
    <3>1a. SavedThere(h)' \in BOOLEAN
      BY DEF SavedThere
    <3>2. Left(h)' <= 8
      BY <2>3, <3>1, <3>1a, RankRange DEF Left, Target
    <3>3. 8 * Cardinality({h}) <= 20
      BY FS_Singleton
    <3> QED BY <2>3, <3>2, <3>3 DEF Budget, Pays
  <2> QED BY <2>4, <2>5, <2>6 DEF WInv
<1> QED BY <1>2, <1>3

\* Every step keeps the walk's invariant.
LEMMA WInvStep == IInv /\ WInv /\ [Next]_vars => WInv'
<1> SUFFICES ASSUME IInv, WInv, [Next]_vars PROVE WInv'
  OBVIOUS
<1>0. TypeOK'
  BY TypeStep DEF IInv
<1>1. ASSUME NEW f \in Func, NEW skip \in BOOLEAN, BulkRun(f, skip) PROVE WInv'
  <2>1. CASE skip
    BY <1>0, <1>1, <2>1, BeginWalk DEF BulkRun, Target
  <2>2. CASE ~skip
    BY <1>0, <1>1, <2>2, BeginWalk DEF BulkRun, Target
  <2> QED BY <2>1, <2>2
<1>2. ASSUME NEW f \in Func, BulkPause(f) PROVE WInv'
  BY <1>0, <1>2, BeginWalk DEF BulkPause, Target
<1>2a. ASSUME NEW f \in Func, BulkIdle(f) PROVE WInv'
  BY <1>0, <1>2a, BeginWalk DEF BulkIdle, Target
<1>3. ASSUME NEW f \in Func, BulkShutdown(f) PROVE WInv'
  BY <1>0, <1>3, BeginWalk DEF BulkShutdown, Target
<1>4. ASSUME NEW f \in Func, NEW h \in HwSched, SingleRun(h, f) PROVE WInv'
  BY <1>0, <1>4, SingleRunWalk
<1>5. ASSUME NEW f \in Func, NEW h \in HwSched, SinglePause(h, f) PROVE WInv'
  BY <1>0, <1>5, BeginWalk DEF SinglePause, Target
<1>6. CASE Issue
  BY <1>6, IssueWalk
<1>7. ASSUME NEW h \in HwSched, Done(h) PROVE WInv'
  BY <1>7, DoneWalk
<1>8. CASE Timeout
  BY <1>8, TimeoutWalk
<1>9. CASE Return
  BY <1>0, <1>9, ReturnWalk
<1>10. ASSUME NEW f \in Func, FlrStart(f) PROVE WInv'
  <2>1. /\ call'.pc = "flr" /\ call'.fn = f /\ call'.rest = HwSched
        /\ call'.waiting = {}
    BY <1>10 DEF FlrStart, NoCall
  <2>2. call.pc = "idle" /\ UNCHANGED <<gpu, cur, vf, sched, torn>>
    BY <1>10 DEF FlrStart
  <2> QED BY <2>1, <2>2
          DEF WInv, Quiet, Jobs, SavedAgrees, FlrRecords, Budget
<1>11. CASE FlrFail
  <2>1. /\ call'.pc = "reset" /\ call'.job = call.job /\ call'.fn = call.fn
        /\ call'.st = call.st /\ call'.waiting = call.waiting /\ call'.rest = call.rest
        /\ UNCHANGED <<gpu, cur, vf, sched, torn>> /\ call.pc = "flr"
    BY <1>11 DEF FlrFail, IInv, TypeOK, Call
  <2> QED BY <2>1 DEF WInv, Quiet, Jobs, SavedAgrees, FlrRecords, Budget
<1>12. ASSUME NEW h \in HwSched, FlrEngine(h) PROVE WInv'
  BY <1>0, <1>12, FlrEngineWalk
<1>13. CASE GpuReset
  <2>1. call'.pc = "idle" /\ call'.waiting = {}
    BY <1>13 DEF GpuReset, NoCall
  <2>2. \A h \in HwSched : gpu'[h] = "SHUTDOWN"
    BY <1>13 DEF GpuReset
  <2> QED BY <2>1, <2>2
          DEF WInv, Quiet, Jobs, SavedAgrees, FlrRecords, Budget
<1>13a. CASE GpuResetRefused
  <2>1. call'.pc = "idle" /\ call'.waiting = {}
    BY <1>13a DEF GpuResetRefused, NoCall
  <2>2. UNCHANGED <<gpu, cur, vf>> /\ HwSched \ torn' \subseteq call.rest \ torn
    BY <1>13a DEF GpuResetRefused
  <2>3. SavedAgrees'
    BY <2>2 DEF WInv, SavedAgrees
  <2> QED BY <2>1, <2>3 DEF WInv, Quiet, Jobs, FlrRecords, Budget
<1>13b. CASE EnterPowerSaving
  <2>1. call' = call /\ call.pc = "idle" /\ \A h \in HwSched : gpu'[h] = "SHUTDOWN"
    BY <1>13b DEF EnterPowerSaving
  <2> QED BY <2>1 DEF WInv, Quiet, Jobs, SavedAgrees, FlrRecords, Budget
<1>14. ASSUME NEW f \in Func, Activate(f) \/ Suspend(f) \/ SetAvail(f) PROVE WInv'
  <2>1. call.pc = "idle" /\ UNCHANGED <<gpu, cur, vf, call, torn>>
    BY <1>14 DEF Activate, Suspend, SetAvail
  <2> QED BY <2>1 DEF WInv, Quiet, Jobs, SavedAgrees, FlrRecords, Budget
<1>15. CASE UNCHANGED vars
  <2>1. UNCHANGED <<gpu, cur, vf, sched, call, torn>>
    BY <1>15 DEF vars
  <2> QED BY <2>1 DEF WInv, Quiet, Jobs, SavedAgrees, FlrRecords, Budget,
                      Pays, Left, Last, SavedThere
<1> QED
  BY <1>1, <1>2, <1>2a, <1>3, <1>4, <1>5, <1>6, <1>7, <1>8, <1>9, <1>10, <1>11,
     <1>12, <1>13, <1>13a, <1>13b, <1>14, <1>15 DEF Next, Work

LEMMA WInvAlways == Spec => [](IInv /\ WInv)
<1>1. Init => WInv
  BY DEF Init, NoCall, WInv, Quiet, Jobs, SavedAgrees, FlrRecords, Budget
<1>2. IInv /\ WInv /\ [Next]_vars => IInv' /\ WInv'
  BY IInvStep, WInvStep
<1> QED BY <1>1, <1>2, IInvInit, PTL DEF Spec

-----------------------------------------------------------------------------
(* The theorems.                                                           *)

\* Every command amdgv_ws_state.c sends is one check_state_transition accepts
\* for the recorded state of its function, with either FLR sequence and
\* whatever state the handlers gave the functions, except in the FLR of a
\* function that is not active, for a second shutdown of a suspended one, and
\* on an engine torn by such an FLR.
THEOREM CommandsLegal == Spec => []LegalOutsideFlr
<1>1. IInv /\ WInv => LegalOutsideFlr
  <2> DEFINE Ok(h, n) == \/ vf[n.fn][h] \in LegalFrom(n.st)
                         \/ InFlr(n.fn) /\ sched[n.fn] # "ACTIVE"
                         \/ /\ sched[n.fn] = "SUSPEND" /\ n.st = "SHUTDOWN"
                            /\ vf[n.fn][h] = "SHUTDOWN"
  <2> SUFFICES ASSUME IInv, WInv, call.pc = "wait", NEW h \in call.waiting \ torn
               PROVE  Ok(h, call.next[h])
    BY DEF LegalOutsideFlr
  <2> USE DEF IInv
  <2> DEFINE f == call.fn
             s == call.st
             n == NextState(h, f, s)
  <2>1. /\ h \in HwSched \ torn /\ f \in Func /\ s \in GpuState /\ h \in call.todo
        /\ call.next[h] = n /\ n \in Step
        /\ gpu[h] \in GpuState /\ cur[h] \in Func
    BY NextStateType DEF TypeOK, Call, Pending
  <2>2. CASE gpu[h] \notin Parked
    <3>1. vf[cur[h]][h] = gpu[h]
      BY <2>1, <2>2 DEF Tracked, Matched, Loose, Parked
    <3>2. CASE gpu[h] = "IDLE"
      <4>1. n.st = "SAVE" /\ n.fn = cur[h]
        BY <2>1, <3>2, NextCases
      <4> QED BY <2>1, <3>1, <3>2, <4>1 DEF LegalFrom
    <3>3. CASE gpu[h] \in {"LOAD", "INIT"}
      <4>1. n.st = "RUN" /\ n.fn = cur[h]
        BY <2>1, <3>3, NextCases
      <4> QED BY <2>1, <3>1, <3>3, <4>1 DEF LegalFrom
    <3>4. CASE gpu[h] = "RUN"
      <4>1. n.st = "IDLE" /\ n.fn = cur[h]
        BY <2>1, <3>4, NextCases
      <4> QED BY <2>1, <3>1, <3>4, <4>1 DEF LegalFrom
    <3> QED BY <2>1, <2>2, <3>2, <3>3, <3>4 DEF GpuState, Parked
  <2>3. CASE gpu[h] \in Parked /\ ~(InFlr(f) /\ sched[f] # "ACTIVE")
    <3>1. /\ n.fn = f
          /\ n.st \in {"SHUTDOWN", "LOAD", "INIT"}
          /\ n.st = "SHUTDOWN" =>
               /\ s = "SHUTDOWN"
               /\ \/ vf[f][h] = "SAVE" /\ cur[h] # f
                  \/ gpu[h] = "SAVE" /\ (cur[h] = f \/ sched[f] = "SUSPEND")
          /\ n.st = "LOAD" => vf[f][h] = "SAVE"
          /\ n.st = "INIT" => vf[f][h] # "SAVE"
      BY <2>1, <2>3, NextCases
    <3> HIDE DEF n
    <3>2. vf[f][h] \in Parked
      <4>1. CASE ~InFlr(f)
        BY <2>1, <2>3, <4>1, ParkedRecord
      <4>2. CASE InFlr(f)
        <5>1. call.job = "flr" /\ sched[f] = "ACTIVE" /\ h \notin call.rest
          BY <2>1, <2>3, <4>2 DEF InFlr, FlrProgress
        <5> QED BY <2>1, <2>3, <5>1 DEF WInv, FlrRecords, Parked
      <4> QED BY <4>1, <4>2
    <3>3. CASE n.st = "LOAD"
      BY <2>1, <3>1, <3>3 DEF LegalFrom
    <3>4. CASE n.st = "INIT"
      BY <2>1, <3>1, <3>2, <3>4 DEF LegalFrom, Parked
    <3>5. CASE n.st = "SHUTDOWN"
      <4>1. \/ vf[f][h] = "SAVE"
            \/ sched[f] = "SUSPEND" /\ vf[f][h] = "SHUTDOWN"
        <5>1. CASE gpu[h] = "SAVE" /\ cur[h] = f
          <6>1. CASE InFlr(f)
            <7>1. call.job = "flr" /\ sched[f] = "ACTIVE" /\ h \notin call.rest
              BY <2>1, <2>3, <6>1 DEF InFlr, FlrProgress
            <7> QED BY <2>1, <5>1, <7>1 DEF WInv, FlrRecords
          <6>2. CASE ~InFlr(f)
            BY <2>1, <5>1, <6>2 DEF WInv, SavedAgrees, InFlr
          <6> QED BY <6>1, <6>2
        <5>2. CASE sched[f] = "SUSPEND" /\ cur[h] # f
          BY <3>2, <5>2 DEF Parked
        <5> QED BY <3>1, <3>5, <5>1, <5>2
      <4> QED BY <2>1, <3>1, <3>5, <4>1 DEF LegalFrom
    <3> QED BY <3>1, <3>3, <3>4, <3>5
  <2>4. CASE gpu[h] \in Parked /\ InFlr(f) /\ sched[f] # "ACTIVE"
    <3>1. n.fn = f
      BY <2>1, <2>4, NextCases
    <3> QED BY <2>1, <2>4, <3>1
  <2> QED BY <2>2, <2>3, <2>4
<1> QED BY <1>1, WInvAlways, PTL

\* For any number of engines, any of them timing out at any point, loop_okay
\* is enough for every walk: the "Potential Infinite loop" exits of the two
\* goto_state functions are never taken.
THEOREM LoopOkayEnough == Spec => []NoInfiniteLoop
<1>1. IInv /\ WInv => NoInfiniteLoop
  <2> SUFFICES ASSUME IInv, WInv, call.pc = "loop"
               PROVE  Cardinality(Going) <= call.loops
    BY DEF NoInfiniteLoop
  <2> USE DEF IInv
  <2>1. PICK r \in 0 .. 8 : Pays(r)
    BY DEF WInv, Budget
  <2>2. /\ call.fn \in Func /\ call.st \in Target
        /\ call.waiting = {} /\ call.todo \subseteq HwSched
        /\ Going \subseteq call.todo /\ call.loops \in Int
    BY DEF WInv, Jobs, Quiet, TypeOK, Call, Going
  <2> DEFINE a == Cardinality(Going)
             b == Cardinality(call.todo)
  <2>3. a \in Nat /\ b \in Nat /\ a <= b
    <3>1. IsFiniteSet(call.todo)
      BY <2>2, EnginesFinite
    <3>2. Cardinality(Going) <= Cardinality(call.todo)
      BY <2>2, <3>1, FS_Subset
    <3> QED BY <2>2, <3>2, EnginesFinite
  <2>4. r * b <= call.loops
    BY <2>1 DEF Pays
  <2>5. CASE Going = {}
    <3>1. a = 0
      BY <2>5, FS_EmptySet
    <3> HIDE DEF a, b
    <3>2. r * b >= 0 /\ r * b \in Int
      BY <2>3
    <3> QED BY <2>2, <2>4, <3>1, <3>2 DEF a
  <2>6. CASE Going # {}
    <3>1. PICK h \in Going : TRUE
      BY <2>6
    <3>2. Last(h) = [st |-> gpu[h], fn |-> cur[h]] /\ Last(h) \in Step
            /\ ~(gpu[h] = call.st /\ cur[h] = call.fn) /\ h \in call.todo
            /\ SavedThere(h) \in BOOLEAN
      BY <2>2, <3>1 DEF Last, SavedThere, Step, TypeOK, Going, Arrived
    <3>3. Left(h) \in 1 .. 8
      <4>1. Left(h) \in 0 .. 8 /\ Left(h) # 0
        BY <2>2, <3>2, RankRange DEF Left
      <4> QED BY <4>1
    <3>4. 1 <= r
      BY <2>1, <3>2, <3>3 DEF Pays
    <3> HIDE DEF a, b
    <3>5. b <= r * b /\ r * b \in Int
      BY <2>3, <3>4
    <3> QED BY <2>2, <2>3, <2>4, <3>5 DEF a
  <2> QED BY <2>5, <2>6
<1> QED BY <1>1, WInvAlways, PTL

=============================================================================
