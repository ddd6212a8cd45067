------------------------------ MODULE WsState ------------------------------
(***************************************************************************)
(* The world-switch state machine of libgv for engines in MANUAL mode      *)
(* (libgv/core/amdgv_ws_state.c).  Every hardware scheduler (a GPUIOV      *)
(* control block) holds the context of at most one PCI function.  To bring *)
(* an engine to a (function, state) pair the driver walks a fixed graph of *)
(* firmware commands, waiting for each one; a command may time out.  The   *)
(* driver keeps two records of the same fact: the engine's state and       *)
(* function (hw_state_machine[h].cur_gpu_state, cur_vf_id) and, for each   *)
(* function, the state of its context on that engine                       *)
(* (array_vf[f].cur_vf_state[h]).                                          *)
(*                                                                         *)
(* One caller runs at a time: callers hold the world switch's              *)
(* switching_lock or have stopped the world switch first.  That            *)
(* assumption is what module WorldSwitch checks.                           *)
(***************************************************************************)
EXTENDS Integers, FiniteSets

CONSTANTS
  NumVf,      \* number of virtual functions
  HwSched,    \* the hardware schedulers of one logical world switch
  LegacyFlr   \* AMDGV_FLAG_USE_LEGACY_FLR_SEQUENCE

ASSUME NumVfAssumption == NumVf \in 1..31
ASSUME HwSchedAssumption == HwSched # {} /\ IsFiniteSet(HwSched)
ASSUME LegacyFlrAssumption == LegacyFlr \in BOOLEAN

PF == 31                          \* AMDGV_PF_IDX
Func == (0 .. NumVf - 1) \cup {PF}

\* The firmware commands; a state is named after the command that reached it.
GpuState == {"IDLE", "SAVE", "LOAD", "INIT", "RUN", "SHUTDOWN"}
\* States in which a function has no context on the engine.
Parked == {"SAVE", "SHUTDOWN"}
SchedState == {"AVAIL", "ACTIVE", "SUSPEND"}

LOOP_OKAY == 20

VARIABLES
  gpu,     \* hw_state_machine[h].cur_gpu_state
  cur,     \* hw_state_machine[h].cur_vf_id
  vf,      \* array_vf[f].cur_vf_state[h]
  sched,   \* array_vf[f].state
  call,    \* the goto_state call in progress
  torn     \* history: engines on which a reset set the engine's record apart
           \* from a live function's, until a whole-GPU reset

vars == <<gpu, cur, vf, sched, call, torn>>

-----------------------------------------------------------------------------
(* One call of a goto_state function, or of the FLR that makes several.    *)

Step == [st : GpuState, fn : Func]

Call == [pc      : {"idle", "loop", "wait", "flr", "reset"},
         kind    : {"bulk", "single"},
         job     : {"run", "skip_run", "pause", "shutdown", "flr"},
         fn      : Func,                 \* target_vf
         st      : GpuState,             \* target_state
         mask    : SUBSET HwSched,       \* initial_hw_sched_mask
         todo    : SUBSET HwSched,       \* hw_sched_mask
         waiting : SUBSET HwSched,       \* wait_hw_sched_mask
         bad     : SUBSET HwSched,       \* bad_hw_sched_mask
         rest    : SUBSET HwSched,       \* engines an FLR has still to visit
         next    : [HwSched -> Step],    \* next_state[], next_vf[]
         loops   : Int]                  \* loop_okay

NoCall == [pc |-> "idle", kind |-> "single", job |-> "run", fn |-> PF,
           st |-> "SHUTDOWN", mask |-> {}, todo |-> {},
           waiting |-> {}, bad |-> {}, rest |-> {},
           next |-> [h \in HwSched |-> [st |-> "SHUTDOWN", fn |-> PF]],
           loops |-> 0]

\* A call about to enter its loop.
GotoCall(kind, job, mask, f, s, rest) ==
  [pc |-> "loop", kind |-> kind, job |-> job, fn |-> f, st |-> s,
   mask |-> mask, todo |-> mask, waiting |-> {}, bad |-> {}, rest |-> rest,
   next |-> NoCall.next,
   loops |-> LOOP_OKAY * IF kind = "bulk" THEN Cardinality(HwSched) ELSE 1]

-----------------------------------------------------------------------------
(* The graph of commands.                                                  *)

\* Mutant of FromParked: loads a context whatever its record says.
FromParkedAlwaysLoad(h, f, s) == [fn |-> f, st |-> "LOAD"]

\* The command that takes engine h from a parked state towards function f.
FromParked(h, f, s) ==
  [fn |-> f,
   st |-> CASE vf[f][h] = "SAVE" /\ s = "SHUTDOWN" /\ cur[h] # f -> "SHUTDOWN"
            [] vf[f][h] = "SAVE" /\ ~(s = "SHUTDOWN" /\ cur[h] # f) -> "LOAD"
            [] OTHER -> "INIT"]

\* Mutant of NextState: an idle engine runs again and is never saved.
NextStateIdleRuns(h, f, s) ==
  CASE gpu[h] \in {"IDLE", "LOAD", "INIT"} -> [st |-> "RUN",  fn |-> cur[h]]
    [] gpu[h] = "RUN"                      -> [st |-> "IDLE", fn |-> cur[h]]
    [] OTHER                               -> FromParked(h, f, s)

\* world_switch_get_next_state: the next command on engine h, and the
\* function it is for, on the way to state s of function f.
NextState(h, f, s) ==
  CASE gpu[h] = "IDLE"            -> [st |-> "SAVE", fn |-> cur[h]]
    [] gpu[h] \in {"LOAD","INIT"} -> [st |-> "RUN",  fn |-> cur[h]]
    [] gpu[h] = "RUN"             -> [st |-> "IDLE", fn |-> cur[h]]
    [] gpu[h] = "SAVE" /\ s = "SHUTDOWN"
         /\ (cur[h] = f \/ sched[f] = "SUSPEND") -> [st |-> "SHUTDOWN", fn |-> f]
    [] OTHER                      -> FromParked(h, f, s)

\* check_state_transition: the states from which a command is legal for the
\* function it addresses.
LegalFrom(s) ==
  CASE s = "INIT"     -> {"SHUTDOWN"}
    [] s = "RUN"      -> {"INIT", "LOAD"}
    [] s = "IDLE"     -> {"RUN"}
    [] s = "LOAD"     -> {"SAVE"}
    [] s = "SAVE"     -> {"IDLE"}
    [] s = "SHUTDOWN" -> {"SAVE"}

-----------------------------------------------------------------------------
(* The entry points.                                                       *)

\* amdgv_hw_sched_init: every engine and every context is shut down.
Init ==
  /\ gpu = [h \in HwSched |-> "SHUTDOWN"]
  /\ cur = [h \in HwSched |-> 0]
  /\ vf = [f \in Func |-> [h \in HwSched |-> "SHUTDOWN"]]
  /\ sched = [f \in Func |-> "AVAIL"]
  /\ call = NoCall
  /\ torn = {}

\* amdgv_logical_sched_state_run.  An orphaned VF is only loaded: skip_run is
\* set around the switch to a VF that was just an active one.
BulkRun(f, skip) ==
  /\ call.pc = "idle"
  /\ skip => sched[f] = "ACTIVE"
  /\ call' = GotoCall("bulk", IF skip THEN "skip_run" ELSE "run", HwSched, f,
                      IF skip THEN "LOAD" ELSE "RUN", {})
  /\ UNCHANGED <<gpu, cur, vf, sched, torn>>

\* The same function's first step when it is asked to run what it has loaded
\* already: a BulkRun of f follows.
BulkIdle(f) ==
  /\ call.pc = "idle"
  /\ call' = GotoCall("bulk", "pause", HwSched, f, "IDLE", {})
  /\ UNCHANGED <<gpu, cur, vf, sched, torn>>

\* Mutant of BulkPause: passes on the "no function" index.
BulkPauseInvalid(f) ==
  /\ call.pc = "idle"
  /\ call' = GotoCall("bulk", "pause", HwSched, -1, "SAVE", {})
  /\ UNCHANGED <<gpu, cur, vf, sched, torn>>

\* amdgv_logical_sched_state_pause
BulkPause(f) ==
  /\ call.pc = "idle"
  /\ call' = GotoCall("bulk", "pause", HwSched, f, "SAVE", {})
  /\ UNCHANGED <<gpu, cur, vf, sched, torn>>

\* amdgv_logical_sched_state_shutdown
BulkShutdown(f) ==
  /\ call.pc = "idle"
  /\ call' = GotoCall("bulk", "shutdown", HwSched, f, "SHUTDOWN", {})
  /\ UNCHANGED <<gpu, cur, vf, sched, torn>>

\* amdgv_hw_sched_state_run: one engine; a function that is running is idled
\* first, which is what lets a function switch to itself.
SingleRun(h, f) ==
  /\ call.pc = "idle"
  /\ call' = LET c == GotoCall("single", "run", {h}, f, "RUN", {})
             IN  IF gpu[h] = "RUN"
                 THEN [c EXCEPT !.pc = "wait", !.waiting = {h},
                                !.next[h] = [st |-> "IDLE", fn |-> cur[h]]]
                 ELSE c
  /\ UNCHANGED <<gpu, cur, vf, sched, torn>>

\* amdgv_hw_sched_state_pause
SinglePause(h, f) ==
  /\ call.pc = "idle"
  /\ call' = GotoCall("single", "pause", {h}, f, "SAVE", {})
  /\ UNCHANGED <<gpu, cur, vf, sched, torn>>

-----------------------------------------------------------------------------
(* The loop of world_switch_bulk_goto_state_manual and                     *)
(* world_switch_goto_state_manual.                                         *)

Arrived == {h \in call.todo : gpu[h] = call.st /\ cur[h] = call.fn}
Going == call.todo \ Arrived

\* Choose the next command of every engine that has not arrived and send it.
Issue ==
  /\ call.pc = "loop"
  /\ Going # {}
  /\ Cardinality(Going) <= call.loops
  /\ call' = [call EXCEPT !.pc = "wait", !.todo = Going, !.waiting = Going,
                          !.next = [h \in HwSched |->
                                      IF h \in Going
                                      THEN NextState(h, call.fn, call.st)
                                      ELSE NoCall.next[h]],
                          !.loops = @ - Cardinality(Going)]
  /\ UNCHANGED <<gpu, cur, vf, sched, torn>>

\* The single form goes through amdgv_gpuiov_shutdown_vf, which under the
\* legacy FLR sequence returns before it records the function's new state.
Recorded(s) == ~(call.kind = "single" /\ LegacyFlr /\ s = "SHUTDOWN")

\* The firmware reports engine h's command complete.
Done(h) ==
  /\ call.pc = "wait"
  /\ h \in call.waiting
  /\ LET n == call.next[h] IN
       /\ gpu' = [gpu EXCEPT ![h] = n.st]
       /\ cur' = [cur EXCEPT ![h] = n.fn]
       /\ vf' = IF Recorded(n.st) THEN [vf EXCEPT ![n.fn][h] = n.st] ELSE vf
  /\ call' = [call EXCEPT !.waiting = @ \ {h},
                          !.next[h] = NoCall.next[h],
                          !.pc = IF call.waiting = {h} THEN "loop" ELSE "wait"]
  /\ UNCHANGED <<sched, torn>>

\* Mutant of Timeout: hung engines are dropped and not marked bad.
TimeoutForgetsBad ==
  /\ call.pc = "wait"
  /\ call' = [call EXCEPT !.pc = "loop", !.waiting = {}, !.next = NoCall.next,
                          !.todo = @ \ call.waiting]
  /\ UNCHANGED <<gpu, cur, vf, sched, torn>>

\* The engines still waited for have used up the time allowed: they are out
\* of the call, the others go on.
Timeout ==
  /\ call.pc = "wait"
  /\ call' = [call EXCEPT !.pc = "loop", !.waiting = {},
                          !.next = NoCall.next,
                          !.bad = @ \cup call.waiting,
                          !.todo = @ \ call.waiting]
  /\ UNCHANGED <<gpu, cur, vf, sched, torn>>

\* What the caller of a goto_state does with its result: an FLR goes on to its
\* next engine, to a whole GPU reset if a step failed, and in the legacy
\* sequence to saving the function once more.
AfterCall(ok) ==
  CASE call.job # "flr" -> NoCall
    [] call.job = "flr" /\ ~ok -> [NoCall EXCEPT !.pc = "reset", !.job = "flr",
                                                 !.fn = call.fn,
                                                 !.rest = call.rest]
    [] call.job = "flr" /\ ok /\ call.rest # {} ->
         [NoCall EXCEPT !.pc = "flr", !.job = "flr", !.fn = call.fn,
                        !.rest = call.rest]
    [] call.job = "flr" /\ ok /\ call.rest = {} /\ LegacyFlr
         /\ call.st = "SHUTDOWN" ->
         GotoCall("bulk", "flr", HwSched, call.fn, "SAVE", {})
    [] OTHER -> NoCall

\* The call returns: every engine has arrived or is bad, or the loop has
\* gone on for too long.
Return ==
  /\ call.pc = "loop"
  /\ Going = {} \/ Cardinality(Going) > call.loops
  /\ call' = AfterCall(Going = {} /\ call.bad = {})
  /\ UNCHANGED <<gpu, cur, vf, sched, torn>>

-----------------------------------------------------------------------------
(* Function-level and whole-GPU reset.                                     *)

\* amdgv_sched_world_switch_reset begins.  The callers switch the engines to f
\* first, but handle_orphan_vf ignores that this failed, and enter_full_access
\* that the reset before it did: the engines may be anywhere.
FlrStart(f) ==
  /\ call.pc = "idle"
  /\ call' = [NoCall EXCEPT !.pc = "flr", !.job = "flr", !.fn = f,
                            !.rest = HwSched]
  /\ UNCHANGED <<gpu, cur, vf, sched, torn>>

\* The RLCV state cannot be loaded or the firmware refuses the notification.
FlrFail ==
  /\ call.pc = "flr"
  /\ call.rest = HwSched
  /\ call' = [call EXCEPT !.pc = "reset"]
  /\ UNCHANGED <<gpu, cur, vf, sched, torn>>

\* A function other than f that is live on engine h and would stay recorded
\* so when the engine is said to be saved.
Bystander(h, f) == cur[h] # f /\ gpu[h] \notin Parked /\ sched[cur[h]] # "ACTIVE"

\* The firmware leaves engine h as after a SAVE: the records are made to say
\* so, for active functions only, and the function is shut down on h.
FlrEngine(h) ==
  /\ call.pc = "flr"
  /\ h \in call.rest
  /\ gpu' = [gpu EXCEPT ![h] = "SAVE"]
  /\ vf' = [g \in Func |-> IF sched[g] = "ACTIVE"
                           THEN [vf[g] EXCEPT ![h] = "SAVE"] ELSE vf[g]]
  /\ torn' = IF Bystander(h, call.fn) THEN torn \cup {h} ELSE torn
  /\ call' = GotoCall("single", "flr", {h}, call.fn, "SHUTDOWN",
                      call.rest \ {h})
  /\ UNCHANGED <<cur, sched>>

\* Mutant of GpuReset: the engines' states are not reset.
GpuResetKeepsEngines ==
  /\ call.pc \in {"idle", "reset"}
  /\ vf' = [f \in Func |-> [h \in HwSched |-> "SHUTDOWN"]]
  /\ sched' \in {sched, [f \in Func |-> "AVAIL"]}
  /\ call' = NoCall
  /\ torn' = {}
  /\ UNCHANGED <<gpu, cur>>

\* amdgv_sched_whole_gpu_reset: no context survives; cur_vf_id is kept.  When
\* the reset itself fails the functions keep their scheduling state.
GpuReset ==
  /\ call.pc \in {"idle", "reset"}
  /\ gpu' = [h \in HwSched |-> "SHUTDOWN"]
  /\ vf' = [f \in Func |-> [h \in HwSched |-> "SHUTDOWN"]]
  /\ sched' \in {sched, [f \in Func |-> "AVAIL"]}
  /\ call' = NoCall
  /\ torn' = {}
  /\ UNCHANGED cur

\* amdgv_sched_gpu_reset_wrap refuses: the hive or the GPU is marked bad.  What
\* the FLR has done to the records stays.
GpuResetRefused ==
  /\ call.pc = "reset"
  /\ call' = NoCall
  /\ torn' = torn \cup (HwSched \ call.rest)
  /\ UNCHANGED <<gpu, cur, vf, sched>>

\* amdgv_sched_enter_power_saving: with no VF active the engines are switched to
\* the PF, whether or not that succeeds, and recorded as shut down.
EnterPowerSaving ==
  /\ call.pc = "idle"
  /\ \A f \in Func : sched[f] # "ACTIVE"
  /\ gpu' = [h \in HwSched |-> "SHUTDOWN"]
  /\ vf' = [vf EXCEPT ![PF] = [h \in HwSched |-> "SHUTDOWN"]]
  /\ torn' = torn \cup {h \in HwSched : Bystander(h, PF)}
  /\ UNCHANGED <<cur, sched, call>>

-----------------------------------------------------------------------------
(* The scheduling state of a function, as the event handlers move it.  None *)
(* of them looks at the records: a VF may become active while it runs, be   *)
(* suspended before it is saved, and stay active through its FLR.           *)

Activate(f) ==      \* set_to_active_vf, when a VF gives up full access
  /\ call.pc = "idle" /\ f # PF
  /\ sched' = [sched EXCEPT ![f] = "ACTIVE"]
  /\ UNCHANGED <<gpu, cur, vf, call, torn>>

Suspend(f) ==       \* set_to_suspend_vf
  /\ call.pc = "idle" /\ sched[f] = "ACTIVE"
  /\ sched' = [sched EXCEPT ![f] = "SUSPEND"]
  /\ UNCHANGED <<gpu, cur, vf, call, torn>>

SetAvail(f) ==      \* set_to_avail_vf, set_to_full_access_vf and the like
  /\ call.pc = "idle"
  /\ sched' = [sched EXCEPT ![f] = "AVAIL"]
  /\ UNCHANGED <<gpu, cur, vf, call, torn>>

Work == Issue \/ (\E h \in HwSched : Done(h)) \/ Timeout \/ Return
          \/ FlrFail \/ (\E h \in HwSched : FlrEngine(h))

Next ==
  \/ Work
  \/ \E f \in Func :
       \/ \E skip \in BOOLEAN : BulkRun(f, skip)
       \/ BulkIdle(f) \/ BulkPause(f)
       \/ BulkShutdown(f)
       \/ \E h \in HwSched : SingleRun(h, f) \/ SinglePause(h, f)
       \/ FlrStart(f)
       \/ Activate(f) \/ Suspend(f) \/ SetAvail(f)
  \/ GpuReset \/ GpuResetRefused
  \/ EnterPowerSaving

\* The caller's thread goes on, every command ends within its time allowed,
\* and a reset that is due is done.
Fairness == WF_vars(Work) /\ WF_vars(call.pc = "reset" /\ (GpuReset \/ GpuResetRefused))

Spec == Init /\ [][Next]_vars /\ Fairness

-----------------------------------------------------------------------------
(* Properties.                                                             *)

TypeOK ==
  /\ gpu \in [HwSched -> GpuState]
  /\ cur \in [HwSched -> Func]
  /\ vf \in [Func -> [HwSched -> GpuState]]
  /\ sched \in [Func -> SchedState]
  /\ call \in Call
  /\ torn \subseteq HwSched

\* An FLR of f is under way: its records are being put right.
InFlr(f) == call.pc # "idle" /\ call.job = "flr" /\ call.fn = f

\* No two functions have a live context on one engine, and the function the
\* engine is said to hold is recorded in the same state as the engine, or
\* both are parked.  This is the isolation the two records stand for: no
\* command sequence interrupted by a timeout, an FLR or a GPU reset at any
\* point leaves a second function marked as live.  Only two things do, and no
\* handler prevents them: an FLR (or power saving) that finds its engine live
\* with another, inactive function, and one that fails when the whole-GPU
\* reset is refused.  Even they leave the other engines untouched.
OneLiveContext ==
  \A h \in HwSched \ torn :
    /\ \A g \in Func \ {cur[h]} : vf[g][h] \in Parked
    /\ \/ vf[cur[h]][h] = gpu[h]
       \/ vf[cur[h]][h] \in Parked /\ gpu[h] \in Parked
       \/ InFlr(cur[h]) /\ gpu[h] \in Parked

\* Every command sent is one check_state_transition accepts for the function
\* it addresses, given what is recorded of that function: the walk of
\* world_switch_get_next_state never loads a context that was not saved,
\* initialises one that is live, or saves one that was not idled.  Excepted
\* are the commands of an FLR to a function that is not active (its record is
\* not reset by amdgv_sched_world_switch_reset), the shutdown of a suspended
\* function that has been shut down before, and engines torn as above.
LegalOutsideFlr ==
  call.pc = "wait" =>
    \A h \in call.waiting \ torn :
      LET n == call.next[h] IN
      \/ vf[n.fn][h] \in LegalFrom(n.st)
      \/ InFlr(n.fn) /\ sched[n.fn] # "ACTIVE"
      \/ sched[n.fn] = "SUSPEND" /\ n.st = "SHUTDOWN" /\ vf[n.fn][h] = "SHUTDOWN"

\* A goto_state that reports success has every engine it was asked for at the
\* requested state and function, engines that arrived early included.
SuccessMeansArrived ==
  call.pc = "loop" /\ Going = {} /\ call.bad = {} =>
    \A h \in call.mask : gpu[h] = call.st /\ cur[h] = call.fn

\* loop_okay is never used up: from any state, with any engines timing out on
\* the way, the walk ends before the "Potential Infinite loop" exit.
NoInfiniteLoop == call.pc = "loop" => Cardinality(Going) <= call.loops

=============================================================================
