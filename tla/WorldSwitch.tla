---------------------------- MODULE WorldSwitch -----------------------------
(***************************************************************************)
(* The manual world switch of libgv and the event thread that governs it.  *)
(*                                                                         *)
(* A world switch shares a group of engines between the virtual functions  *)
(* of a GPU.  Its thread (amdgv_sched_manual_switch_process) saves the     *)
(* function that runs and loads the next one whenever its time slice ends. *)
(* The event thread (amdgv_sched_event.c) serves the guests and the host:  *)
(* it stops the world switch, gives one VF full access to initialise or to *)
(* close its driver, resets functions that hang, suspends, resumes and     *)
(* removes VFs, and starts the world switch again.                         *)
(*                                                                         *)
(* The switching thread holds switching_lock from its first step to its    *)
(* last.  The event thread takes that lock only in start, stop, add_vf and *)
(* remove_vf; what it does to the engines between stop and start it does   *)
(* without.  A handler of the event thread is a sequence of operations,    *)
(* todo: each operation is an action, a call replaces itself by the        *)
(* operations of the callee, and a failure falls through to the next       *)
(* "catch", the error branch of the handler.                               *)
(*                                                                         *)
(* One world switch, the default scheduling policy, more than one VF per   *)
(* engine, USE_PF off: the PF is loaded when no VF is active but is never  *)
(* in the list; PSP commands need no switch to the PF.                     *)
(***************************************************************************)
EXTENDS Integers, FiniteSets, SequencesExt

CONSTANTS
  NumVF,      \* adapt->num_vf
  Events,     \* the events considered, a subset of EventKind
  Faults,     \* the failures considered, a subset of FaultKind
  MaxEvents,  \* bound: events in a behaviour
  MaxFaulty,  \* bound: events in a behaviour in which something fails
  MaxFails    \* bound: failures in a behaviour

EventKind == {"REQ_GPU_INIT", "REQ_GPU_RESET", "REQ_GPU_FINI", "REL_GPU_INIT", "REL_GPU_FINI",
              "SUSPEND", "RESUME", "INIT_VF_FB", "FORCE_RESET_VF", "SUSPEND_VF", "RESUME_VF",
              "REMOVE_VF", "FORCE_RESET_GPU", "STOP_VF"}

\* A command on a VF, a command on the PF, a function-level reset.
FaultKind == {"vf", "pf", "flr"}

ASSUME NumVFAssumption == NumVF \in Nat \ {0}
ASSUME EventsAssumption == Events \subseteq EventKind
ASSUME FaultsAssumption == Faults \subseteq FaultKind
ASSUME BoundAssumption ==
  {MaxEvents, MaxFaulty, MaxFails} \subseteq Nat /\ MaxFaulty <= MaxEvents

VF == 0 .. NumVF - 1
PF == NumVF             \* AMDGV_PF_IDX, above every VF
Fn == VF \union {PF}
None == -1              \* AMDGV_INVALID_IDX_VF
Parked == -2            \* engines shut down under a function that is still loaded
MaxWake == 2            \* bound: signals of switch_event not yet consumed

VARIABLES
  \* struct amdgv_sched_world_switch
  running,  \* switch_running
  cur,      \* curr_idx_vf
  st,       \* curr_vf_state
  inited,   \* vf_inited
  list,     \* manual.active_vf_list
  entry,    \* the VFs whose manual.array_vf entry has a valid idx_vf
  timer,    \* manual.timer is armed
  wake,     \* manual.switch_event, a counting completion
  wt,       \* where the switching thread is; it holds the lock unless "wait"
  hw,       \* the function the engines are on, None after a save, or Parked
  \* struct amdgv_sched
  status,   \* array_vf[v].state
  fa,       \* idx_vf_full_access, or None
  faFor,    \* event_id_full_access
  locked,   \* lock_world_switch
  resetQ,   \* functions with a SCHED_RESET_VF event queued
  crashQ,   \* VFs with a HANDLE_CRASH event queued
  unshut,   \* VFs marked unshutdown
  \* the event thread
  busy,     \* inside amdgv_sched_process_event
  todo,     \* the operations it has still to do
  events,   \* events so far
  fails     \* failures so far

ws == <<running, cur, st, inited, list, entry, timer, wake, hw>>
sched == <<status, fa, faFor, locked, resetQ, crashQ, unshut>>
vars == <<ws, wt, sched, busy, todo, events, fails>>

\* The driver has initialised the PF and saved it, and has woken the event
\* thread (amdgv_sched_init_pf_state_late).
Init ==
  /\ running = FALSE /\ cur = PF /\ st = "SAVED" /\ inited = {PF}
  /\ list = <<>> /\ entry = {} /\ timer = FALSE /\ wake = 1 /\ wt = "wait" /\ hw = None
  /\ status = [v \in VF |-> "AVAIL"]
  /\ fa = None /\ faFor = "none" /\ locked = FALSE
  /\ resetQ = {} /\ crashQ = {} /\ unshut = {}
  /\ busy = TRUE /\ todo = <<>> /\ events = 0 /\ fails = 0

Active(v) == v \in VF /\ status[v] = "ACTIVE"
ActiveVfs == {v \in VF : status[v] = "ACTIVE"}
Live == {v \in VF : status[v] \in {"ACTIVE", "SUSPEND"}}
Signalled == IF wake < MaxWake THEN wake + 1 ELSE wake
\* amdgv_list_del and amdgv_list_move_tail, for a function with an entry.
Without(f) == IF f \in entry THEN RemoveFirst(list, f) ELSE list
Rotated(f) == IF f \in entry THEN Append(RemoveFirst(list, f), f) ELSE list

\* Whether a command, or an FLR, fails is the hardware's choice.
MayFail(k) == IF k \in Faults /\ fails < MaxFails /\ events <= MaxFaulty THEN BOOLEAN ELSE {FALSE}
CmdFail(g) == MayFail(IF g = PF THEN "pf" ELSE "vf")
Count(f) == fails' = IF f THEN fails + 1 ELSE fails

-----------------------------------------------------------------------------
(* The switching thread.                                                   *)

LockFree == wt = "wait"

\* amdgv_sched_manual_switch_process, up to the first command.
WsWake ==
  /\ wt = "wait" /\ wake > 0
  /\ wake' = wake - 1
  /\ wt' = IF ~running \/ (list = <<>> /\ st = "LOADED") THEN "wait"
           ELSE IF list # <<>> /\ st = "LOADED" THEN "save" ELSE "load"
  /\ UNCHANGED <<running, cur, st, inited, list, entry, timer, hw, sched, busy, todo, events, fails>>

\* Mutant of WsSave: the function saved is not moved to the tail.
WsSaveKeepsHead ==
  /\ wt = "save"
  /\ \E f \in CmdFail(cur) :
       /\ Count(f)
       /\ st' = IF f THEN "ABNORMAL" ELSE "SAVED"
       /\ running' = (running /\ ~f)
       /\ hw' = IF f THEN hw ELSE None
       /\ resetQ' = IF f THEN resetQ \union {cur} ELSE resetQ
       /\ wt' = IF f THEN "wait" ELSE "load"
  /\ UNCHANGED <<cur, inited, list, entry, timer, wake, status, fa, faFor, locked, crashQ, unshut,
                 busy, todo, events>>

\* Mutant of WsSave: the failure is not reported to the event thread.
WsSaveSilent ==
  /\ wt = "save"
  /\ \E f \in CmdFail(cur) :
       /\ Count(f)
       /\ st' = IF f THEN "ABNORMAL" ELSE "SAVED"
       /\ running' = (running /\ ~f)
       /\ hw' = IF f THEN hw ELSE None
       /\ list' = IF f THEN list ELSE Rotated(cur)
       /\ wt' = IF f THEN "wait" ELSE "load"
  /\ UNCHANGED <<cur, inited, entry, timer, wake, sched, busy, todo, events>>

\* The slice of cur is over: save it and send it to the tail of the list.
WsSave ==
  /\ wt = "save"
  /\ \E f \in CmdFail(cur) :
       /\ Count(f)
       /\ st' = IF f THEN "ABNORMAL" ELSE "SAVED"
       /\ running' = (running /\ ~f)
       /\ hw' = IF f THEN hw ELSE None
       /\ list' = IF f THEN list ELSE Rotated(cur)
       /\ resetQ' = IF f THEN resetQ \union {cur} ELSE resetQ
       /\ wt' = IF f THEN "wait" ELSE "load"
  /\ UNCHANGED <<cur, inited, entry, timer, wake, status, fa, faFor, locked, crashQ, unshut,
                 busy, todo, events>>

\* amdgv_schedule_vfs_default, or the PF when there is nobody; start the timer.
WsLoad ==
  /\ wt = "load"
  /\ cur' = IF list = <<>> THEN PF ELSE Head(list)
  /\ \E f \in CmdFail(cur') :
       /\ Count(f)
       /\ st' = IF f THEN "ABNORMAL" ELSE "LOADED"
       /\ running' = (running /\ ~f)
       /\ timer' = (timer \/ ~f)
       /\ resetQ' = IF f THEN resetQ \union {cur'} ELSE resetQ
  /\ hw' = cur'
  /\ wt' = "wait"
  /\ UNCHANGED <<inited, list, entry, wake, status, fa, faFor, locked, crashQ, unshut,
                 busy, todo, events>>

\* amdgv_sched_manual_switch_timer_isr.
TimerFires ==
  /\ timer
  /\ timer' = FALSE
  /\ wake' = Signalled
  /\ UNCHANGED <<running, cur, st, inited, list, entry, hw, wt, sched, busy, todo, events, fails>>

-----------------------------------------------------------------------------
(* The operations of the event thread.                                     *)

Op(o, f) == [op |-> o, f |-> f, h |-> <<>>]
Catch(h) == [op |-> "catch", f |-> None, h |-> h]
Ignore == Catch(<<>>)
IfBad(h) == [op |-> "ifbad", f |-> None, h |-> h]
IfHung(v, h) == [op |-> "ifhung", f |-> v, h |-> h]
IfActive(v, h) == [op |-> "ifactive", f |-> v, h |-> h]
Return == Op("return", None)
AutoReset == <<Op("auto", None), Ignore>>

Doing(o) == busy /\ todo # <<>> /\ Head(todo).op = o
Arg == Head(todo).f
Rest == Tail(todo)
Then(ops) == todo' = ops \o Rest
\* The caller's error branch, or the end of the handler.
Raise ==
  LET i == SelectInSeq(Rest, LAMBDA o : o.op = "catch")
  IN todo' = IF i = 0 THEN <<>> ELSE Rest[i].h \o SubSeq(Rest, i + 1, Len(Rest))

\* The tests and the jumps of the handlers.
Branch ==
  /\ \/ Doing("catch") /\ Then(<<>>)
     \/ Doing("return") /\ todo' = <<>>
     \/ Doing("ifbad") /\ Then(IF st = "ABNORMAL" THEN Head(todo).h ELSE <<>>)
     \/ Doing("ifhung") /\ Then(IF st = "ABNORMAL" /\ cur = Arg THEN Head(todo).h ELSE <<>>)
     \/ Doing("ifactive") /\ Then(IF Active(Arg) THEN Head(todo).h ELSE <<>>)
  /\ UNCHANGED <<ws, wt, sched, busy, events, fails>>

\* Mutant of Stop: the function is taken off the engines without the timer
\* and the flag that drive the switching thread being cleared.
StopKeepsRunning ==
  /\ Doing("stop") /\ LockFree /\ Then(<<>>)
  /\ \E f \in CmdFail(cur) :
       /\ f => st = "LOADED"
       /\ Count(f)
       /\ st' = IF f THEN "ABNORMAL" ELSE IF st = "LOADED" THEN "SAVED" ELSE st
       /\ hw' = IF f \/ st # "LOADED" THEN hw ELSE None
       /\ list' = IF f \/ st # "LOADED" THEN list ELSE Rotated(cur)
  /\ UNCHANGED <<running, timer, cur, inited, entry, wake, wt, sched, busy, events>>

\* amdgv_sched_manual_switch_stop.  A failed save is left to the caller.
Stop ==
  /\ Doing("stop") /\ LockFree /\ Then(<<>>)
  /\ \E f \in CmdFail(cur) :
       /\ f => st = "LOADED"
       /\ Count(f)
       /\ running' = FALSE
       /\ timer' = IF running \/ st = "LOADED" THEN FALSE ELSE timer
       /\ st' = IF f THEN "ABNORMAL" ELSE IF st = "LOADED" THEN "SAVED" ELSE st
       /\ hw' = IF f \/ st # "LOADED" THEN hw ELSE None
       /\ list' = IF f \/ st # "LOADED" THEN list ELSE Rotated(cur)
  /\ UNCHANGED <<cur, inited, entry, wake, wt, sched, busy, events>>

\* amdgv_sched_manual_switch_start: an abnormal world switch stays stopped.
MayStart == ~running /\ st # "ABNORMAL"
Start ==
  /\ Doing("start") /\ LockFree /\ Then(<<>>)
  /\ running' = (running \/ MayStart)
  /\ wake' = IF MayStart THEN Signalled ELSE wake
  /\ UNCHANGED <<cur, st, inited, list, entry, timer, hw, wt, sched, busy, events, fails>>

\* amdgv_save_world_context.  A cleared context is not saved.
Save ==
  /\ Doing("save")
  /\ \E f \in CmdFail(cur) :
       /\ f => st = "LOADED"
       /\ Count(f)
       /\ st' = IF f THEN "ABNORMAL" ELSE IF st = "LOADED" THEN "SAVED" ELSE st
       /\ running' = (running /\ ~f)
       /\ hw' = IF f \/ st # "LOADED" THEN hw ELSE None
       /\ IF f THEN Raise ELSE Then(<<>>)
  /\ UNCHANGED <<cur, inited, list, entry, timer, wake, wt, sched, busy, events>>

\* amdgv_load_world_context.
Load ==
  /\ Doing("load")
  /\ \E f \in CmdFail(Arg) :
       /\ Count(f)
       /\ st' = IF f THEN "ABNORMAL" ELSE "LOADED"
       /\ running' = (running /\ ~f)
       /\ IF f THEN Raise ELSE Then(<<>>)
  /\ cur' = Arg /\ hw' = Arg
  /\ UNCHANGED <<inited, list, entry, timer, wake, wt, sched, busy, events>>

\* amdgv_init_world_context.
InitCtx ==
  /\ Doing("init")
  /\ \E f \in CmdFail(Arg) :
       /\ Count(f)
       /\ st' = IF f THEN "ABNORMAL" ELSE "LOADED"
       /\ IF f THEN Raise ELSE Then(<<>>)
  /\ cur' = Arg /\ hw' = Arg /\ inited' = inited \union {Arg}
  /\ UNCHANGED <<running, list, entry, timer, wake, wt, sched, busy, events>>

\* One turn of a loop over the VFs, for the VF Arg, and the turns after it.
Each(o, ops) == Then(ops \o (IF Arg + 1 < NumVF THEN <<Op(o, Arg + 1)>> ELSE <<>>))

\* Operations that only call others: amdgv_switch_world_context,
\* switch_to_vf_saved, the one-time loop over the active VFs, the loop of
\* whole_gpu_reset that makes every VF leave, handle_orphan_vf,
\* handle_req_gpu_fini, gpu_reset_wrap and exit_full_access_timeout.
Call ==
  /\ \/ /\ Doing("switch")
        /\ IF st = "ABNORMAL" THEN Raise
           ELSE Then(IF st = "LOADED" /\ cur = Arg THEN <<>>
                     ELSE (IF st = "LOADED" THEN <<Op("save", None)>> ELSE <<>>)
                          \o <<Op(IF Arg \in inited THEN "load" ELSE "init", Arg)>>)
     \/ /\ Doing("saved")
        /\ Then(IF ~Active(Arg) \/ Arg \notin inited \/ (cur = Arg /\ st = "SAVED") THEN <<>>
                ELSE <<Op("load", Arg), Op("save", None)>>)
     \/ /\ Doing("loop")
        /\ Then(IF ActiveVfs = {} THEN <<>> ELSE <<Op("turn", 0), Catch(<<Op("auto", None)>>)>>)
     \/ /\ Doing("turn")
        /\ Each("turn", IF Active(Arg) /\ Arg \notin unshut THEN <<Op("load", Arg), Op("save", None)>>
                        ELSE <<>>)
     \/ /\ Doing("expel")
        /\ Each("expel", (IF Active(Arg) THEN <<Op("remove", Arg)>> ELSE <<>>)
                         \o (IF Arg \in Live THEN <<Op("AVAIL", Arg)>> ELSE <<>>))
     \/ /\ Doing("orphan")
        /\ Then(IF ~Active(Arg) THEN <<>>
                ELSE <<Op("remove", Arg), Op("switch", Arg), Ignore, Op("AVAIL", Arg),
                       Op("resetvf", Arg)>>)
     \/ /\ Doing("fini")
        /\ IF status[Arg] = "AVAIL" THEN Raise ELSE Then(<<Op("remove", Arg), Op("load", Arg)>>)
     \/ Doing("wgr") /\ Then(<<Op("stop", None), Op("gpureset", None)>>)
     \/ /\ Doing("timeout")
        /\ Then(<<Op("AVAIL", Arg), Op("resetvf", Arg), Op("loop", None), Ignore,
                  Op("endfa", None), Op("start", None)>>)
  /\ UNCHANGED <<ws, wt, sched, busy, events, fails>>

\* amdgv_sched_manual_switch_add_vf.
AddVf ==
  /\ Doing("add") /\ LockFree /\ Then(<<>>)
  /\ status' = [status EXCEPT ![Arg] = "ACTIVE"]
  /\ entry' = entry \union {Arg}
  /\ list' = Append(list, Arg)
  /\ wake' = Signalled
  /\ UNCHANGED <<running, cur, st, inited, timer, hw, wt, fa, faFor, locked, resetQ, crashQ, unshut,
                 busy, events, fails>>

\* Mutant of RemoveVf: a VF that is loaded is not saved first.
RemoveVfUnsaved ==
  /\ Doing("remove") /\ LockFree /\ Then(<<>>)
  /\ list' = Without(Arg)
  /\ entry' = entry \ {Arg}
  /\ inited' = IF Arg \notin entry \/ status[Arg] = "SUSPEND" THEN inited ELSE inited \ {Arg}
  /\ wake' = Signalled
  /\ UNCHANGED <<running, cur, st, hw, timer, wt, sched, busy, events, fails>>

\* amdgv_sched_manual_switch_remove_vf; no caller looks at its result.
RemoveVf ==
  LET loaded == Arg \in entry /\ cur = Arg /\ st = "LOADED" IN
  /\ Doing("remove") /\ LockFree /\ Then(<<>>)
  /\ \E f \in CmdFail(cur) :
       /\ f => loaded
       /\ Count(f)
       /\ st' = IF f THEN "ABNORMAL" ELSE IF loaded THEN "SAVED" ELSE st
       /\ running' = (running /\ ~f)
       /\ hw' = IF loaded /\ ~f THEN None ELSE hw
       /\ resetQ' = IF f THEN resetQ \union {cur} ELSE resetQ
  /\ list' = Without(Arg)
  /\ entry' = entry \ {Arg}
  /\ inited' = IF Arg \notin entry \/ status[Arg] = "SUSPEND" THEN inited ELSE inited \ {Arg}
  /\ wake' = Signalled
  /\ UNCHANGED <<cur, timer, wt, status, fa, faFor, locked, crashQ, unshut, busy, events>>

\* set_to_avail_vf, set_to_suspend_vf and set_to_unavail_vf.
SetStatus ==
  /\ \E s \in {"AVAIL", "SUSPEND", "UNAVAIL"} :
       Doing(s) /\ status' = [status EXCEPT ![Arg] = s]
  /\ Then(<<>>)
  /\ UNCHANGED <<ws, wt, fa, faFor, locked, resetQ, crashQ, unshut, busy, events, fails>>

\* amdgv_sched_vf_flr succeeded: amdgv_sched_world_context_clear_state.
Cleared == st' = "CLEAR" /\ inited' = inited \ {cur} /\ hw' = None
PfCycle == <<Op("load", PF), Op("save", None)>>

\* amdgv_sched_reset_vf: a function-level reset, then the PF is run once.
ResetVf ==
  /\ Doing("resetvf")
  /\ \E f \in MayFail("flr") :
       /\ Count(f)
       /\ IF f THEN Then(<<Op("wgr", None)>>) /\ UNCHANGED <<st, inited, hw>>
          ELSE Then(PfCycle) /\ Cleared
  /\ UNCHANGED <<running, cur, list, entry, timer, wake, wt, sched, busy, events>>

\* amdgv_sched_reset_vf_auto: reset whoever hangs the engines.
ResetAuto ==
  /\ Doing("auto")
  /\ running' = (running /\ st # "ABNORMAL")
  /\ \E f \in MayFail("flr") :
       /\ f => st = "ABNORMAL" /\ cur # PF
       /\ Count(f)
       /\ IF st # "ABNORMAL" THEN Then(<<>>) /\ UNCHANGED <<st, inited, hw>>
          ELSE IF f \/ cur = PF THEN Then(<<Op("wgr", None)>>) /\ UNCHANGED <<st, inited, hw>>
          ELSE /\ Then((IF Active(cur) THEN <<Op("remove", cur)>> ELSE <<>>)
                       \o <<Op("AVAIL", cur)>> \o PfCycle)
               /\ Cleared
  /\ UNCHANGED <<cur, list, entry, timer, wake, wt, sched, busy, events>>

\* Mutant of GpuReset: the engines are recorded as saved where they are.
GpuResetKeepsEngines ==
  /\ Doing("gpureset") /\ Then(<<Op("expel", 0)>>)
  /\ st' = "SAVED" /\ cur' = PF /\ inited' = (inited \ Live) \union {PF}
  /\ UNCHANGED <<hw, running, list, entry, timer, wake, wt, sched, busy, events, fails>>

\* amdgv_sched_whole_gpu_reset: the PF is initialised anew, every VF leaves.
GpuReset ==
  /\ Doing("gpureset") /\ Then(<<Op("expel", 0)>>)
  /\ st' = "SAVED" /\ cur' = PF /\ hw' = None /\ inited' = (inited \ Live) \union {PF}
  /\ UNCHANGED <<running, list, entry, timer, wake, wt, sched, busy, events, fails>>

\* amdgv_logical_sched_state_shutdown: the engines leave whoever they are on.
ShutdownVf ==
  /\ Doing("shutdown") /\ Then(<<>>)
  /\ hw' = CASE st = "ABNORMAL" -> hw
             [] st = "LOADED" -> Parked
             [] OTHER -> None
  /\ UNCHANGED <<running, cur, st, inited, list, entry, timer, wake, wt, sched, busy, events, fails>>

\* The end of enter_full_access and of exit_full_access.
FullAccess ==
  /\ \/ Doing("grantinit") /\ fa' = Arg /\ faFor' = "init"
     \/ Doing("grantfini") /\ fa' = Arg /\ faFor' = "fini"
     \/ Doing("endfa") /\ fa' = None /\ UNCHANGED faFor
  /\ Then(<<>>)
  /\ UNCHANGED <<ws, wt, status, locked, resetQ, crashQ, unshut, busy, events, fails>>

SetFlags ==
  /\ \/ Doing("lock") /\ locked' = TRUE /\ UNCHANGED <<unshut, crashQ>>
     \/ Doing("unlock") /\ locked' = FALSE /\ UNCHANGED <<unshut, crashQ>>
     \/ Doing("shut") /\ unshut' = unshut \ {Arg} /\ UNCHANGED <<locked, crashQ>>
     \/ Doing("crash") /\ unshut' = unshut \union {Arg} /\ crashQ' = crashQ \union {Arg}
        /\ UNCHANGED locked
  /\ Then(<<>>)
  /\ UNCHANGED <<ws, wt, status, fa, faFor, resetQ, busy, events, fails>>

-----------------------------------------------------------------------------
(* The handlers of the events.                                             *)

GiveUp == AutoReset \o <<Return>>

\* Mutant of EnterForInit: the VF is initialised whatever stopping the world
\* switch left behind.
EnterForInitUnchecked(v) ==
  <<Op("stop", None), Op("orphan", v), Catch(GiveUp), Op("init", v), Catch(GiveUp), Op("grantinit", v)>>

\* amdgv_sched_enter_full_access for REQ_GPU_INIT and REQ_GPU_RESET.
EnterForInit(v) ==
  <<Op("stop", None), IfBad(AutoReset), Op("orphan", v), Catch(GiveUp),
    Op("init", v), Catch(GiveUp), Op("grantinit", v)>>

\* The same for REQ_GPU_FINI: a VF that hangs is reset and gets nothing.
EnterForFini(v) ==
  <<Op("stop", None), IfHung(v, GiveUp), IfBad(AutoReset),
    Op("fini", v), Catch(GiveUp), Op("grantfini", v)>>

EndFa == Op("endfa", None)
Loop(oneVf) == IF oneVf \/ locked THEN <<>> ELSE <<Op("loop", None), Ignore>>
\* reset_vf_auto in exit_full_access: its failure skips to the label failed.
AutoOrEnd == <<Op("auto", None), Catch(<<EndFa, Return>>)>>

\* amdgv_sched_exit_full_access for REL_GPU_INIT.  ready: the guest's driver
\* has started the command processor (cp_sched_state).
ExitInit(v, ready) ==
  LET oneVf == ActiveVfs = {} IN
  (IF oneVf /\ ready THEN <<>> ELSE <<Op("save", None)>>)
  \o (IF ready THEN <<>> ELSE <<Op("shutdown", v)>>)
  \o <<Catch(AutoOrEnd \o Loop(oneVf) \o <<EndFa, Return>>)>>
  \o (IF ready THEN <<Op("add", v)>> ELSE <<>>)
  \o Loop(oneVf) \o <<EndFa>>

\* The same for REL_GPU_FINI.
ExitFini(v) ==
  <<Op("save", None), Ignore, Op("shutdown", v), Op("AVAIL", v), IfBad(AutoOrEnd)>>
  \o Loop(ActiveVfs = {}) \o <<EndFa>>

Take(k, ops) ==
  /\ k \in Events /\ todo = <<>> /\ events < (IF fails = 0 THEN MaxEvents ELSE MaxFaulty)
  /\ todo' = ops /\ busy' = TRUE /\ events' = events + 1
  /\ UNCHANGED <<ws, wt, sched, fails>>

\* Events are deferred while the world switch is locked, and those of
\* Normal while a VF has full access.
Normal == fa = None /\ ~locked

\* The guest asks for full access.
Request(v) ==
  /\ Normal
  /\ \/ status[v] # "UNAVAIL" /\ Take("REQ_GPU_INIT", EnterForInit(v))
     \/ status[v] \in {"AVAIL", "ACTIVE"} /\ Take("REQ_GPU_RESET", EnterForInit(v))
     \/ status[v] = "ACTIVE" /\ Take("REQ_GPU_FINI", EnterForFini(v))

\* The guest gives full access back.
Release(v) ==
  /\ fa = v
  /\ \/ faFor = "init" /\ \E ready \in BOOLEAN : Take("REL_GPU_INIT", ExitInit(v, ready))
     \/ faFor = "fini" /\ Take("REL_GPU_FINI", ExitFini(v))
     \/ faFor = "init" /\ Take("REL_GPU_FINI", <<Op("timeout", v)>>)

\* The host resets one VF.
ForceReset(v) ==
  /\ Normal /\ Active(v)
  /\ Take("FORCE_RESET_VF",
          <<Op("stop", None), IfBad(AutoReset), Op("saved", v), Catch(AutoReset),
            IfActive(v, <<Op("resetvf", v), Ignore>>), IfActive(v, <<Op("remove", v)>>),
            Op("AVAIL", v)>>)

\* Mutant of SuspendEvent: the VF stays in the active list.
SuspendEventKeepsVf(v) ==
  /\ ~locked /\ fa # v /\ Active(v)
  /\ Take("SUSPEND_VF", <<Op("SUSPEND", v)>> \o (IF fa = None THEN <<Op("stop", None)>> ELSE <<>>))

\* Mutant of ResumeEvent: the world switch is started at once.
ResumeEventStarts(v) ==
  /\ ~locked /\ fa # v /\ status[v] = "SUSPEND"
  /\ Take("RESUME_VF", <<Op("add", v), Op("start", None)>>)

\* The host takes a VF out of the world switch and puts it back; in full
\* access of another VF the world switch is stopped already.
SuspendEvent(v) ==
  /\ ~locked /\ fa # v /\ Active(v)
  /\ Take("SUSPEND_VF", <<Op("SUSPEND", v)>>
                        \o (IF fa = None THEN <<Op("stop", None)>> ELSE <<>>)
                        \o <<Op("remove", v)>>)
ResumeEvent(v) ==
  /\ ~locked /\ fa # v /\ status[v] = "SUSPEND"
  /\ Take("RESUME_VF", (IF fa = None THEN <<Op("stop", None)>> ELSE <<>>) \o <<Op("add", v)>>)
RemoveEvent(v) ==
  /\ ~locked /\ status[v] # "UNAVAIL"
  /\ Take("REMOVE_VF", (IF fa = v THEN <<Op("timeout", v)>> ELSE <<>>)
                       \o <<IfActive(v, <<Op("remove", v)>>), Op("UNAVAIL", v)>>)

\* The VM of a VF is gone.
StopVf(v) ==
  /\ ~locked /\ fa # v /\ status[v] # "UNAVAIL"
  /\ IF fa # None THEN Active(v) /\ Take("STOP_VF", <<Op("crash", v)>>)
     ELSE Take("STOP_VF",
            (CASE Active(v) ->
                    <<Op("stop", None), Op("saved", v), Catch(AutoReset),
                      IfActive(v, <<Op("resetvf", v), Ignore, Op("remove", v)>>), Op("shutdown", v)>>
               [] status[v] = "SUSPEND" -> <<Op("shutdown", v)>>
               [] OTHER -> <<>>)
            \o <<Op("shut", v), Op("AVAIL", v)>>)

\* The host prepares the frame buffer of a VF, in the PF's context.
InitVfFb ==
  /\ Normal
  /\ Take("INIT_VF_FB",
          <<Op("stop", None), IfBad(AutoReset), Op("switch", PF), Catch(AutoReset),
            Op("save", None), Catch(AutoReset)>>)

\* The host stops everything, lets it go, or resets the GPU.
Whole ==
  \/ Normal /\ Take("SUSPEND", <<Op("stop", None), IfBad(AutoReset), Op("lock", None)>>)
  \/ fa = None /\ locked /\ Take("RESUME", <<Op("unlock", None)>>)
  \/ Normal /\ Take("FORCE_RESET_GPU", <<Op("stop", None), Op("wgr", None), Ignore>>)

\* A SCHED_RESET_VF event.  The PF, unavailable without USE_PF, has none.
TakeReset(v) ==
  /\ todo = <<>> /\ Normal
  /\ v \in resetQ /\ resetQ' = resetQ \ {v}
  /\ busy' = TRUE
  /\ todo' = IF v = PF THEN <<>>
             ELSE IF status[v] \in {"AVAIL", "UNAVAIL"} THEN <<>>
             ELSE <<Op("stop", None), IfBad(AutoReset)>>
  /\ UNCHANGED <<ws, wt, status, fa, faFor, locked, crashQ, unshut, events, fails>>

\* A HANDLE_CRASH event.
TakeCrash(v) ==
  /\ todo = <<>> /\ Normal
  /\ v \in crashQ /\ crashQ' = crashQ \ {v}
  /\ busy' = TRUE
  /\ todo' = IF status[v] = "UNAVAIL" THEN <<>>
             ELSE <<Op("stop", None), Op("saved", v), Catch(AutoReset),
                    IfActive(v, <<Op("resetvf", v), Ignore>>),
                    Op("orphan", v), Catch(GiveUp), Op("shut", v)>>
  /\ UNCHANGED <<ws, wt, status, fa, faFor, locked, resetQ, unshut, events, fails>>

\* Full access has lasted too long.
Timeout ==
  /\ todo = <<>> /\ fa # None
  /\ busy' = TRUE /\ todo' = <<Op("timeout", fa)>>
  /\ UNCHANGED <<ws, wt, sched, events, fails>>

\* Mutant of Reactivate: the world switch is not started again.
ReactivateNothing ==
  /\ busy /\ todo = <<>> /\ (Normal => resetQ = {} /\ crashQ = {})
  /\ busy' = FALSE
  /\ UNCHANGED <<ws, wt, sched, todo, events, fails>>

\* The end of amdgv_sched_process_event.
Reactivate ==
  /\ busy /\ todo = <<>> /\ (Normal => resetQ = {} /\ crashQ = {})
  /\ IF Normal THEN todo' = <<Op("start", None), Op("idle", None)>> ELSE todo' = <<Op("idle", None)>>
  /\ UNCHANGED <<ws, wt, sched, busy, events, fails>>

GoIdle ==
  /\ Doing("idle")
  /\ busy' = FALSE /\ Then(<<>>)
  /\ UNCHANGED <<ws, wt, sched, events, fails>>

-----------------------------------------------------------------------------
WsThread == WsWake \/ WsSave \/ WsLoad
EventOp ==
  \/ Branch \/ Call \/ Stop \/ Start \/ Save \/ Load \/ InitCtx \/ AddVf \/ RemoveVf \/ SetStatus
  \/ ResetVf \/ ResetAuto \/ GpuReset \/ ShutdownVf \/ FullAccess \/ SetFlags \/ GoIdle
Queued == \/ \E f \in Fn : TakeReset(f)
          \/ \E v \in VF : TakeCrash(v)
          \/ Timeout \/ Reactivate
Incoming ==
  \/ \E v \in VF : \/ Request(v) \/ Release(v) \/ ForceReset(v) \/ SuspendEvent(v) \/ ResumeEvent(v)
                   \/ RemoveEvent(v) \/ StopVf(v)
  \/ InitVfFb \/ Whole

Next == WsThread \/ TimerFires \/ EventOp \/ Queued \/ Incoming
Spec == Init /\ [][Next]_vars

\* The kernel runs both threads, the timer fires, and a full access ends.
FairSpec ==
  /\ Spec
  /\ WF_vars(WsThread) /\ WF_vars(TimerFires) /\ WF_vars(EventOp) /\ WF_vars(Queued)

-----------------------------------------------------------------------------
(* Properties.                                                             *)

\* The variables hold what their declarations in the code allow.
TypeOK ==
  /\ running \in BOOLEAN /\ cur \in Fn /\ st \in {"CLEAR", "SAVED", "LOADED", "ABNORMAL"}
  /\ inited \subseteq Fn /\ entry \subseteq VF /\ list \in Seq(VF) /\ timer \in BOOLEAN
  /\ wake \in 0 .. MaxWake /\ wt \in {"wait", "save", "load"} /\ hw \in Fn \union {None, Parked}
  /\ status \in [VF -> {"UNAVAIL", "AVAIL", "ACTIVE", "SUSPEND"}]
  /\ fa \in VF \union {None} /\ faFor \in {"none", "init", "fini"} /\ locked \in BOOLEAN
  /\ resetQ \subseteq Fn /\ crashQ \subseteq VF /\ unshut \subseteq VF
  /\ busy \in BOOLEAN /\ events \in 0 .. MaxEvents /\ fails \in 0 .. MaxFails

\* The assertions of init, load and save_world_context: a context is put on
\* the engines only after the one before it was saved or cleared, and only
\* what is loaded is saved.
ContextAsserts ==
  /\ Doing("load") \/ Doing("init") \/ wt = "load" => st \in {"SAVED", "CLEAR"}
  /\ Doing("save") => st \in {"LOADED", "CLEAR"}
  /\ wt = "save" => st = "LOADED"

\* The assertions of is_state_ok and clear_state: the event thread looks at,
\* resets and clears only a world switch that it has stopped, and whose
\* thread is not in the middle of a switch.
StoppedAsserts ==
  (\E o \in {"load", "init", "save", "ifbad", "resetvf", "gpureset"} : Doing(o)) =>
    ~running /\ wt = "wait"

\* The assertion of stop and process: a loaded VF has an entry in the world
\* switch when it is to be saved and sent to the tail of the list.
EntryAssert ==
  (Doing("stop") \/ wt = "save") /\ st = "LOADED" => cur \in entry \union {PF}

\* No assertion fails unless a command or a reset has failed before.
AssertsWithoutFault == fails = 0 => ContextAsserts /\ EntryAssert

\* While a VF has full access the engines are on it and on nobody else, and
\* the world switch cannot take them away.
FullAccessExclusive ==
  fa # None /\ todo = <<>> => st = "LOADED" /\ cur = fa /\ hw = fa /\ ~running /\ wt = "wait"

\* Between events the active list holds each active VF once, each with a
\* context to load; the VF that is closing its driver is out of it.
ListMatches ==
  todo = <<>> =>
    /\ ToSet(list) = entry /\ Len(list) = Cardinality(entry)
    /\ entry = ActiveVfs \ (IF faFor = "fini" THEN {fa} ELSE {})
    /\ entry \subseteq inited

\* The scheduler's record of the engines is what the engines do, whatever
\* failed before.  One case escapes it: STOP_VF of a suspended VF shuts the
\* engines down without stopping the world switch ("shutdown GPU directly"),
\* so that the function on them, another one, stays loaded on parked engines
\* until it is saved.
HwAgrees ==
  /\ st = "LOADED" => hw \in {cur, Parked}
  /\ st \in {"SAVED", "CLEAR"} => hw = None

\* A VF that hangs the engines is reset: they do not stay abnormal.
HungVfIsReset == st = "ABNORMAL" /\ cur # PF ~> st # "ABNORMAL"

\* The end of process_event: unless the host holds it or a VF has full
\* access, the world switch is started again.
Reactivated == Normal /\ ~running ~> running \/ ~Normal

\* A VF in the active list gets the engines, or leaves the list, or the host
\* holds the world switch.
EveryVfRuns == \A v \in VF : v \in entry ~> hw = v \/ v \notin entry \/ locked

=============================================================================
