# A TLA+ model of the GIM driver

GIM is the host driver that shares an AMD GPU between virtual machines with
SR-IOV. This directory models the part of it that decides which function owns
the engines and what happens when something goes wrong (the world switch, the
events that interrupt it, the resets, the locks of a hive of GPUs), the memory
manager with its bad pages, and the migration of a running VF. Source paths
below are relative to `libgv/core/` unless they start with another top-level
directory.

## The system

| Part | Keeps | Does | Meets the others through |
|---|---|---|---|
| world-switch state machine, `amdgv_ws_state.c` with `amdgv_gpuiov.c` | per engine: last command, function it was for; per function and engine: its state | walks an engine (or several) from one state to another by commands INIT, LOAD, RUN, IDLE, SAVE, SHUTDOWN | called by world switching and resets; its records are rewritten by FLR and GPU reset |
| world switching, `amdgv_sched_switch.c`, `amdgv_sched.c` | running flag, loaded function and state of its context, list of active VFs, timer | a thread saves one VF and loads the next each time slice; start, stop, add and remove a VF | `switching_lock`, a completion the timer and the event thread signal, SCHED_RESET_VF events it queues |
| event handling, `amdgv_sched_event.c` | a ring of 256 events, six lists by urgency, VF in full access, lock flag | one thread handles requests of guests, interrupts and host calls; some callers wait | pushes by interrupt handlers and API; stops and starts the world switch |
| VF and GPU reset, `amdgv_sched_reset.c`, `amdgv_reset.c` | state of the VFs | FLR, automatic reset of whatever hangs, whole-GPU reset as fallback | called inside event handlers; rewrites lists, records and queued events |
| XGMI hive, `amdgv_xgmi.c`, `hw/AI/mi300/mi300_reset.c` | flag `in_chain_reset`, `bad_hive`, a barrier | resets all GPUs of a hive together | event queues of the other GPUs, the task barrier |
| locks, `amdgv_task_barrier.c/.h` | counters and semaphores | a reusable barrier; a lock shared within a group, exclusive between groups | polled or blocked on by event threads |
| event guard, `amdgv_guard.c` | window of time stamps per VF and event | limits how often a VF may cause an event | called by mailbox and event handlers |
| mailbox, interrupts, `amdgv_mailbox.c`, `amdgv_irqmgr.c` | message buffers, interrupt ring | messages of a guest become events | pushes events |
| memory, `amdgv_memmgr.c`, `hw/AI/mi300/mi300_mem.c`, `amdgv_umc.c` | sorted list of blocks, top of memory, wishes not yet placed, bad pages | allocate, free, reserve a page, move blocks off bad pages | called at configuration, by RAS and in a reset |
| `amdgv_ffbm.c`, `amdgv_vfmgr.c` | page mapping, VF partitions | map guest memory, lay out partitions | called at configuration and by RAS |
| live migration, `gim/gim_shim/gim_mig.c`, `amdgv_live_migration.c`, `amdgv_dirtybit.c`, `gim/amd-vfio-pci` | migration state and abort flag of a VF, dirty bits accumulated, shadow, message, ring | a thread copies dirty pages to a ring the user reads; the target imports them | calls of the user, events, resets of the VF |
| live update, `amdgv_live_info.c`, `gim/gim_shim/gim_live_update.c` | saved driver state | hand the GPU from one driver to its successor | exports scheduler and unprocessed events |
| RAS, `uniras/ras` | error log, fifo of errors, bad pages in EEPROM | record errors, retire pages, request resets | events, its own thread |
| PSP, monitor, ASIC code, diagnosis, kernel shim, `smi-lib`, `gim-coms-lib` | | register protocols, queries, wrappers, transport | |

Hard to test here: two threads, a timer, interrupts and up to eight GPUs
interleave; any command to the hardware can time out in the middle of a
handler that assumes it worked; resets run inside other handlers and change
the state these rely on; events are deferred, replaced and reordered while
callers wait. What makes the parts correct: an engine holds the context of one
function and the records say which; a VF in full access is alone on the
engines; a hung VF is reset and the others go on running; GPUs of a hive reset
together and the hive can be reset again; no caller waits for ever; no address
is handed out twice and no client stays on a bad page; a migrated VF has on the
target what it had on the source.
`PROJECT.json` lists the hazards with the line where each bites.

## Modules and code

**WsState** is the manual mode of the state machine. `gpu`, `cur` and `vf` are
`cur_gpu_state`, `cur_vf_id` and `cur_vf_state`; `sched` is the VF's state in
the scheduler; `call` is the goto_state call in progress, with the masks of
`world_switch_bulk_goto_state_manual`. `NextState` is the graph of commands;
`Issue`, `Done`, `Timeout` and `Return` are the loop; `BulkRun`, `BulkPause`,
`BulkShutdown`, `BulkIdle`, `SingleRun`, `SinglePause` are the entry points;
`FlrStart`, `FlrEngine`, `FlrFail`, `AfterCall` are
`amdgv_sched_world_switch_reset` with the calls around it; `GpuReset`,
`GpuResetRefused`, `EnterPowerSaving`, `Activate`, `Suspend`, `SetAvail` are
what the scheduler does to the records and states. One call at a time: callers
hold `switching_lock` or have stopped the world switch. Between calls the guards
are only those of the code: any entry point may follow any other, failed or not,
for any function; an FLR may find the engines anywhere (`handle_orphan_vf`
ignores that the switch to the VF failed, `enter_full_access` that a reset did);
a VF may become active while it runs, be suspended before it is saved and stay
active, with its record at SHUTDOWN, through its FLR. What such a reset can do
to the records is kept in the history variable `torn`: the engines that an FLR
or power saving found live with another, inactive function, and those an FLR had
visited when `amdgv_sched_gpu_reset_wrap` refused the reset that should have
followed. No handler prevents either; a whole-GPU reset repairs both. Not
modelled: auto mode, USE_PF.

**SharedExclusion** is `shared_exclusion_enter` and `_exit`: a thread's steps
are those between operations on the mutex, the main semaphore and the gate.

**ChainReset** is a hive of `N` GPUs, each with its event thread. `Handle`,
`Begin`, `Broadcast`, `SelfReset`, `Failed` and `Finish` are
`amdgv_sched_gpu_reset_wrap` and `amdgv_sched_gpu_chain_reset`; `Prepare`,
`Mode1` and `Reinit` are the phases of `mi300_gpu_reset_and_reinit`. The
barrier is modelled operation by operation because it is used twice in one
reset; its waits are polls, which may miss a condition that holds briefly.
`Prompt` states the one assumption on speed: a poll every 50 us is not slower
than hardware phases of seconds. Broadcasting never fails (see the hazards), and a request
that has been queued is not replaced by another event of list 0 (see EventQueue).

**WorldSwitch** composes the switching thread, its timer and the event thread
on one world switch. Variables follow `struct amdgv_sched_world_switch` and
`struct amdgv_sched`; `hw` is the function the engines are really on. A
handler is a sequence of operations `todo`: each operation is one action, a
call replaces itself by its body, and a failed operation drops everything up
to the next catch, the error branch of the C code. So failures, and the other
thread, may come between any two operations. A turn of a loop over the VFs (the
one-time loop, the end of a whole-GPU reset) is an operation too (`Each`). `Request`, `Release`,
`ForceReset`, `SuspendEvent`, `ResumeEvent`, `RemoveEvent`, `StopVf`,
`InitVfFb` and `Whole` are fourteen events; `TakeReset`, `TakeCrash`,
`Timeout` and `Reactivate` are what the event thread does by itself. A command
is one step that succeeds or fails (WsState is its detail). Not modelled: USE_PF,
partition full access, auto scheduling, a failed whole-GPU reset (the device is
gone), overflow of the event guard, RAS aborts, conditional availability.

**EventQueue** is the queue under those handlers: `Push` is
`amdgv_sched_event_queue_push_ex` with its ring indices; `Pop`, `Arrange`,
`StartOver` and `Pick` are `amdgv_sched_pick_up_next_event`: the ring is emptied
into `batch`, its events are put on the lists one by one, replacing earlier
ones of their function where the list (0, 2, 4) or the event itself
(SET_VF_COND_AVAIL and RMA in list 3, `ReplacingId`) says so, and the most
urgent one is chosen; `PushBack`, `Handle`, `Again`, `Check` and `Wake` are the
loops of `amdgv_sched_process_event` and its thread. Thirteen event kinds stand
for those treated alike; a handler only moves the full access, the lock flag and
power saving. A replaced event is freed without a signal; if a caller waits for
it (INIT_VF_FB, the requests of the PF's driver, power saving), the history
variable `freed` keeps it. Completions count, as the kernel's do. Not modelled:
live update, unrecoverable errors; a VM paused during its full access, whose
timeout stops; `api_lock`, which keeps some host calls from being made at once.

**Allocator** says what a memory manager promises: memory that nobody holds
goes to one holder; it is lost only by giving it back while the manager is open
or, while it is closed, to a page on record as bad; and the manager does not
open again before whoever lost memory so has other memory, or has failed.
**MemMgr** is how: `allocs` is the sorted list, `tom` where its last block
ends, `FindSize` and `FindSizeAt` the two searches, `PlaceBlock`, `PlaceAt`,
`Unlink` what `amdgv_memmgr_alloc_align`, `_alloc_align_at` and `_free` do to
the list. `Candidate`, `Deferred`, `FreeCandidates` are `mi350_mem_hw_init`
with the wishes collected before it; `Record` with `Reserve`, and `ReservePage`, are
the two ways (`amdgv_umc.c`, uniras) in which a bad page is taken out of use:
`Reserve` is one turn of a loop over the records, which a page of a critical
region ends until the next call, so that it may come at any later time or never; `Replace`,
`ReplacePage` (with `MoveOut`), `Replaced`, `Rehome` are
`amdgv_umc_replace_bad_pages` in a reset. A turn of a loop is a step:
`FreeCandidates` frees one placeholder, `ReplacePage` moves out one block or
reserves one page, `Rehome` places one block. One
manager is modelled, `memmgr_pf` or `memmgr_gpu`, which counts down. Lengths
are in half pages so that two blocks can share a page. Calls are atomic: the
manager's lock is held. A failed initialisation or replacement ends the
behaviour (`phase = "dead"`), as the device is then not used; so does an
initialisation with records but no page left after sorting, which skips the
wishes (`mi300_mem.c:380`). Not modelled: system memory and GART, the copy of
the list in a live update, reservations given up in a reload.

**Migration** is one VF on its way. The source's `struct gim_mig_file` is
`shadow`, `mask`, `copied`, `msg`, `ring`, `left`, and is shared by the user's
calls and the copy thread, each with its program counter. `PreCopy`, `AskSize`,
`StopCopy`, `Validate`, `UpdateShadow`, `Set`, `StateSize` are the calls that
find out what there is to copy; `Wake`, `Export`, `ExportBitmap`, `Clear`,
`Seal`, `CopyPage`, `MessageDone`, `Pause`, `Publish` the thread; `Read`,
`ReadRing`, `ReadReturns`, `RingEmpty`, `ReadMask`, `ReadWakes` are
`gim_migf_save_read`; `Complete`, `Release`, `Join` the end. `dbit`, `acc` and
`first` are the hardware's dirty bits, `acc_bits` and `is_first_query`; `Flr`
resets the VF, `GuestInit` is the guest's REQ_GPU_INIT_DATA, which clears its
bits and the abort mark, `GpuReset` a whole-GPU reset, which zeroes `acc_bits`
and may mark no migration at all. What libgv is told or asked is an event of its
queue, and any of them may meet the full access of a VF that shares an engine:
`SetAbort` may be dropped, `SetMigState` and the query refused (`Refused`,
`QueryFails`), and `SetDefault` at the release fails unnoticed. `lost` is a
history variable: which failures of the attempt have gone unmarked so. `next_copy_mask` is changed by both without a lock: `Collide` is
the overlap, in which one change is lost. The content of a page is the number
of the write that made it. The target is `target`: `Import` is what its thread
does with a unit. Its ring and thread keep the order, so the unit is imported
when it is read. `gap` is a history variable: a read has lost units. Not
modelled: peer-to-peer states, a VF that is not active (nothing is sent), what
PSP exports, hashes of the frame buffer, the checksum of a header. A refused
manifest is a failed export; a page copy waits for the end of the full access.

The theorems are in **WsStateProofs**, **SharedExclusionProofs**,
**ChainResetProofs**, **EventQueueProofs**, **MemMgrProofs**,
**WorldSwitchProofs** and **MigrationProofs**; **ListLemmas** holds the facts
about sequences and multiples that the last four need. **MCWsState** names the engines for TLC, **MCMemMgr** the lengths and alignments asked for.

## Runs

| Run | Instance | Shows |
|---|---|---|
| `ws_state` | 1 VF, PF, 2 engines | records stay consistent on engines that are not torn (`OneLiveContext`), walks are legal outside an FLR, finite and end where they should |
| `shared_exclusion` | 5 threads, 2 groups | groups exclude each other, gates hold a token per waiter, waiters get in, nobody is stuck |
| `chain_reset` | 3 GPUs, 3 requests, every failure at any node | GPUs reset together, barrier left clean, no orphaned member, requests served, no chain after a failure; the flag is cleared unless a failure disturbed the barrier (`FlagClearedUnharmed`) |
| `chain_reset_mode1` | violation | one failed mode-1 reset can leave the hive waiting at the barrier |
| `world_switch` | 2 VFs, 8 events of 14 kinds, 2 failures of any kind among the first 5 | resets never meet a running world switch, exclusive full access, lists and records agree; the code's assertions while nothing has failed |
| `world_switch_live` | 2 VFs, 5 events, 2 failures of VFs or FLRs | hung VFs are reset, the world switch is started again, every VF runs |
| `event_queue` | 1 VF and a PF in use, 1 caller, ring of 3, 4 events of 10 kinds | a waiting caller is lost only where a newer event replaces its own, urgency is kept, requests replace each other, nobody takes the GPU from a function in full access, calls return |
| `event_queue_resume` | violation | what was deferred till a resume stays deferred after it |
| `mem_mgr` | 2 clients, 5 pages, both managers, 2 bad pages, up to 4 pages bad in another mode, 3 indices | MemMgr implements Allocator; the list is sorted up to `tom`; blocks avoid pages bad in some mode; bad pages stay reserved; a replacement clears them |
| `mem_mgr_down` | violation | in the manager that counts down the page below the bad one is reserved |
| `migration` | 2 pages, ring of 2 units, reads of 1, 2 writes, 2 attempts, one failure or reset anywhere, any event refused or dropped | no dirty page is forgotten, through resets, refused queries and failed attempts; a waiting read is served; the VF never runs on both hosts; each unless the mark of one named failure was dropped |
| `migration_end` | violation, no failures, reads of 2 | a read at the wrong moment ends the stream without the last message, and the target runs without it |

Bounds. Two VFs give one that runs and one that waits; a third adds names, not
cases, since no code compares more than two. In `ws_state` the PF is the second
function: the state machine treats it as any other, but that it is never active;
the theorems cover every number of VFs. Two engines let one fail and one
go on. Three GPUs give a master, a requester and a bystander; three requests
let a chain reset overlap with a late request and another follow it. A ring of three holds two
events, so it fills and wraps within four pushes; one caller suffices to see one
lost, and one VF with the PF in use gives two that ask for the engines. Five to eight events reach
enter, leave, suspend, reset and a second request on top of each other. Two
failures let a recovery fail too, and come among the first five events so that
three more see the outcome. Memory of five pages, blocks of half a page to two
pages and three alignments give gaps of every kind in front of, between and
behind two clients; three indices let them run out. Two pages and a ring of two
units split a message over several turns of the thread; two writes let a page
be dirty again after it was copied, two attempts carry dirty bits from a failed
migration to the next. Reads of one unit take one turn of the loop, so that
a stream with a gap (see below) does not hide other failures; `migration_end` reads two. `MaxWake` caps unconsumed wake-ups at two:
the thread treats further ones alike. Deadlock checking is off where the bound
on events lets a behaviour end.

What the properties do not cover. Some hazards break a property on a path where
the code drops a result; the run then leaves the event or failure out, or the
property excepts the case; the hazard in `PROJECT.json` says so in its note, and
names no property where nothing of it is covered.

- WorldSwitch: `STOP_VF`, `SUSPEND_VF`, a failing PF or a failing FLR break
  `ContextAsserts`, `HungVfIsReset` or `EntryAssert`; `world_switch_live` has
  none of them but the FLR, and `AssertsWithoutFault` ends with the first
  failure. When no VF is active the hang of the PF is reported by an event that
  `handle_event_in_non_full_access` drops, and the world switch stays stopped.
- WsState: torn engines (above). `skip_run` has no property: after an FLR that
  leaves a VF active, HANDLE_CRASH loads it with `skip_run` and the walk from
  SHUTDOWN to LOAD sends INIT and RUN.
- EventQueue: `NoLostWaiter` and `CallReturns` except a caller whose event a
  newer one of its function has freed. What they still say: it happens in the
  replacing lists only, and nothing else loses a caller.
- MemMgr: `ReplaceClears` excepts the case that the indices have run out.
- Migration: `NoPageForgotten` and `ReaderIsServed` except a stream with a gap:
  the loop of `gim_mig_ringbuffer_data_copy_user` overwrites its count, and a
  copy thread that publishes during a read makes units disappear. Each property
  excepts the failure that a full access has kept from being marked, or whose
  mark the guest's initialisation has cleared: `NoPageForgotten` a failed query
  or copy thread, `ReaderIsServed` a failed thread, `RunsOnce` a suspend that
  failed or was refused; with any of these dropped the property is violated.
  The marks of all other failures may be dropped, and any query or change of
  state refused, and it holds.

The legacy FLR sequence has no run; the theorems of WsState cover it.

Fairness is weak and only for what the kernel or the hardware does by itself:
threads that can run, timers that fire, a full access that times out, event
threads of the GPUs, the copy thread and a read in progress of a migration.
Polls of the barrier get no strong fairness. Incoming events and the user's
calls get none: nobody must ask for anything. Every phase of the reset ends
because each is bounded by a timeout in the code; the ten seconds after which
a read gives up are not used to end it.

Refinement: `Implements` of MemMgr is the specification of Allocator with
`held` as the set of blocks in the list that belong to a client or a bad page.
`Alloc`, `Deferred` and `Rehome` place a block and are `Grant`; `Reserve`,
`ReservePage` and the last turn of `ReplacePage` put a bad page in the list and
are `Retire`; `Free` is `GiveBack`; `MoveOut` is `Displace`, for a block on a
page on record, and makes its client homeless until `Rehome` has placed it;
`Record` is `Report`, `SetSize` is `Resize`, the start and end of a reset are
`Close` and `Open`, a reset that finds no place is `Fail`; everything else,
placeholders included, stutters.

## Proofs

`WsStateProofs` proves, for any number of VFs, any finite set of engines and
both FLR sequences, `TypeCorrect`, `Isolation` (`OneLiveContext`) and
`SuccessIsReal` (`SuccessMeansArrived`). None is inductive alone. `IInv` adds:
`Pending`, what a command in flight is about; `Arrivals`, every engine of the
call is still to go, has failed or has arrived; `FlrProgress`, which engines an
FLR has shut down and which it left as found; `Tracked`, the engine's record is
its function's record, except on a torn engine and on one whose FLR is in
progress (`Loose`).
The legacy sequence needs that exception longest: its SHUTDOWN of one engine is
not recorded until the save that follows. Each action has its lemma; assumed
are only `NumVf \in 1..31` (the mask has 32 bits), a finite non-empty set of engines and a Boolean flag.

The second half of `WsStateProofs` goes on from that invariant to the walk over
the command graph and proves `CommandsLegal`
(`LegalOutsideFlr`) and `LoopOkayEnough`
(`NoInfiniteLoop`). `WInv` adds what the walk itself knows: `Jobs`, what each
entry point asks for;
`SavedAgrees`, an engine left by a SAVE has its function's context saved;
`FlrRecords`, the records an FLR leaves; `Quiet`, nothing is in flight outside a
wait; and `Budget`. That one is the termination argument: `Rank` counts the commands an
engine is still away from its goal, at most eight, every turn of the loop pays
one for each engine that moved, and `loop_okay` allows twenty for each.

`SharedExclusionProofs` proves, for any finite set of fewer than 256 threads
and any groups, `GroupsExclude` (`Exclusion`), `GatesBalanced`
(`TokenPerWaiter`) and `LockTypes`. `IInv` counts: `Counted` ties each counter
to the threads that entered, `Owner` ties the semaphore to one active group,
`Places` says where threads of inactive groups can be, and `TokenPerWaiter` is
needed itself so that a late thread cannot take a waiter's token.

`ChainResetProofs` proves for every number of GPUs, any faults and any number of
requests `TypeCorrect`, `ResetsTogether` (`ResetTogether`), `NeverOrphaned`
(`NoOrphan`), `EndsClean` (`BarrierClean`) and `BadHiveStaysDown`
(`NoChainAfterFailure`). `IInv` has two layers. `Counted` ties the barrier's
counters to the GPUs in it, `Gathered` says that nobody is inside unless all
are in it, `Marked` and `Joined` tie the flag and the
internal events to a chain reset that exists: these hold whatever fails. While no
GPU that failed at the inner barrier has come to the outer one (`Aligned`) the rest is `Calm`: GPUs are in
the same use of the barrier, none enters the next before all have left the last,
none is a phase ahead. Such a failure breaks exactly this, which the run
`chain_reset_mode1` shows.

`EventQueueProofs` proves for every size of the ring, any functions, callers and
events `QueueTypes`, `UrgencyKept` (`NextIsMostUrgent`), `RequestsReplaced`
(`OneRequestEach`), `WaitersKept` (`NoLostWaiter`) and `NobodyTakesOver`
(`NoTakeover`). `IInv`: `Occupied`, what is popped from between the two indices
is an event, also after they wrapped around; `Placed`, an
event is on the list of its kind; `Batched` and `InHand`, what the thread holds
between taking an event and being done with it; `Waiters`, where the event of a
waiting caller is, or that it was freed; `FreedPlaces`, in which lists events
are freed. Urgency, single requests and waiters are proved together:
what a replaced request does to a list moves the event that `next_event` and a
caller point to.

`MemMgrProofs` proves, for every region and size of a page, any requests,
clients and bad pages and both managers, `ListWellFormed` (`WellFormed`),
`NpsAvoided` (`AvoidsNps`), `BadPagesKept` (`BadPageKept`), `ManagerImplements`
(`Implements`, the refinement of Allocator) and `PagesReplaced`
(`ReplaceClears`). `IInv` has `ListOk` (the list sorted for any two blocks, `tom`
its end, blocks inside the region, one block for each client), `Waiting` (blocks
outside the list are of clients that have none in it, so placing one keeps
one each), `Phases` (what a phase has emptied), `Covered` (a page bad in
some mode is out of reach, behind a placeholder or still to come: with the
order of the list this is why no block can be on it) and `Kept` (a recorded
page has its block). Every action adds one block that fits its gap (`Adds`,
`Fits`) or drops one (`Drops`); the invariant is shown once for these two and
each action is shown to be one of them, the searches by what the smallest
index that fits says of those before it. `PagesReplaced` needs `Seen` and
`Emptied` too, the records the replacement is through with, and the
hypothesis `WholePages`: the region ends with a page, as regions given in
megabytes do (`amdgv_umc_is_bp_in_range` skips a page that sticks out).
In the manager that counts down lengths are multiples of their alignment
(`Asked`), as its callers ask.

`WorldSwitchProofs` proves, for any number of VFs and any number of events and
failures, `TypeInvariant` (`TypeOK`, which no run repeats), `StoppedAssertsHold` (`StoppedAsserts`),
`FullAccessIsExclusive` (`FullAccessExclusive`) and `HwAlwaysAgrees`
(`HwAgrees`). The last is inductive as it is. The others are about what the event
thread has still to do, so `IInv` is about the sequence `todo`: its operations
are well formed, with branches nested at most two deep; `StartLast`, behind an
operation that starts the world switch stand only those that may run beside it;
`Guarded`, the world switch is stopped or a stop comes before any other
operation; `Granting`, full access is given by the last operation of a handler,
to a VF that the engines are on, that is still to be loaded, or after a return;
`Holding`, while a VF has full access it owns the engines and the handler deals
only with other VFs, or the handler is on its way to the end of the full access.
"On its way" is `Path`: from the first operation to a given one every failure is
caught by a branch that itself leads there. The argument has two halves. Every
operation changes `todo` in one of four ways (`Proceeds`: its body is pushed, a
failure jumps to a catch, the handler returns, a timeout ends the full access),
and each of the four keeps a path, whatever the handler is; and every handler, when
it is taken up, has the paths it needs (`Prepared`). Assumed is only that there
is a VF and that the bounds are natural numbers, failures allowed among no more
events than there are.

The second half of `WorldSwitchProofs` proves, from the same assumptions,
`ListAlwaysMatches` (`ListMatches`), whatever fails, and
`AssertsHoldWithoutFault` (`AssertsWithoutFault`). Both need what each operation
assumes of the state the ones before it leave. `World` is the part of the state
this is about: the engines, the entries, who has a context, the VFs' status,
who has full access, whether something has failed and whether the world switch
runs. `Pre` says what an operation needs of a `World`, `After` what it leaves
when it succeeds and `Fail` when it fails; an operation with a body (`loop`,
`auto`, `orphan`, `fini`) has its body shown to keep what the operation
promises (`LoopGood`, `AutoGood`, ...). A failure goes on at `Landing`, the
nearest catch. Which sequences are safe to start in which `World` is not written
down: `Good` is the greatest set of pairs that the operations and the drift of a
running switching thread (`Drifts`) do not leave, that meets every `Pre` on the
way and ends in a `Final` world, where every VF but the one in full access is in
the list if and only if it is active, with a context. Such a set is closed under
its own steps by definition (`GoodGoes`), and membership of a handler follows by
unfolding it operation by operation (`EnterForInitGood` to `ExitFiniGood`), with
no induction over the sequence. The invariant is `CInv`: the `IInv` of
the first half; the pair at hand is `Good`; `Listed`, the list has each
entry once; `Awake`, the engines are where the switching thread may save them
while it can run. It needs `IInv` because only a stopped world switch leaves the
`World` alone between two operations. `Good` is second order, so TLC evaluates
the properties and not this invariant.

`MigrationProofs` proves, for any number of pages, every size of the ring and
of the reads, and any failures, `NeverTwice` (`RunsOnce`), `WritesStayMarked`
(`WrittenIsMarked`), `NothingForgotten` (`NoPageForgotten`) and `RingNeverOverrun`.
`IInv`: `Halted`, a VF believed to be stopped is stopped or the migration is
marked to be aborted, and a read in progress has seen no mark, so the end of the
stream is reached only over a stopped VF, unless the mark of a failed suspend
was dropped (`Slipped`); `Room`, what the copy thread has in
hand fits the room it found, which the reader can only enlarge; `Taken` and
`Returned`, where a read in progress is and what it will return; `Phase` and
`Held`, a migration and a message start with nothing left of the one before;
and `Follows`, which carries `NoPageForgotten`: source and target agree, over
all that is on its way, on the pages that are to follow the last header
(`Matches`), so the page the copy thread sends is the one the target expects.
The mark alone is not inductive: an abort is forgotten when the file is
released. What the target holds is a fold over the stream. `FoldExists` and
`FoldRuns` unfold the library's definition by least counterexample (`MinFacts`);
after them only `ImportedConcat` is used, that a stream sent in two parts is
imported in two parts: a read moves units from the ring to the target, and the
copy thread adds one at the end.

Only model-checked: `ContextAsserts` of WorldSwitch, which after a failure holds
only for the events and failures that `world_switch_live` allows, so that it is
no theorem of the specification (without a failure it is, as a part of
`AssertsWithoutFault`); and everything about liveness: the provers here have no
rule for fairness.
The violations are counterexamples and need no proof.

## Plan

1. Proofs: `ContextAsserts` under the failures of VFs and FLRs alone, with `Fail`
   of `WorldSwitchProofs` split by the kind of failure.
2. The event guard as a sliding window, refined to "at most threshold events
   in any interval" (a threshold lowered while events are active leaves
   `origin_idx` outside the window, `amdgv_guard.c:453`); mailbox and interrupt ring feeding EventQueue.
3. FFBM as an algorithm against a reference; RAS log ring (a batch that is
   still open when older ones are deleted, `ras_log_ring.c:127`), fifo and
   EEPROM table with crashes between writes.
4. Live update: export and import of the scheduler, of the memory manager's
   list and of unprocessed events; auto mode of the state machine; the full
   ring of EventQueue under the broadcast of ChainReset.

## Not modelled

Register protocols, formats, tables or wrappers without a state machine of
their own: PSP, monitor, ASIC initialisation, diagnosis data, logs, device API,
kernel services, memory sentinel, management libraries. Register headers and
firmware images under `hw/*/asic_reg`, `hwip/asic_reg` and `ucode`, by far most
lines of the repository, are data. Parts with state that have no module yet are
in the plan.
