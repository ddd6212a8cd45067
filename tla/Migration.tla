----------------------------- MODULE Migration -----------------------------
(***************************************************************************)
(* Live migration of one VF (src/gim/gim_shim/gim_mig.c and the dirty-bit  *)
(* and abort bookkeeping of libgv it relies on).                           *)
(*                                                                         *)
(* Three actors share struct gim_mig_file on the source.  The user process *)
(* (one thread of the virtual machine monitor, external) calls ioctl, read *)
(* and set_state.  The copy thread builds messages and puts them in the    *)
(* ring buffer.  The VF writes its frame buffer while it is scheduled, and *)
(* the hardware marks the pages it writes.  A message is a header, which   *)
(* carries the sections and the bitmap of dirty pages, followed by those   *)
(* pages.  The user sends what it reads to the target, whose copy thread   *)
(* imports it; the channel and the target's own ring keep the order of the *)
(* units, and a unit is imported when it is read.                          *)
(*                                                                         *)
(* Data: the content of a page is the number of the write that made it; a  *)
(* page that was never written is 0 on the source and on every target.     *)
(* The header is one unit of the ring, a page another one.  The context    *)
(* section is treated exactly as the static one and is part of it.         *)
(*                                                                         *)
(* What libgv is told and asked are events of its queue (EventQueue).      *)
(* While a VF that shares an engine has full access they have another      *)
(* handler: it drops the abort mark, refuses to change the migration state *)
(* or to query dirty bits, and reports only the refusals.  Any of these    *)
(* events may meet a full access ("access").                               *)
(***************************************************************************)
EXTENDS Naturals, Integers, FiniteSets, FiniteSetsExt, SequencesExt

CONSTANTS
    NumPages,     \* pages of the VF's frame buffer
    RingSize,     \* units the ring buffer can hold
    ReadLen,      \* units the user asks for in a read
    Faults,       \* which failures and resets happen
    MaxWrites,    \* bound: writes of the VF
    MaxCalls,     \* bound: size queries of the user
    MaxAttempts,  \* bound: migrations started
    MaxFaults     \* bound: failures and resets of the VF

ASSUME MigrationAssumption ==
    /\ {NumPages, RingSize, ReadLen} \subseteq Nat \ {0}
    /\ Faults \subseteq {"setup", "suspend", "validate", "query", "export",
                         "copy", "import", "timeout", "flr", "init", "wgr", "access"}
    /\ {MaxWrites, MaxCalls, MaxAttempts, MaxFaults} \subseteq Nat

Page == 1 .. NumPages

VARIABLES
    fb,       \* content of the VF's pages on the source
    dbit,     \* pages whose hardware dirty bit is set
    acc,      \* acc_bits: pages dirty since the VF was initialised
    first,    \* is_first_query
    running,  \* the VF is scheduled
    mig,      \* mig_state of the VF in libgv
    abort,    \* the VF's migration is to be aborted
    lost,     \* history: the failures of this attempt whose mark was dropped
    shadow,   \* shadow_bitmap
    mask,     \* next_copy_mask
    copied,   \* copied_mask
    msg,      \* the message buffer: its header and the bitmap in it
    ring,     \* units between rptr and wptr
    state,    \* ring.state, what the copy thread is to do
    mid,      \* copied_size_thread > 0: the header of a message is in the ring
    tpc, buf, room,           \* the copy thread's program counter and locals
    upc, want, dyna, pending, \* the user's program counter and locals
    got, took, \* what a read will return, and the units it has passed
    dev,      \* curr_state of the VF, as the user believes it to be
    left,     \* left_bytes_fd, in units
    target,   \* the target's frame buffer, bitmap, copied_mask, and soundness
    tdev,     \* curr_state of the target
    used      \* how much of each bound is used

dirt   == <<dbit, acc, first>>
mark   == <<abort, lost>>
thread == <<tpc, buf, room>>
read   == <<got, took>>
user   == <<upc, want, dyna, pending, read>>
remote == <<target, tdev>>
vars   == <<fb, dirt, running, mig, mark, shadow, mask, copied, msg, ring,
            state, mid, thread, user, dev, left, remote, used>>

(* A unit of the stream is a header (version, valid sections, length and   *)
(* bitmap) or the content v of one page.                                   *)
Blank      == [ver |-> 0, secs |-> {}, len |-> 0, bm |-> {}, v |-> 0]
Content(v) == [Blank EXCEPT !.v = v]

(* gap is no state of the code: units that a read took from the ring and   *)
(* did not return are missing from the stream.                             *)
Fresh == [fb |-> [p \in Page |-> 0], bm |-> {}, copied |-> {}, ok |-> TRUE, gap |-> FALSE]
Failed(gap) == [Fresh EXCEPT !.ok = FALSE, !.gap = gap]  \* what it has is of no use

Count(what, max) ==
    /\ used[what] < max
    /\ used' = [used EXCEPT ![what] = @ + 1]

Fault(f) == f \in Faults /\ Count("fault", MaxFaults)

Init ==
    /\ fb = [p \in Page |-> 0] /\ dbit = {} /\ acc = {} /\ first = FALSE
    /\ running = TRUE /\ mig = "DEFAULT" /\ abort = FALSE /\ lost = {}
    /\ shadow = {} /\ mask = {} /\ copied = {} /\ msg = Blank
    /\ ring = <<>> /\ state = "PAUSED" /\ mid = FALSE
    /\ tpc = "wait" /\ buf = <<>> /\ room = 0
    /\ upc = "idle" /\ want = {} /\ dyna = FALSE /\ pending = FALSE
    /\ got = <<>> /\ took = 0
    /\ dev = "RUNNING" /\ left = 0
    /\ target = Fresh /\ tdev = "NONE"
    /\ used = [write |-> 0, call |-> 0, attempt |-> 0, fault |-> 0]

-----------------------------------------------------------------------------
(* The VF and its dirty bits.                                              *)

Write(p) ==
    /\ running
    /\ Count("write", MaxWrites)
    /\ fb' = [fb EXCEPT ![p] = used'.write]
    /\ dbit' = dbit \cup {p}
    /\ UNCHANGED <<acc, first, running, mig, mark, shadow, mask, copied, msg,
                   ring, state, mid, thread, user, dev, left, remote>>

(* amdgv_live_migration_abort_check, when an event of the VF is taken from *)
(* the ring.                                                               *)
AbortCheck == abort' = (abort \/ mig \in {"PRE_COPY", "STOP_COPY"}) /\ UNCHANGED lost

(* The event meets the full access of another VF.                          *)
InFullAccess == "access" \in Faults

(* amdgv_migration_set_abort after a failure, why: the mark is set, or     *)
(* handle_event_in_full_access drops it and the caller is told it is set.  *)
SetAbort(why) ==
    \/ abort' = TRUE /\ UNCHANGED lost
    \/ InFullAccess /\ ~abort /\ lost' = lost \cup why /\ UNCHANGED abort

(* amdgv_live_migration_set_vf_mig_state.                                  *)
SetMigState(s) ==
    /\ mig' = s
    /\ first' = CASE s = "DEFAULT" -> FALSE
                 [] s = "PRE_COPY" -> TRUE
                 [] s = "STOP_COPY" -> first \/ mig # "PRE_COPY"

(* A full access refuses the change.                                       *)
Refused == InFullAccess /\ UNCHANGED <<mig, first>>

(* Back to DEFAULT, which clears the mark; nobody looks whether it worked. *)
SetDefault ==
    \/ SetMigState("DEFAULT") /\ abort' = FALSE
    \/ Refused /\ UNCHANGED abort

(* A reset of the VF: taking the event from the queue aborts a migration   *)
(* under way, and the dirty bits, which the reset clears, are accumulated  *)
(* first; without a ring of its own to read them with, all pages are.      *)
Flr ==
    /\ upc # "gone"
    /\ Fault("flr")
    /\ AbortCheck
    /\ acc' \in {acc \cup dbit, Page}
    /\ dbit' = {}
    /\ UNCHANGED <<fb, first, running, mig, shadow, mask, copied, msg, ring,
                   state, mid, thread, user, dev, left, remote>>

(* The VF starts anew: what it wrote is of no use to it.  Its bits and     *)
(* acc_bits are cleared; bits that cannot be read stay.                    *)
StartAnew ==
    /\ upc # "gone"
    /\ fb' = [p \in Page |-> 0] /\ acc' = {} /\ dbit' \in SUBSET dbit
    /\ UNCHANGED <<first, running, mig, shadow, mask, copied, msg, ring,
                   state, mid, thread, user, dev, left, remote>>

(* REQ_GPU_INIT_DATA: the guest initialises the VF.  The mark the event    *)
(* has set when it was taken from the ring is cleared, and so is any other.*)
GuestInit ==
    /\ Fault("init") /\ StartAnew
    /\ abort' = FALSE /\ lost' = IF abort THEN lost \cup {"init"} ELSE lost

(* amdgv_reset_gpu_and_reinit, the VFs' memory with it.  Only a reset that *)
(* follows from the failed reset of a VF marks migrations: abort_check     *)
(* passes over the events of the PF, which a whole-GPU reset is.           *)
GpuReset ==
    /\ Fault("wgr") /\ StartAnew
    /\ AbortCheck \/ UNCHANGED mark

(* Mutant: the first query of a migration leaves acc_bits out.             *)
QueryDirtybitNew ==
    /\ ~abort
    /\ shadow' = shadow \cup dbit
    /\ acc' = acc \cup dbit \cup shadow
    /\ dbit' = {} /\ first' = FALSE
    /\ UNCHANGED <<mark, used>>

(* QUERY_DIRTYBIT_DATA: the bits read, and cleared, are added to the       *)
(* buffer and to acc_bits; the first query of a migration returns acc_bits *)
(* too.                                                                    *)
QueryDirtybit ==
    /\ ~abort
    /\ shadow' = shadow \cup dbit \cup (IF first THEN acc ELSE {})
    /\ acc' = acc \cup dbit \cup shadow
    /\ dbit' = {} /\ first' = FALSE
    /\ UNCHANGED <<mark, used>>

(* It is refused when the migration is aborted or in a full access, and    *)
(* then reads nothing; or the hardware fails: bits are lost and every page *)
(* counts as dirty.                                                        *)
QueryFails ==
    /\ \/ (abort \/ InFullAccess) /\ SetAbort({}) /\ UNCHANGED <<dbit, acc, used>>
       \/ /\ ~abort /\ Fault("query") /\ SetAbort({"query"})
          /\ acc' = Page /\ dbit' \in SUBSET dbit
    /\ UNCHANGED <<first, shadow>>

-----------------------------------------------------------------------------
(* The copy thread of the source.                                          *)

(* Mutant: the thread runs only while next_copy_mask asks for something.   *)
WakeIfAsked ==
    /\ tpc = "wait" /\ upc # "join" /\ mask # {}
    /\ state = "RUNNING" /\ Len(ring) < RingSize
    /\ room' \in 1 .. RingSize - Len(ring) /\ buf' = <<>>
    /\ tpc' = IF mid THEN "page" ELSE "export"
    /\ UNCHANGED <<fb, dirt, running, mig, mark, shadow, mask, copied, msg,
                   ring, state, mid, user, dev, left, remote, used>>

(* gim_mig_data_copy_thread: the thread runs while it is told to and the   *)
(* ring has room; what it copies becomes visible when it is done.  Where   *)
(* the ring wraps around, only the room up to there is used.               *)
Wake ==
    /\ tpc = "wait" /\ upc # "join"
    /\ state = "RUNNING" /\ Len(ring) < RingSize
    /\ room' \in 1 .. RingSize - Len(ring) /\ buf' = <<>>
    /\ tpc' = IF mid THEN "page" ELSE "export"
    /\ UNCHANGED <<fb, dirt, running, mig, mark, shadow, mask, copied, msg,
                   ring, state, mid, user, dev, left, remote, used>>

(* An export or a copy fails, always so once the migration is aborted;     *)
(* what was copied and not yet published is dropped.                       *)
ThreadFails(f) ==
    /\ (abort /\ UNCHANGED used) \/ Fault(f)
    /\ SetAbort({"thread"}) /\ state' = "ABNORMAL"
    /\ tpc' = "wait" /\ buf' = <<>> /\ room' = 0
    /\ UNCHANGED <<fb, dirt, running, mig, shadow, mask, copied, msg, ring, mid,
                   user, dev, left, remote>>

(* gim_mig_ringbuffer_data_copy: pages follow if there is room for them    *)
(* beside the header.                                                      *)
AfterHeader == IF room > 1 THEN "page" ELSE "publish"

(* gim_mig_vf_data_export: nothing to copy leaves the message as it is.    *)
Export ==
    /\ tpc = "export"
    /\ \/ mask = {} /\ buf' = <<msg>> /\ tpc' = AfterHeader
       \/ mask # {} /\ tpc' = "STATIC" /\ UNCHANGED buf
    /\ UNCHANGED <<fb, dirt, running, mig, mark, shadow, mask, copied, msg,
                   ring, state, mid, room, user, dev, left, remote, used>>

AfterSection == [STATIC |-> "DYNAMIC", DYNAMIC |-> "BITMAP"]

(* The bitmap section: the shadow becomes the bitmap of the message, under *)
(* shadow_lock; its bit in next_copy_mask is cleared afterwards.           *)
ExportBitmap ==
    /\ tpc = "BITMAP" /\ "BITMAP" \in mask
    /\ msg' = [msg EXCEPT !.bm = shadow, !.len = @ + Cardinality(shadow),
                          !.secs = @ \cup {"BITMAP"}]
    /\ shadow' = {}
    /\ tpc' = "clear"
    /\ UNCHANGED <<fb, dirt, running, mig, mark, mask, copied, ring, state, mid,
                   buf, room, user, dev, left, remote, used>>

(* A section that is not wanted is passed over.                            *)
SkipSection ==
    /\ tpc \in {"STATIC", "DYNAMIC", "BITMAP"} /\ tpc \notin mask
    /\ tpc' = IF tpc = "BITMAP" THEN "seal" ELSE AfterSection[tpc]
    /\ UNCHANGED <<fb, dirt, running, mig, mark, shadow, mask, copied, msg,
                   ring, state, mid, buf, room, user, dev, left, remote, used>>

ExportFails == tpc \in {"STATIC", "DYNAMIC"} /\ tpc \in mask /\ ThreadFails("export")

(* What the thread does when it takes bit b from next_copy_mask; the       *)
(* assignment to the mask itself is in Clear and Collide.                  *)
TakeSection(b) ==
    /\ \/ /\ tpc = b /\ b \in {"STATIC", "DYNAMIC"} /\ b \in mask /\ ~abort
          /\ msg' = [msg EXCEPT !.secs = @ \cup {b}]
          /\ tpc' = AfterSection[b]
       \/ /\ tpc = "clear" /\ b = "BITMAP"
          /\ tpc' = "seal"
          /\ UNCHANGED msg
    /\ copied' = copied \cup {b}
    /\ UNCHANGED <<buf, room>>

(* The header is completed and copied to the ring; pages follow at once if *)
(* there is room beside it.                                                *)
Seal ==
    /\ tpc = "seal"
    /\ msg' = [msg EXCEPT !.ver = 1, !.len = @ + 1]
    /\ buf' = <<msg'>>
    /\ tpc' = AfterHeader
    /\ UNCHANGED <<fb, dirt, running, mig, mark, shadow, mask, copied, ring,
                   state, mid, room, user, dev, left, remote, used>>

(* gim_mig_vf_dirty_fb_copy: one page of the bitmap.                       *)
CopyPage ==
    /\ tpc = "page" /\ msg.bm # {} /\ ~abort
    /\ LET p == Min(msg.bm) IN
         /\ buf' = Append(buf, Content(fb[p]))
         /\ msg' = [msg EXCEPT !.bm = @ \ {p}]
    /\ tpc' = IF msg'.bm = {} THEN "page"
              ELSE IF Len(buf') < room THEN "page" ELSE "publish"
    /\ UNCHANGED <<fb, dirt, running, mig, mark, shadow, mask, copied, ring,
                   state, mid, room, user, dev, left, remote, used>>

CopyFails == tpc = "page" /\ msg.bm # {} /\ ThreadFails("copy")

(* The bitmap is used up: the message is cleared, and the thread pauses if *)
(* nothing is waiting to be copied.                                        *)
MessageDone ==
    /\ tpc = "page" /\ msg.bm = {}
    /\ msg' = Blank
    /\ tpc' = IF mask = {} THEN "pause" ELSE "done"
    /\ UNCHANGED <<fb, dirt, running, mig, mark, shadow, mask, copied, ring,
                   state, mid, buf, room, user, dev, left, remote, used>>

Pause ==
    /\ tpc = "pause"
    /\ state' = "PAUSED" /\ tpc' = "done"
    /\ UNCHANGED <<fb, dirt, running, mig, mark, shadow, mask, copied, msg,
                   ring, mid, buf, room, user, dev, left, remote, used>>

(* The units copied become readable: wptr is moved.                        *)
Publish ==
    /\ tpc \in {"publish", "done"}
    /\ ring' = ring \o buf
    /\ mid' = (tpc = "publish")
    /\ tpc' = "wait" /\ buf' = <<>> /\ room' = 0
    /\ UNCHANGED <<fb, dirt, running, mig, mark, shadow, mask, copied, msg,
                   state, user, dev, left, remote, used>>

-----------------------------------------------------------------------------
(* The calls of the user on the source.                                    *)

(* RUNNING -> PRE_COPY: libgv is told, then gim_mig_setup_copy.            *)
PreCopy ==
    /\ upc = "idle" /\ dev = "RUNNING"
    /\ Count("attempt", MaxAttempts)
    /\ SetMigState("PRE_COPY")
    /\ dev' = "PRE_COPY" /\ state' = "PAUSED"
    /\ target' = Fresh /\ tdev' = "RESUMING"
    /\ UNCHANGED <<fb, dbit, acc, running, mark, shadow, mask, copied, msg,
                   ring, mid, thread, user, left>>

(* When the change is refused, or the buffers, the thread or the file      *)
(* cannot be made, the state stays RUNNING and the migration is marked     *)
(* aborted.                                                                *)
PreCopyFails ==
    /\ upc = "idle" /\ dev = "RUNNING"
    /\ \/ Refused /\ UNCHANGED used
       \/ SetMigState("PRE_COPY") /\ Fault("setup")
    /\ SetAbort({})
    /\ UNCHANGED <<fb, dbit, acc, running, shadow, mask, copied, msg, ring,
                   state, mid, thread, user, dev, left, remote>>

(* gim_migf_save_ioctl, in PRE_COPY only, and gim_mig_get_state_size ask   *)
(* how much there is to copy.                                              *)
AskSize ==
    /\ upc = "idle" /\ Count("call", MaxCalls)
    /\ \/ dev = "PRE_COPY" /\ upc' = "validate" /\ dyna' = FALSE
       \/ dev \in {"PRE_COPY", "STOP_COPY"} /\ upc' = "size" /\ UNCHANGED dyna
    /\ UNCHANGED <<fb, dirt, running, mig, mark, shadow, mask, copied, msg,
                   ring, state, mid, thread, read, want, pending, dev, left, remote>>

(* PRE_COPY -> STOP_COPY: libgv is told, the VF is suspended and           *)
(* update_msg_copy_info called a last time, its result ignored.  When one  *)
(* of the first two fails nothing more is done, and the user is not told.  *)
StopCopy ==
    /\ upc = "idle" /\ dev = "PRE_COPY"
    /\ dev' = "STOP_COPY"
    /\ \/ /\ SetMigState("STOP_COPY")
          /\ running' = FALSE /\ dyna' = TRUE /\ upc' = "validate"
          /\ UNCHANGED <<mark, used>>
       \/ /\ \/ Refused /\ UNCHANGED used
             \/ SetMigState("STOP_COPY") /\ Fault("suspend")
          /\ SetAbort({"suspend"}) /\ UNCHANGED <<running, dyna, upc>>
    /\ UNCHANGED <<fb, dbit, acc, shadow, mask, copied, msg, ring, state, mid,
                   thread, read, want, pending, left, remote>>

(* gim_mig_update_msg_copy_info, up to the first change of the mask: the   *)
(* sections not yet copied are wanted.  A VF in the wrong state aborts the *)
(* migration; one that was not active before either is skipped.            *)
Validate ==
    /\ upc = "validate"
    /\ \/ /\ want' = ({"STATIC"} \cup IF dyna THEN {"DYNAMIC"} ELSE {}) \ copied
          /\ upc' = "set"
          /\ UNCHANGED <<mark, used>>
       \/ /\ Fault("validate") /\ (SetAbort({}) \/ UNCHANGED mark)
          /\ upc' = "idle" /\ UNCHANGED want
    /\ dyna' = FALSE
    /\ UNCHANGED <<fb, dirt, running, mig, shadow, mask, copied, msg, ring, state,
                   mid, thread, read, pending, dev, left, remote>>

(* The user's side of adding the wanted bits to next_copy_mask.            *)
AddWanted ==
    /\ upc \in {"set", "setBitmap"}
    /\ upc' = IF upc = "set" THEN "query" ELSE "idle"
    /\ want' = {}
    /\ UNCHANGED <<dyna, pending, read>>

(* gim_mig_update_shadow_dirtybit, under shadow_lock.                      *)
UpdateShadow ==
    /\ upc = "query"
    /\ \/ /\ QueryDirtybit
          /\ want' = IF shadow' = {} THEN {} ELSE {"BITMAP"}
          /\ upc' = "setBitmap"
          /\ UNCHANGED mask
       \/ /\ QueryFails
          /\ mask' = {} /\ upc' = "idle" /\ UNCHANGED want
    /\ UNCHANGED <<fb, running, mig, copied, msg, ring, state, mid, thread, read, dyna,
                   pending, dev, left, remote>>

(* gim_mig_get_state_size validates the VF's state too; it fills the       *)
(* shadow and leaves the mask alone.                                       *)
StateSize ==
    /\ upc = "size"
    /\ \/ QueryDirtybit \/ QueryFails
       \/ /\ Fault("validate") /\ (SetAbort({}) \/ UNCHANGED mark)
          /\ UNCHANGED <<dirt, shadow>>
    /\ upc' = "idle"
    /\ UNCHANGED <<fb, running, mig, mask, copied, msg, ring, state, mid, thread, read,
                   want, dyna, pending, dev, left, remote>>

(* The two sides of next_copy_mask are plain read-modify-writes of one     *)
(* word by two threads without a common lock.                              *)
Set ==
    /\ AddWanted /\ mask' = mask \cup want
    /\ UNCHANGED <<fb, dirt, running, mig, mark, shadow, copied, msg, ring,
                   state, mid, thread, read, dev, left, remote, used>>

Clear ==
    \E b \in {"STATIC", "DYNAMIC", "BITMAP"} :
      /\ TakeSection(b) /\ mask' = mask \ {b}
      /\ UNCHANGED <<fb, dirt, running, mig, mark, shadow, ring, state, mid,
                     user, dev, left, remote, used>>

(* When they overlap one of them is lost.                                  *)
Collide ==
    \E b \in {"STATIC", "DYNAMIC", "BITMAP"} :
      /\ TakeSection(b) /\ AddWanted
      /\ mask' \in {mask \cup want, mask \ {b}}
      /\ UNCHANGED <<fb, dirt, running, mig, mark, shadow, ring, state, mid,
                     dev, left, remote, used>>

-----------------------------------------------------------------------------
(* gim_migf_save_read.                                                     *)

(* Mutant: the read does not ask whether the migration is to be aborted.   *)
ReadUnasked ==
    /\ upc = "idle" /\ dev \in {"PRE_COPY", "STOP_COPY"}
    /\ upc' = IF state = "ABNORMAL" \/ left < 0 THEN "failed" ELSE "ring"
    /\ pending' = FALSE
    /\ UNCHANGED <<fb, dirt, running, mig, mark, shadow, mask, copied, msg,
                   ring, state, mid, thread, read, want, dyna, dev, left, remote, used>>

Read ==
    /\ upc = "idle" /\ dev \in {"PRE_COPY", "STOP_COPY"}
    /\ upc' = IF state = "ABNORMAL" \/ abort \/ left < 0 THEN "failed" ELSE "ring"
    /\ pending' = FALSE
    /\ UNCHANGED <<fb, dirt, running, mig, mark, shadow, mask, copied, msg,
                   ring, state, mid, thread, read, want, dyna, dev, left, remote, used>>

(* gim_mig_vf_data_import and gim_mig_vf_dirty_fb_copy on the target: the  *)
(* pages of a message follow its header in the order of the bitmap.        *)
Import(t, u) ==
    IF ~t.ok THEN t
    ELSE IF t.bm # {}
      THEN [t EXCEPT !.fb[Min(t.bm)] = u.v, !.bm = @ \ {Min(@)}]
    ELSE IF u.ver = 1 /\ u.secs \cap t.copied \cap {"STATIC", "DYNAMIC"} = {}
      THEN [t EXCEPT !.copied = @ \cup u.secs, !.bm = u.bm]
    ELSE Failed(t.gap)

(* gim_mig_ringbuffer_data_copy_user takes what is in the ring and looks   *)
(* again while the user's buffer has room.  Each turn writes behind what   *)
(* the last one wrote and forgets the turns before it.  The first unit of  *)
(* a message says how long it is.                                          *)
ReadRing ==
    /\ upc = "ring" /\ took < Len(ring) /\ Len(got) < ReadLen
    /\ LET n == Min({Len(ring) - took, ReadLen - Len(got)}) IN
         /\ got' = SubSeq(got \o SubSeq(ring, took + 1, took + n), 1, n)
         /\ took' = took + n
    /\ left' = IF left = 0 THEN ring[took + 1].len ELSE left
    /\ UNCHANGED <<fb, dirt, running, mig, mark, shadow, mask, copied, msg,
                   ring, state, mid, thread, upc, want, dyna, pending, dev,
                   remote, used>>

(* Then rptr is moved and the call returns the count of its last turn.     *)
(* The user sends that much to the target, which imports nothing after a   *)
(* failure.                                                                *)
ReadReturns ==
    /\ upc = "ring" /\ took > 0
    /\ took = Len(ring) \/ Len(got) = ReadLen
    /\ ring' = SubSeq(ring, took + 1, Len(ring))
    /\ left' = left - Len(got)
    /\ LET gap == target.gap \/ Len(got) < took IN
       \/ target' = [FoldLeft(Import, target, got) EXCEPT !.gap = gap] /\ UNCHANGED used
       \/ target' = Failed(gap) /\ Fault("import")
    /\ got' = <<>> /\ took' = 0
    /\ upc' = "idle" /\ pending' = FALSE
    /\ UNCHANGED <<fb, dirt, running, mig, mark, shadow, mask, copied, msg,
                   state, mid, thread, want, dyna, dev, tdev>>

RingEmpty ==
    /\ upc = "ring" /\ ring = <<>>
    /\ upc' = "mask"
    /\ UNCHANGED <<fb, dirt, running, mig, mark, shadow, mask, copied, msg,
                   ring, state, mid, thread, read, want, dyna, pending, dev, left,
                   remote, used>>

(* gim_mig_wait_with_timeout, then the ring is looked at again.            *)
SleepOrTimeOut ==
    \/ upc' = "ring" /\ UNCHANGED used
    \/ upc' = "failed" /\ Fault("timeout")

(* With nothing in the ring the call wakes the thread if something is to   *)
(* be copied, and waits if it has done so before or the message is         *)
(* incomplete; otherwise it returns 0, which in STOP_COPY is the end of    *)
(* the stream.                                                             *)
ReadMask ==
    /\ upc = "mask"
    /\ \/ mask # {} /\ upc' = "wake" /\ UNCHANGED used
       \/ mask = {} /\ (pending \/ left > 0) /\ SleepOrTimeOut
       \/ /\ mask = {} /\ ~pending /\ left <= 0
          /\ upc' = IF dev = "STOP_COPY" THEN "eof" ELSE "idle"
          /\ UNCHANGED used
    /\ UNCHANGED <<fb, dirt, running, mig, mark, shadow, mask, copied, msg,
                   ring, state, mid, thread, read, want, dyna, pending, dev, left,
                   remote>>

(* A thread that pauses at the same time is woken again by the next turn.  *)
ReadWakes ==
    /\ upc = "wake"
    /\ state' = "RUNNING" /\ pending' = TRUE
    /\ SleepOrTimeOut
    /\ UNCHANGED <<fb, dirt, running, mig, mark, shadow, mask, copied, msg,
                   ring, mid, thread, read, want, dyna, dev, left, remote>>

-----------------------------------------------------------------------------
(* The end of a migration.                                                 *)

(* gim_mig_do_finish_copy: the message is forgotten and the copy thread    *)
(* told to stop.                                                           *)
FinishCopy ==
    /\ mask' = {} /\ copied' = {} /\ left' = 0 /\ mid' = FALSE /\ msg' = Blank
    /\ state' = "PAUSED"

(* The user has read the end of the stream: the source goes to STOP and    *)
(* its file is released; the target goes RESUMING -> STOP, which waits for *)
(* an empty ring (gim_mig_load_state) and asks nothing more, and runs.     *)
(* A target that cannot reports no error: it is stopped at its release.  A *)
(* source that was not suspended is suspended now, or runs on if that      *)
(* fails.                                                                  *)
Complete ==
    /\ upc = "eof"
    /\ \/ target.ok /\ tdev' = "RUNNING" /\ UNCHANGED used
       \/ ~target.ok /\ tdev' = "ERROR" /\ UNCHANGED used
       \/ Fault("timeout") /\ tdev' = "ERROR"
    /\ upc' = "gone" /\ dev' = "STOP"
    /\ SetDefault /\ running' \in {running, FALSE} /\ FinishCopy
    /\ UNCHANGED <<fb, dbit, acc, lost, shadow, ring, thread, read, want,
                   dyna, pending, target>>

(* gim_migf_release_file in any other state: after a read that failed, or  *)
(* because the user gives up.  The VF runs again.                          *)
Release ==
    /\ upc = "failed" \/ (upc = "idle" /\ dev # "RUNNING")
    /\ SetDefault /\ lost' = {}
    /\ running' = TRUE /\ dev' = "RUNNING"
    /\ FinishCopy /\ upc' = "join"
    /\ tdev' = "NONE" /\ target' = Fresh /\ pending' = FALSE
    /\ UNCHANGED <<fb, dbit, acc, shadow, ring, thread, read, want, dyna, used>>

(* The thread has left its loop; its buffers are freed.                    *)
Join ==
    /\ upc = "join" /\ tpc = "wait"
    /\ shadow' = {} /\ ring' = <<>> /\ msg' = Blank
    /\ upc' = "idle"
    /\ UNCHANGED <<fb, dirt, running, mig, mark, mask, copied, state, mid, thread, read,
                   want, dyna, pending, dev, left, remote, used>>

-----------------------------------------------------------------------------
CopyThread ==
    \/ Wake \/ Export \/ ExportBitmap \/ SkipSection \/ ExportFails \/ Clear
    \/ Collide \/ Seal \/ CopyPage \/ CopyFails \/ MessageDone
    \/ Pause \/ Publish

ReadLoop == ReadRing \/ ReadReturns \/ RingEmpty \/ ReadMask \/ ReadWakes

User ==
    \/ PreCopy \/ PreCopyFails \/ AskSize \/ StopCopy \/ Validate \/ Set
    \/ UpdateShadow \/ StateSize \/ Read \/ ReadLoop
    \/ Complete \/ Release \/ Join

Next == (\E p \in Page : Write(p)) \/ Flr \/ GuestInit \/ GpuReset \/ CopyThread \/ User

Spec == Init /\ [][Next]_vars

(* The kernel schedules the copy thread, and a read in progress.           *)
FairSpec == Spec /\ WF_vars(CopyThread) /\ WF_vars(ReadLoop)

-----------------------------------------------------------------------------
(* What the target will hold once it has imported everything on its way.   *)
Arrived == FoldLeft(Import, target, ring \o buf)

(* No failure that matters has gone unmarked, and no mark was taken back.  *)
Marked(failures) == lost \cap (failures \cup {"init"}) = {}

Sound ==
    /\ dev \in {"PRE_COPY", "STOP_COPY"} /\ Marked({"query", "thread"})
    /\ upc # "failed" /\ ~abort /\ Arrived.ok /\ ~Arrived.gap

(* A page written since the VF was initialised is in the hardware's dirty  *)
(* bits or in acc_bits, through resets, lost bits and failed migrations.   *)
WrittenIsMarked == \A p \in Page : fb[p] # 0 => p \in acc \cup dbit

(* No dirty page is ever forgotten: written pages stay marked, and while a *)
(* migration is sound, a page the VF has written and that source and       *)
(* target will not agree on is still marked somewhere: in the hardware, in *)
(* the shadow, or in the message being copied.  A query the full access    *)
(* refuses forgets nothing, marked or not.  Excepted are a read that       *)
(* leaves a gap in the stream, and a failed query or copy that a full      *)
(* access has kept from being marked.                                      *)
NoPageForgotten ==
    /\ WrittenIsMarked
    /\ Sound => \A p \in Page : fb[p] \notin {0, Arrived.fb[p]} =>
           p \in dbit \cup shadow \cup msg.bm \cup IF first THEN acc ELSE {}

(* The VF never runs on both hosts.  A suspend that failed, or that was    *)
(* not tried because a full access refused STOP_COPY, is not reported to   *)
(* the user (gim_mig_set_state returns no error), who goes on as if in     *)
(* STOP_COPY; only the abort mark, which a read asks for, keeps the target *)
(* from being started beside a source that still runs.  Excepted: a full   *)
(* access drops that mark, or the guest's initialisation clears it.        *)
RunsOnce == tdev = "RUNNING" /\ Marked({"suspend"}) => ~running

(* A read that waits is served: one that has woken the copy thread, or     *)
(* that has a message half read, gets data unless the migration is         *)
(* aborted, or the rest of the message fell into a gap, or the thread      *)
(* failed and its mark was dropped.  No wake-up is lost between a reader   *)
(* that sets the thread running and a thread that pauses, nor does the     *)
(* thread stop with the rest of a message in its hands.                    *)
Reading == upc \in {"ring", "mask", "wake"}

ReaderIsServed ==
    (Reading /\ (pending \/ left > 0)) ~>
        (~Reading \/ abort \/ target.gap \/ ~Marked({"thread"}))

(* When the target runs, it has every page of the source and the state of  *)
(* the VF: the source's last read did not end the stream early ("continue  *)
(* waiting until a valid data copy is performed", gim_mig.c).              *)
TargetComplete ==
    tdev = "RUNNING" => target.fb = fb /\ "DYNAMIC" \in target.copied
=============================================================================
