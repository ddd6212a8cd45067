------------------------------- MODULE MemMgr -------------------------------
(***************************************************************************)
(* A frame-buffer memory manager (amdgv_memmgr.c) with the reservation of  *)
(* bad pages (amdgv_umc.c, amdgv_ras_sys.c) and the deferred placement of  *)
(* MI350X (mi300_mem.c).  The list allocs is kept in the order of the      *)
(* addresses; a block is found by walking it, tom remembers where its last *)
(* block ends.                                                             *)
(*                                                                         *)
(* A block records its end, alloc_off.  A manager with down counts         *)
(* addresses from the top of the frame buffer.  Lengths are counted in a   *)
(* unit of which a page has PageLen, so that blocks smaller than a page    *)
(* share pages.  The indices that make up a mem_id are counted for the one *)
(* id with many blocks, MEM_ECC_BAD_PAGE; other ids have few.              *)
(***************************************************************************)
EXTENDS Integers, Sequences, FiniteSets, FiniteSetsExt, SequencesExt

CONSTANTS
  Client,    \* the users of memory; each holds at most one block
  Offset,    \* memmgr->offset
  Sizes,     \* the values memmgr->size takes
  FbSize,    \* total available frame buffer
  PageLen,   \* AMDGV_GPU_PAGE_SIZE, also 1 << memmgr->align
  Requests,  \* the [len, align] clients ask for
  Managers,  \* subset of {"pf", "gpu"}: memmgr_pf, or memmgr_gpu, which counts down
  MaxIndex,  \* MAX_MEM_COUNT
  MaxBad,    \* bound: bad pages in a behaviour
  MaxNps     \* bound: pages in bp_offsets

ASSUME SizeAssumption ==
  /\ Offset \in Nat /\ FbSize \in Nat /\ PageLen \in Nat \ {0}
  /\ Sizes \subseteq Nat /\ {MaxIndex, MaxBad, MaxNps} \subseteq Nat
ASSUME RequestsAssumption == Requests \subseteq [len : Nat \ {0}, align : Nat \ {0}]
ASSUME ClientAssumption == "bad" \notin Client
ASSUME ManagersAssumption == Managers \subseteq {"pf", "gpu"}

Pages == {p \in 0 .. FbSize - PageLen : p % PageLen = 0}
None == -1

VARIABLES
  down,      \* memmgr->down
  uniras,    \* amdgv_uniras_enabled: which code reserves bad pages
  size,      \* memmgr->size
  tom,       \* memmgr->tom
  allocs,    \* memmgr->allocs, without its head
  reserves,  \* memmgr->reserves: blocks that have no place yet
  used,      \* indices of MEM_ECC_BAD_PAGE in use
  phase,     \* what the driver is doing
  bps,       \* eh_data->bps: the bad pages recorded, in order
  bpsMem,    \* eh_data->bps_mem: the block reserved for each, or None
  lastReserved, \* eh_data->last_reserved: how many records have been seen to
  nps,       \* bp_offsets: the pages that are bad in some NPS mode
  todo,      \* pages or records the current phase has still to see to
  moved,     \* list_tmp of amdgv_umc_replace_bad_pages
  pending    \* memmgr->reservations_pending

list == <<size, tom, allocs, used>>
ecc == <<bps, bpsMem, lastReserved, pending>>
job == <<phase, nps, todo, moved, reserves>>
config == <<down, uniras>>
vars == <<config, list, ecc, job>>

\* A manager after amdgv_memmgr_init.  On MI350X the driver begins "early",
\* before it knows where blocks may lie.
Init ==
  /\ down \in {m = "gpu" : m \in Managers}
  /\ uniras \in BOOLEAN
  /\ size \in Sizes /\ tom = Offset /\ allocs = <<>> /\ used = 0
  /\ bps = <<>> /\ bpsMem = <<>> /\ lastReserved = 0 /\ pending = {}
  /\ moved = <<>> /\ reserves = <<>>
  /\ nps \in UNION {kSubset(k, Pages) : k \in 0 .. MaxNps}
  /\ todo \in {t \in [1 .. Cardinality(nps) -> nps] :
                 Range(t) = nps /\ \A i, j \in DOMAIN t : i < j => t[i] < t[j]}
  /\ phase \in IF nps = {} THEN {"early", "ready"} ELSE {"early"}
  /\ down => nps = {}

-----------------------------------------------------------------------------
(* Finding a place.                                                        *)

\* AMDGV_MEMMGR_ALIGN.
Align(a, al) == ((a + al - 1) \div al) * al

Start(b) == b.end - b.len
Overlaps(b, lo, hi) == lo < b.end /\ Start(b) < hi
\* alloc_off of a node of the list; node 0 is the head.
EndOf(i) == IF i = 0 THEN Offset ELSE allocs[i].end

\* amdgv_memmgr_find_size: the node after which a block of this length goes.
\* Reached(i) is the loop's tom when it comes to node i.
FindSize(len, al) ==
  LET Reached(i) == Max({Align(Offset, al)} \union {Align(allocs[j].end, al) : j \in 1 .. i - 1})
      fits == {i \in 1 .. Len(allocs) : Start(allocs[i]) > Reached(i) + len}
  IN  IF fits = {} THEN Len(allocs) ELSE Min(fits) - 1

\* amdgv_memmgr_find_size_at: the same for a block at a given place; None when
\* the place is taken.
FindSizeAt(at, len) ==
  LET start == Align(at, PageLen)
      past == {i \in 1 .. Len(allocs) : allocs[i].end > start}
  IN  IF past = {} THEN Len(allocs)
      ELSE IF Start(allocs[Min(past)]) < start + len THEN None ELSE Min(past) - 1

\* alloc_off of a block of this length that begins at or after an address.
EndFrom(at, len, al) == IF down THEN Align(at + len, al) ELSE Align(at, al) + len

Block(k, h, end, len, al) == [kind |-> k, h |-> h, end |-> end, len |-> len, al |-> al]

\* The block goes after prev; beyond the top of memory it raises tom.
Insert(prev, b) ==
  /\ allocs' = InsertAt(allocs, prev + 1, b)
  /\ tom' = IF EndOf(prev) = tom THEN b.end ELSE tom

\* Only above tom can the end of the region be in the way.
Room(prev, len, al) == EndOf(prev) = tom => Align(tom, al) + len <= Offset + size

\* amdgv_memmgr_alloc_unify_align, amdgv_memmgr_assign_reserved_region: find a
\* place for a block and insert it there.
CanPlace(len, al) == Room(FindSize(len, al), len, al)
PlaceBlock(k, h, len, al) ==
  LET prev == FindSize(len, al)
  IN  /\ CanPlace(len, al)
      /\ Insert(prev, Block(k, h, EndFrom(EndOf(prev), len, al), len, al))

\* amdgv_memmgr_alloc_align_at for a page.
CanPlaceAt(at) ==
  /\ Align(at, PageLen) + PageLen <= Offset + size
  /\ FindSizeAt(at, PageLen) # None
PlaceAt(k, h, at) ==
  /\ CanPlaceAt(at)
  /\ Insert(FindSizeAt(at, PageLen), Block(k, h, EndFrom(at, PageLen, PageLen), PageLen, PageLen))

\* Mutant of Unlink: tom stays where the last block ended.
UnlinkKeepsTom(i) ==
  /\ allocs' = RemoveAt(allocs, i)
  /\ UNCHANGED tom

\* The list part of amdgv_memmgr_free.
Unlink(i) ==
  /\ allocs' = RemoveAt(allocs, i)
  /\ tom' = IF allocs[i].end >= tom THEN EndOf(i - 1) ELSE tom

-----------------------------------------------------------------------------
(* The clients.                                                            *)

HasBlock(c) == \E b \in Range(allocs \o reserves \o moved) : b.kind = "mem" /\ b.h = c

\* Users of memmgr_gpu ask for multiples of their alignment.
Asked == {r \in Requests : down => r.len % r.align = 0}

\* amdgv_memmgr_alloc_align.  When there is no room nothing changes.
Alloc(c) ==
  /\ phase = "ready" /\ ~HasBlock(c)
  /\ \E r \in Asked : PlaceBlock("mem", c, r.len, r.align)
  /\ UNCHANGED <<config, size, used, ecc, job>>

\* amdgv_memmgr_reserve_attrs: keep the wish, longest first.
AllocEarly(c) ==
  /\ phase = "early" /\ ~HasBlock(c)
  /\ \E r \in Asked :
       LET before == {i \in 1 .. Len(reserves) : r.len < reserves[i].len}
       IN  reserves' = InsertAt(reserves, Cardinality(before) + 1, Block("mem", c, 0, r.len, r.align))
  /\ UNCHANGED <<config, nps, list, ecc, phase, todo, moved>>

\* amdgv_memmgr_free.
Free(c) ==
  /\ phase = "ready"
  /\ \E i \in 1 .. Len(allocs) : allocs[i].kind = "mem" /\ allocs[i].h = c /\ Unlink(i)
  /\ UNCHANGED <<config, size, used, ecc, job>>
FreeEarly(c) ==
  /\ phase = "early"
  /\ \E i \in 1 .. Len(reserves) : reserves[i].h = c /\ reserves' = RemoveAt(reserves, i)
  /\ UNCHANGED <<config, nps, list, ecc, phase, todo, moved>>

\* amdgv_memmgr_set_size; the PF's share is known later than the manager.
SetSize ==
  /\ phase = "ready" /\ ~down
  /\ \E limit \in Sizes \ {size} : limit >= tom /\ size' = limit
  /\ UNCHANGED <<config, tom, allocs, used, ecc, job>>

-----------------------------------------------------------------------------
(* mi350_mem_hw_init: keep the pages that are bad in some NPS mode free of *)
(* the driver's own blocks.                                                *)

\* When bad pages are on record but none is found to be bad in any mode, the
\* wishes are never placed: the function returns, and the model ends there.
HwInit ==
  /\ phase = "early"
  /\ phase' \in {IF down THEN "defer" ELSE "nps"} \union (IF nps = {} THEN {"dead"} ELSE {})
  /\ UNCHANGED <<config, nps, list, ecc, todo, moved, reserves>>

Candidates == {b \in Range(allocs) : b.kind = "nps"}
BelowRegion(p) == p + PageLen < Offset

\* Mutant of Candidate: a page below the region ends the loop.
CandidateStops ==
  /\ phase = "nps"
  /\ IF todo = <<>> \/ BelowRegion(Head(todo)) \/ Head(todo) >= Offset + size
     THEN phase' = "defer" /\ UNCHANGED <<tom, allocs, todo>>
     ELSE PlaceAt("nps", Head(todo), Head(todo)) /\ todo' = Tail(todo) /\ UNCHANGED phase
  /\ UNCHANGED <<config, nps, size, used, ecc, moved, reserves>>

\* One turn of the loop over bp_offsets; each candidate takes an index of
\* MEM_ECC_BAD_PAGE_NPS_CANDIDATE.
Candidate ==
  /\ phase = "nps"
  /\ IF todo = <<>> \/ Head(todo) >= Offset + size
     THEN phase' = "defer" /\ UNCHANGED <<tom, allocs, todo>>
     ELSE IF BelowRegion(Head(todo))
     THEN todo' = Tail(todo) /\ UNCHANGED <<tom, allocs, phase>>
     ELSE IF CanPlaceAt(Head(todo)) /\ Cardinality(Candidates) < MaxIndex
     THEN PlaceAt("nps", Head(todo), Head(todo)) /\ todo' = Tail(todo) /\ UNCHANGED phase
     ELSE phase' = "dead" /\ UNCHANGED <<tom, allocs, todo>>
  /\ UNCHANGED <<config, nps, size, used, ecc, moved, reserves>>

\* One turn of amdgv_memmgr_alloc_deferred_region.
Deferred ==
  /\ phase = "defer"
  /\ IF reserves = <<>> THEN phase' = "clean" /\ UNCHANGED <<tom, allocs, reserves>>
     ELSE LET b == Head(reserves) IN
          IF CanPlace(b.len, b.al)
          THEN PlaceBlock("mem", b.h, b.len, b.al) /\ reserves' = Tail(reserves) /\ UNCHANGED phase
          ELSE phase' = "dead" /\ UNCHANGED <<tom, allocs, reserves>>
  /\ UNCHANGED <<config, nps, size, used, ecc, todo, moved>>

\* One turn of amdgv_memmgr_free_by_id(MEM_ECC_BAD_PAGE_NPS_CANDIDATE).
FreeCandidates ==
  LET left == {i \in 1 .. Len(allocs) : allocs[i].kind = "nps"} IN
  /\ phase = "clean"
  /\ \/ left # {} /\ Unlink(Min(left)) /\ UNCHANGED <<phase, todo, nps>>
     \/ left = {} /\ phase' = "ready" /\ todo' = <<>> /\ nps' = {} /\ UNCHANGED <<tom, allocs>>
  /\ UNCHANGED <<config, size, used, ecc, moved, reserves>>

-----------------------------------------------------------------------------
(* Bad pages.                                                              *)

\* Mutant of PageAt: every manager is taken for one that counts down.
PageAtFromTop(p) == FbSize - p
\* Where code that reserves page p of the frame buffer looks for it.
PageAt(p) == IF down THEN FbSize - p ELSE p
InRegion(p) == Offset <= PageAt(p) /\ PageAt(p) < Offset + size

\* An index for MEM_ECC_BAD_PAGE is taken first, and kept when the rest fails.
HasIndex == used < MaxIndex
TakeIndex == used' = Min({used + 1, MaxIndex})

\* Reserve page p in the list, or fail.
CanReserve(p) == HasIndex /\ CanPlaceAt(PageAt(p))
ReserveAt(p) ==
  /\ TakeIndex
  /\ IF CanReserve(p) THEN PlaceAt("bad", p, PageAt(p)) ELSE UNCHANGED <<tom, allocs>>

\* amdgv_umc_add_bad_pages: an error is found in page p and recorded.
Record(p) ==
  /\ phase = "ready" /\ ~uniras /\ Len(bps) < MaxBad
  /\ bps' = Append(bps, p) /\ bpsMem' = Append(bpsMem, None)
  /\ UNCHANGED <<config, list, lastReserved, pending, job>>

\* One turn of the loop of amdgv_umc_reserve_bad_pages over the records.  A page
\* in use stays in use until the next reset.  A page of a critical region ends
\* the loop; its record and the later ones are tried again by the next call.
Reserve ==
  LET i == lastReserved + 1
      p == bps[i]
  IN
  /\ phase = "ready" /\ ~uniras /\ lastReserved < Len(bps)
  /\ lastReserved' = i
  /\ bpsMem' = [bpsMem EXCEPT ![i] = IF InRegion(p) /\ CanReserve(p) THEN p ELSE None]
  /\ IF InRegion(p) THEN ReserveAt(p) ELSE UNCHANGED <<tom, allocs, used>>
  /\ UNCHANGED <<config, size, bps, pending, job>>

\* An error is found with uniras: its record and amdgv_memmgr_reserve_page.
ReservePage(p) ==
  /\ phase = "ready" /\ uniras /\ Len(bps) < MaxBad
  /\ p \notin Range(bps) /\ InRegion(p)
  /\ bps' = Append(bps, p)
  /\ bpsMem' = Append(bpsMem, IF CanReserve(p) THEN p ELSE None)
  /\ pending' = IF CanReserve(p) THEN pending ELSE pending \union {p}
  /\ ReserveAt(p)
  /\ UNCHANGED <<config, size, lastReserved, job>>

\* amdgv_umc_replace_bad_pages, during a reset of the GPU.
Replace ==
  /\ phase = "ready" /\ ~uniras /\ ~down /\ bps # <<>>
  /\ phase' = "replace" /\ todo' = [i \in DOMAIN bps |-> i]
  /\ UNCHANGED <<config, nps, list, ecc, moved, reserves>>

\* amdgv_memmgr_find_mem_at_offset: is b one of the blocks it finds?
OverlapsPage(b, p) == Overlaps(b, p, p + PageLen)
\* Mutant of WholeInRegion: the last page of the region is left out.
WholeInRegionStrict(p) == Offset <= p /\ p + PageLen < Offset + size
\* amdgv_umc_is_bp_in_range.
WholeInRegion(p) == Offset <= p /\ p + PageLen <= Offset + size

\* Mutant of MoveOut: the block leaves the list and is not kept.
MoveOutLoses(j) ==
  /\ UNCHANGED moved
  /\ allocs' = RemoveAt(allocs, j)
  /\ tom' = IF j = Len(allocs) THEN EndOf(j - 1) ELSE tom

\* Block j leaves the list, and tom follows.
MoveOut(j) ==
  /\ moved' = Cons(allocs[j], moved)
  /\ allocs' = RemoveAt(allocs, j)
  /\ tom' = IF j = Len(allocs) THEN EndOf(j - 1) ELSE tom

\* One turn of a loop over the records i with no block yet.  Inside, the blocks
\* that overlap page p are found and moved out one by one; a page recorded
\* twice has its block already; then the page is reserved.
ReplacePage ==
  LET i == Head(todo)
      p == bps[i]
      hit == {j \in 1 .. Len(allocs) : OverlapsPage(allocs[j], p)}
      found == Min(hit)
  IN
  /\ phase = "replace" /\ todo # <<>>
  /\ \/ /\ bpsMem[i] # None \/ ~WholeInRegion(p)
        /\ todo' = Tail(todo) /\ UNCHANGED <<tom, allocs, used, moved, bpsMem>>
     \/ /\ bpsMem[i] = None /\ WholeInRegion(p)
        /\ \/ /\ hit # {} /\ allocs[found].kind # "bad"
              /\ MoveOut(found) /\ UNCHANGED <<todo, used, bpsMem>>
           \/ /\ hit # {} /\ allocs[found].kind = "bad"
              /\ bpsMem' = [bpsMem EXCEPT ![i] = p]
              /\ todo' = Tail(todo) /\ UNCHANGED <<tom, allocs, used, moved>>
           \/ /\ hit = {}
              /\ ReserveAt(p)
              /\ bpsMem' = [bpsMem EXCEPT ![i] = IF CanReserve(p) THEN p ELSE None]
              /\ todo' = Tail(todo) /\ UNCHANGED moved
  /\ UNCHANGED <<config, nps, size, bps, lastReserved, pending, phase, reserves>>

\* All records are seen to.
Replaced ==
  /\ phase = "replace" /\ todo = <<>> /\ phase' = "rehome"
  /\ UNCHANGED <<config, nps, list, ecc, todo, moved, reserves>>

\* amdgv_memmgr_alloc_and_replace for one block: it gets a place of its own
\* length and alignment.  The index taken for the exchange is not given back.
\* When there is no place, every block still without one is freed and the
\* reset fails.
Rehome ==
  /\ phase = "rehome"
  /\ IF moved = <<>> THEN phase' = "ready" /\ UNCHANGED <<tom, allocs, used, moved>>
     ELSE LET b == Head(moved) IN
          /\ TakeIndex
          /\ IF HasIndex /\ CanPlace(b.len, b.al)
             THEN PlaceBlock("mem", b.h, b.len, b.al) /\ moved' = Tail(moved) /\ UNCHANGED phase
             ELSE phase' = "dead" /\ moved' = <<>> /\ UNCHANGED <<tom, allocs>>
  /\ UNCHANGED <<config, nps, size, ecc, todo, reserves>>

-----------------------------------------------------------------------------
Next ==
  \/ \E c \in Client : Alloc(c) \/ AllocEarly(c) \/ Free(c) \/ FreeEarly(c)
  \/ SetSize
  \/ HwInit \/ Candidate \/ Deferred \/ FreeCandidates
  \/ \E p \in Pages : Record(p) \/ ReservePage(p)
  \/ Reserve
  \/ Replace \/ ReplacePage \/ Replaced \/ Rehome

Spec == Init /\ [][Next]_vars

-----------------------------------------------------------------------------
(* Properties.                                                             *)

BlockType ==
  [kind : {"mem", "bad", "nps"}, h : Client \union Pages, end : Nat, len : Nat, al : Nat]

TypeOK ==
  /\ down \in BOOLEAN /\ uniras \in BOOLEAN /\ size \in Sizes /\ tom \in Nat
  /\ {allocs, reserves, moved} \subseteq Seq(BlockType)
  /\ used \in 0 .. MaxIndex
  /\ phase \in {"early", "nps", "defer", "clean", "ready", "replace", "rehome", "dead"}
  /\ bps \in Seq(Pages) /\ bpsMem \in Seq(Pages \union {None}) /\ Len(bpsMem) = Len(bps)
  /\ lastReserved \in 0 .. Len(bps)
  /\ nps \subseteq Pages /\ todo \in Seq(Nat) /\ pending \subseteq Pages

\* The list is in the order of the addresses and tom is where its last block
\* ends, which every search takes for granted: whatever is allocated, placed
\* at an address, freed, exchanged or moved out, in any order.
WellFormed ==
  /\ TypeOK
  /\ \A i \in 1 .. Len(allocs) - 1 : allocs[i].end <= Start(allocs[i + 1])
  /\ tom = EndOf(Len(allocs))

\* The memory manager as its callers see it: who holds which memory, which pages
\* are on record, who lost its memory to one, and whether calls are served.  The
\* placeholders of NPS candidates are its own business.
Held == {[h |-> IF b.kind = "bad" THEN "bad" ELSE b.h, lo |-> Start(b), hi |-> b.end] :
           b \in {x \in Range(allocs) : x.kind # "nps"}}
Reported == {[lo |-> p, hi |-> p + PageLen] : p \in Range(bps)}
Homeless == {b.h : b \in Range(moved)}
Status == CASE phase = "ready" -> "open" [] phase = "dead" -> "failed" [] OTHER -> "closed"
Promise == INSTANCE Allocator WITH
             Base <- Offset, Holder <- Client, Bad <- "bad", held <- Held, top <- Offset + size,
             bad <- Reported, homeless <- Homeless, status <- Status

\* The list, its searches and tom implement the allocator: no address is handed
\* out twice or outside the region, a client loses memory only by freeing it or
\* to a page on record, and whose memory a reset takes has other memory when
\* the reset is over, unless it fails.
Implements == Promise!Spec

Touches(b, p) == Overlaps(b, p, p + PageLen)

\* When the driver's own blocks have been placed, none lies on a page that is
\* bad in some NPS mode ("Add allocation for bad pages in all supported NPS
\* mode"), whichever blocks were asked for and in which order.
AvoidsNps ==
  phase = "clean" /\ ~down =>
    \A b \in Range(allocs) : b.kind = "mem" => \A p \in nps : ~Touches(b, p)

\* The block that is recorded as reserved for a bad page is in the list and
\* covers that page of the frame buffer.
PhysStart(b) == IF down THEN FbSize - b.end ELSE Start(b)
RightPage ==
  \A i \in DOMAIN bps : bpsMem[i] # None =>
    \E b \in Range(allocs) : b.kind = "bad" /\ b.len = PageLen /\ PhysStart(b) = bps[i]

\* The same for memmgr_pf, whose blocks are also moved during a reset.
BadPageKept == ~down => RightPage

\* "replace and reserve bad pages that is currently in-use in pf fb": after a
\* reset that succeeds no client is on a bad page, and the page is reserved,
\* unless the indices for bad pages have run out.
ReplaceClears ==
  [][phase = "rehome" /\ phase' = "ready" /\ used < MaxIndex =>
       \A i \in DOMAIN bps : InRegion(bps[i]) =>
         bpsMem[i] # None /\ \A b \in Range(allocs) : b.kind = "mem" => ~Touches(b, bps[i])]_vars

=============================================================================
