----------------------------- MODULE Allocator ------------------------------
(***************************************************************************)
(* What the memory manager promises its callers: pieces of its region are  *)
(* handed out, each to one holder, only from memory nobody holds.  A piece *)
(* is lost only when its holder gives it back, or when it touches a page   *)
(* that was reported bad; then the manager does not open again before the  *)
(* holder has other memory.  How free memory is found is left open.        *)
(***************************************************************************)
EXTENDS Integers

CONSTANTS
  Base,     \* the first address of the region
  Holder,   \* those who can hold memory
  Bad       \* the holder of the bad pages, not one of them

VARIABLES
  held,     \* the pieces held: [h, lo, hi] is the memory from lo up to hi
  top,      \* the end of the region
  bad,      \* the pages reported bad: [lo, hi]
  homeless, \* the holders whose memory was taken because of a bad page
  status    \* "open" to its callers, "closed" while it sees to its own
            \* business, or "failed": it serves nobody any more

vars == <<held, top, bad, homeless, status>>

Apart(x, y) == x.hi <= y.lo \/ y.hi <= x.lo
Inside(x) == Base <= x.lo /\ x.lo < x.hi /\ x.hi <= top

Init ==
  /\ held = {} /\ top \in Nat /\ bad = {} /\ homeless = {}
  /\ status \in {"open", "closed"}

\* x.h, who has none, is given memory that nobody holds: the homeless first.
Grant(x) ==
  /\ status # "failed" /\ (homeless = {} \/ x.h \in homeless)
  /\ x.h \in Holder /\ \A y \in held : y.h # x.h
  /\ Inside(x) /\ \A y \in held : Apart(x, y)
  /\ held' = held \union {x} /\ homeless' = homeless \ {x.h}
  /\ UNCHANGED <<top, bad, status>>

\* A holder gives back what it has.
GiveBack(x) ==
  /\ status = "open" /\ x.h \in Holder
  /\ held' = held \ {x}
  /\ UNCHANGED <<top, bad, homeless, status>>

\* A holder's memory is taken from it, since a page of it is bad.
Displace(x) ==
  /\ status = "closed" /\ x.h \in Holder
  /\ \E page \in bad : ~Apart(x, page)
  /\ held' = held \ {x} /\ homeless' = homeless \union {x.h}
  /\ UNCHANGED <<top, bad, status>>

\* A page nobody holds is taken out of use; its report may come with it.
Retire(page) ==
  /\ status # "failed" /\ page.h = Bad
  /\ Inside(page) /\ \A y \in held : Apart(page, y)
  /\ held' = held \union {page} /\ bad \subseteq bad'
  /\ UNCHANGED <<top, homeless, status>>

\* A page is found to be bad.
Report ==
  /\ status = "open" /\ bad \subseteq bad'
  /\ UNCHANGED <<held, top, homeless, status>>

\* The region grows, or shrinks by what nobody holds.
Resize ==
  /\ status = "open" /\ top' \in Nat
  /\ \A y \in held : y.hi <= top'
  /\ UNCHANGED <<held, bad, homeless, status>>

Close ==
  /\ status = "open" /\ status' = "closed"
  /\ UNCHANGED <<held, top, bad, homeless>>

\* Nobody is left without memory.
Open ==
  /\ status = "closed" /\ homeless = {} /\ status' = "open"
  /\ UNCHANGED <<held, top, bad, homeless>>

\* Memory has run out; who is homeless stays so.
Fail ==
  /\ status = "closed" /\ status' = "failed" /\ homeless' = {}
  /\ UNCHANGED <<held, top, bad>>

Next ==
  \/ \E x \in held' \ held : Grant(x) \/ Retire(x)
  \/ \E x \in held \ held' : GiveBack(x) \/ Displace(x)
  \/ Report \/ Resize
  \/ Close \/ Open \/ Fail

Spec == Init /\ [][Next]_vars

=============================================================================
