------------------------ MODULE WorldSwitchProofs --------------------------
(***************************************************************************)
(* Theorems about the world switch and the event thread that governs it,   *)
(* for any number of VFs, any events and any failures.                     *)
(*                                                                         *)
(* The event thread's state is in what it has still to do.  So the         *)
(* invariant is about sequences of operations: which operations stand      *)
(* behind which, and where a failure of one of them leads.                 *)
(*                                                                         *)
(* The second half is about the active list and the assertions.  What an   *)
(* operation needs and what it achieves is said of a World, the part of    *)
(* the state they depend on.  A pair of what the event thread has still to *)
(* do and a World is good when no operation is ever reached in a World it  *)
(* does not expect, whatever fails and whatever the switching thread does  *)
(* between two operations, and what is left at the end is settled.  The    *)
(* lemmas show that every handler is good from every settled World; so the *)
(* pair at hand always is.                                                 *)
(***************************************************************************)
EXTENDS WorldSwitch, ListLemmas, FiniteSetTheorems, TLAPS

-----------------------------------------------------------------------------
(* The operations.                                                         *)

\* Operations that cannot fail, and whose bodies cannot.
Steady == {"stop", "add", "remove", "AVAIL", "SUSPEND", "UNAVAIL", "shutdown", "endfa", "lock",
           "unlock", "shut", "crash", "idle", "wgr", "gpureset", "expel"}

\* Operations that may fail, themselves or in a callee.
Raising == {"save", "load", "init", "switch", "saved", "loop", "turn", "orphan", "fini", "resetvf",
            "auto"}

\* Operations that no branch of a handler contains.
Grants == {"grantinit", "grantfini"}
Outer == {"start", "timeout"} \union Grants

Tests == {"ifbad", "ifhung", "ifactive"}
Inner == Steady \union Raising \union Tests \union {"catch", "return"}

\* The function an operation is about.
OfVf == {"add", "remove", "AVAIL", "SUSPEND", "UNAVAIL", "shutdown", "shut", "crash", "expel",
         "saved", "turn", "orphan", "fini", "resetvf", "timeout", "ifhung", "ifactive"}
        \union Grants
OfFn == {"load", "init", "switch"}
ArgOk(o) == (o.op \in OfVf => o.f \in VF) /\ (o.op \in OfFn => o.f \in Fn)

\* Operations by how deep their branches are nested.
Ops0 == {o \in [op : Inner, f : Fn \union {None}, h : {<<>>}] : ArgOk(o)}
Ops1 == {o \in [op : Inner, f : Fn \union {None}, h : Seq(Ops0)] : ArgOk(o)}
Ops2 == {o \in [op : Inner, f : Fn \union {None}, h : Seq(Ops1)] : ArgOk(o)}
OpsOuter == {o \in [op : Outer, f : Fn \union {None}, h : {<<>>}] : ArgOk(o)}
AnyOp == Ops2 \union OpsOuter

-----------------------------------------------------------------------------
(* What is stopped when.                                                   *)

Stopped == ~running /\ wt = "wait"

\* Operations that may come while the world switch runs.
FreeOps == {"SUSPEND", "UNAVAIL", "AVAIL", "add", "remove", "crash", "shutdown", "shut", "lock",
            "unlock", "idle", "start", "stop", "wgr", "ifactive"}
Free(o) == /\ o.op \in FreeOps
           /\ \A k \in 1 .. Len(o.h) : o.h[k].op \in FreeOps /\ o.h[k].h = <<>>

\* Behind an operation that starts the world switch all others are free.
StartLast(s) ==
  \A i, j \in 1 .. Len(s) : i < j /\ s[i].op \in {"start", "timeout"} => Free(s[j])

\* The world switch is stopped, or will be before any other operation.
Guarded(s) ==
  Stopped \/ \A i \in 1 .. Len(s) :
               Free(s[i]) \/ \E j \in 1 .. i - 1 : s[j].op \in {"stop", "wgr"}

-----------------------------------------------------------------------------
(* Where a handler leads.                                                  *)

\* Whatever fails on the way, a handler gets from operation j on as far as
\* operation i or to a branch of H.
Caught(s, i, j) == \E k \in j + 1 .. i - 1 : s[k].op = "catch"
Passes(s, i, j, H) ==
  \/ s[j].op \in Steady
  \/ s[j].op \in Raising /\ Caught(s, i, j)
  \/ s[j].op = "catch" /\ s[j].h \in H
  \/ s[j].op = "catch" /\ s[j].h = <<Op("auto", None)>> /\ Caught(s, i, j)
  \/ s[j].op = "ifbad" /\ s[j].h = AutoOrEnd /\ <<EndFa, Return>> \in H
Path(s, i, H) == i \in 1 .. Len(s) /\ \A j \in 1 .. i - 1 : Passes(s, i, j, H)

\* The branches of exit_full_access; each ends the full access.
ExitBranches ==
  {<<>>, <<EndFa, Return>>, AutoOrEnd \o <<EndFa, Return>>,
   AutoOrEnd \o <<Op("loop", None), Ignore>> \o <<EndFa, Return>>}
Leaves(s) == \E i \in 1 .. Len(s) : s[i].op \in {"endfa", "timeout"} /\ Path(s, i, ExitBranches)

\* Full access is given last, to the function that the engines are on, or
\* the handler returns before it, or that function is still to be loaded.
Owned(v) == st = "LOADED" /\ cur = v /\ hw = v /\ Stopped
Returns(s) == \E i \in 1 .. Len(s) : s[i].op = "return" /\ Path(s, i, {<<>>})
Awaits(s, v) ==
  LET n == Len(s) IN
  n >= 3 /\ s[n - 1] = Catch(GiveUp) /\ s[n - 2].op \in {"init", "load", "fini"} /\ s[n - 2].f = v
Arrives(s, v) == Owned(v) /\ (Len(s) = 1 \/ (Len(s) = 2 /\ s[1].op = "catch"))
Granting(s) ==
  \A i \in 1 .. Len(s) : s[i].op \in Grants =>
    i = Len(s) /\ (Returns(s) \/ Awaits(s, s[i].f) \/ Arrives(s, s[i].f))

\* While a VF has full access it owns the engines and only VFs other than it
\* are dealt with, or its full access is about to end.
CalmOps == {"SUSPEND", "UNAVAIL", "add", "remove", "crash", "idle", "ifactive"}
Calm(o) ==
  /\ o.op \in CalmOps
  /\ o.op = "remove" => o.f # fa
  /\ o.op = "ifactive" => o.f # fa /\ o.h = <<Op("remove", o.f)>>
Holding ==
  fa # None => \/ Owned(fa) /\ \A i \in 1 .. Len(todo) : Calm(todo[i])
               \/ Leaves(todo)

IInv ==
  /\ TypeOK /\ todo \in Seq(AnyOp)
  /\ StartLast(todo) /\ Guarded(todo) /\ Granting(todo) /\ Holding

-----------------------------------------------------------------------------
(* Operations and their types.                                             *)

LEMMA FnFacts ==
  /\ NumVF \in Nat \ {0} /\ VF \subseteq Fn /\ PF \in Fn /\ PF \notin VF /\ 0 \in VF
  /\ \A f \in Fn : f # PF => f \in VF
  /\ None \notin Fn
BY NumVFAssumption DEF VF, Fn, PF, None

LEMMA Levels ==
  /\ Ops0 \subseteq Ops1 /\ Ops1 \subseteq Ops2 /\ Ops2 \subseteq AnyOp
  /\ \A s \in Seq(Ops0) : s \in Seq(Ops1)
  /\ \A s \in Seq(Ops1) : s \in Seq(Ops2)
  /\ \A s \in Seq(Ops2) : s \in Seq(AnyOp)
<1>1. Ops0 \subseteq Ops1
  <2>1. <<>> \in Seq(Ops0)
    OBVIOUS
  <2>2. ASSUME NEW o \in Ops0 PROVE o \in Ops1
    <3>1. o \in [op : Inner, f : Fn \union {None}, h : {<<>>}] /\ ArgOk(o)
      BY DEF Ops0
    <3>2. o \in [op : Inner, f : Fn \union {None}, h : Seq(Ops0)]
      BY <3>1, <2>1
    <3> QED BY <3>1, <3>2 DEF Ops1
  <2> QED BY <2>2
<1>2. \A s \in Seq(Ops0) : s \in Seq(Ops1)
  BY <1>1
<1>3. Ops1 \subseteq Ops2
  BY <1>2 DEF Ops1, Ops2
<1>4. Ops2 \subseteq AnyOp
  BY DEF AnyOp
<1> QED BY <1>1, <1>2, <1>3, <1>4

\* The operations handlers are made of.
LEMMA Plain ==
  ASSUME NEW o \in Inner, NEW f \in Fn \union {None},
         o \in OfVf => f \in VF, o \in OfFn => f \in Fn
  PROVE  Op(o, f) \in Ops0
BY DEF Op, Ops0, ArgOk

LEMMA PlainOps ==
  /\ \A o \in Inner \ (OfVf \union OfFn) : Op(o, None) \in Ops0
  /\ \A o \in Inner \ OfFn, v \in VF : Op(o, v) \in Ops0
  /\ \A o \in OfFn, f \in Fn : Op(o, f) \in Ops0
  /\ Return \in Ops0 /\ EndFa \in Ops0
<1>1. ASSUME NEW o \in Inner \ (OfVf \union OfFn) PROVE Op(o, None) \in Ops0
  BY Plain, <1>1
<1>2. ASSUME NEW o \in Inner \ OfFn, NEW v \in VF PROVE Op(o, v) \in Ops0
  BY Plain, FnFacts, <1>2
<1>3. ASSUME NEW o \in OfFn, NEW f \in Fn PROVE Op(o, f) \in Ops0
  <2>1. o \in Inner /\ o \notin OfVf
    BY <1>3 DEF OfFn, OfVf, Inner, Raising, Grants
  <2> QED BY Plain, <1>3, <2>1
<1>4. {"return", "endfa"} \subseteq Inner \ (OfVf \union OfFn)
  BY DEF OfFn, OfVf, Inner, Steady, Grants
<1> QED BY <1>1, <1>2, <1>3, <1>4, None \in Fn \union {None} DEF Return, EndFa

LEMMA Branches ==
  /\ \A h \in Seq(Ops0) : Catch(h) \in Ops1 /\ IfBad(h) \in Ops1
  /\ \A h \in Seq(Ops1) : Catch(h) \in Ops2 /\ IfBad(h) \in Ops2
  /\ \A v \in VF : \A h \in Seq(Ops1) : IfHung(v, h) \in Ops2 /\ IfActive(v, h) \in Ops2
  /\ Ignore \in Ops0
<1>1. /\ {"catch", "ifbad", "ifhung", "ifactive"} \subseteq Inner
      /\ {"catch", "ifbad"} \intersect (OfVf \union OfFn) = {}
      /\ {"ifhung", "ifactive"} \intersect OfFn = {}
  BY DEF Inner, Tests, OfVf, OfFn, Grants
<1>2. VF \subseteq Fn
  BY FnFacts
<1>3. \A h \in Seq(Ops0) : Catch(h) \in Ops1 /\ IfBad(h) \in Ops1
  BY <1>1 DEF Catch, IfBad, Ops1, ArgOk
<1>4. \A h \in Seq(Ops1) : Catch(h) \in Ops2 /\ IfBad(h) \in Ops2
  BY <1>1 DEF Catch, IfBad, Ops2, ArgOk
<1>5. \A v \in VF : \A h \in Seq(Ops1) : IfHung(v, h) \in Ops2 /\ IfActive(v, h) \in Ops2
  BY <1>1, <1>2 DEF IfHung, IfActive, Ops2, ArgOk
<1>6. Ignore \in Ops0
  BY <1>1 DEF Ignore, Catch, Ops0, ArgOk
<1> QED BY <1>3, <1>4, <1>5, <1>6

\* What is known of an operation that is to be done.
LEMMA OpFacts ==
  ASSUME NEW o \in AnyOp
  PROVE  /\ o.op \in Inner \union Outer
         /\ o.op \in OfVf => o.f \in VF
         /\ o.op \in OfFn => o.f \in Fn
         /\ o.h \in Seq(Ops1)
<1>1. <<>> \in Seq(Ops1)
  OBVIOUS
<1> QED BY <1>1 DEF AnyOp, Ops2, OpsOuter, ArgOk

LEMMA InnerFacts ==
  ASSUME NEW o \in Ops2
  PROVE  o \in AnyOp /\ o.op \in Inner /\ o.op \notin Outer
BY DEF AnyOp, Ops2, Inner, Outer, Steady, Raising, Tests, Grants

-----------------------------------------------------------------------------
(* What one operation does to the sequence.                                *)

SteadyOp == {o \in Ops0 : o.op \in Steady}
BodyOp == {o \in Ops0 : o.op \in Steady \union Raising} \union {Ignore, Catch(<<Op("auto", None)>>)}

\* It is done, and what it calls comes in its place.
Pushes(s, t) ==
  /\ s # <<>>
  /\ \E ops \in Seq(Ops2) :
       /\ t = ops \o Tail(s)
       /\ \/ s[1].op \in Steady \union {"start", "catch"} \union Grants /\ ops \in Seq(SteadyOp)
          \/ s[1].op \in Tests /\ ops \in {<<>>, s[1].h}
          \/ s[1].op \in Raising /\ ops \in Seq(BodyOp)

\* It fails, and the next branch is taken, if there is one.
Jumps(s, t) ==
  /\ s # <<>> /\ s[1].op \in Raising
  /\ \/ (\A k \in 2 .. Len(s) : s[k].op # "catch") /\ t = <<>>
     \/ \E c \in 2 .. Len(s) :
          /\ s[c].op = "catch" /\ \A k \in 2 .. c - 1 : s[k].op # "catch"
          /\ t = s[c].h \o SubSeq(Tail(s), c, Len(s) - 1)

\* The handler is left.
LeavesHandler(s, t) == s # <<>> /\ s[1].op = "return" /\ t = <<>>

\* The VF in full access is reset and the world switch started.
EndOps(v) == <<Op("AVAIL", v), Op("resetvf", v), Op("loop", None), Ignore, EndFa, Op("start", None)>>
TimesOut(s, t) == s # <<>> /\ s[1].op = "timeout" /\ t = EndOps(s[1].f) \o Tail(s)

Proceeds(s, t) == Pushes(s, t) \/ Jumps(s, t) \/ LeavesHandler(s, t) \/ TimesOut(s, t)

\* The positions after a push and after a jump.
Pushed(s, t, ops) ==
  /\ t \in Seq(AnyOp) /\ Len(t) = Len(ops) + Len(s) - 1 /\ Len(s) \in Nat \ {0} /\ Len(ops) \in Nat
  /\ \A i \in 1 .. Len(ops) : i \in 1 .. Len(t) /\ t[i] = ops[i]
  /\ \A i \in 2 .. Len(s) : i + (Len(ops) - 1) \in 1 .. Len(t) /\ t[i + (Len(ops) - 1)] = s[i]
  /\ \A i \in 1 .. Len(t) : \/ i \in 1 .. Len(ops)
                            \/ \E k \in 2 .. Len(s) : i = k + (Len(ops) - 1)
Jumped(s, t, c, h) ==
  /\ t \in Seq(AnyOp) /\ Len(t) = Len(h) + Len(s) - c /\ Len(h) \in Nat /\ Len(s) \in Nat
  /\ \A i \in 1 .. Len(h) : i \in 1 .. Len(t) /\ t[i] = h[i]
  /\ \A i \in c + 1 .. Len(s) : i + (Len(h) - c) \in 1 .. Len(t) /\ t[i + (Len(h) - c)] = s[i]
  /\ \A i \in 1 .. Len(t) : \/ i \in 1 .. Len(h)
                            \/ \E k \in c + 1 .. Len(s) : i = k + (Len(h) - c)

LEMMA PushFacts ==
  ASSUME NEW s \in Seq(AnyOp), s # <<>>, NEW ops \in Seq(AnyOp), NEW t, t = ops \o Tail(s)
  PROVE  Pushed(s, t, ops)
<1>1. /\ Tail(s) \in Seq(AnyOp) /\ Len(Tail(s)) = Len(s) - 1 /\ Len(s) \in Nat \ {0} /\ Len(ops) \in Nat
      /\ \A i \in 1 .. Len(s) - 1 : Tail(s)[i] = s[i + 1]
  BY TailFacts
<1>2. t \in Seq(AnyOp) /\ Len(t) = Len(ops) + Len(s) - 1
  BY <1>1
<1>3. \A i \in 1 .. Len(ops) : i \in 1 .. Len(t) /\ t[i] = ops[i]
  BY <1>1, <1>2
<1>4. ASSUME NEW i \in 2 .. Len(s)
      PROVE  i + (Len(ops) - 1) \in 1 .. Len(t) /\ t[i + (Len(ops) - 1)] = s[i]
  <2>1. i - 1 \in 1 .. Len(s) - 1 /\ i + (Len(ops) - 1) = Len(ops) + (i - 1)
    BY <1>1
  <2>2. t[Len(ops) + (i - 1)] = Tail(s)[i - 1]
    BY <2>1, <1>1
  <2>3. Tail(s)[i - 1] = s[i]
    BY <2>1, <1>1
  <2> QED BY <2>1, <2>2, <2>3, <1>1, <1>2
<1>5. ASSUME NEW i \in 1 .. Len(t), i \notin 1 .. Len(ops)
      PROVE  \E k \in 2 .. Len(s) : i = k + (Len(ops) - 1)
  <2>1. i - (Len(ops) - 1) \in 2 .. Len(s) /\ i = (i - (Len(ops) - 1)) + (Len(ops) - 1)
    BY <1>1, <1>2, <1>5
  <2> QED BY <2>1
<1> QED BY <1>1, <1>2, <1>3, <1>4, <1>5 DEF Pushed

LEMMA JumpFacts ==
  ASSUME NEW s \in Seq(AnyOp), s # <<>>, NEW c \in 2 .. Len(s), NEW h \in Seq(AnyOp),
         NEW t, t = h \o SubSeq(Tail(s), c, Len(s) - 1)
  PROVE  Jumped(s, t, c, h)
<1> DEFINE r == Tail(s)
           u == SubSeq(r, c, Len(s) - 1)
<1>1. /\ r \in Seq(AnyOp) /\ Len(r) = Len(s) - 1 /\ Len(s) \in Nat \ {0} /\ Len(h) \in Nat
      /\ \A i \in 1 .. Len(s) - 1 : r[i] = s[i + 1]
  BY TailFacts
<1> HIDE DEF r
<1>2. u \in Seq(AnyOp) /\ Len(u) = Len(s) - c /\ \A i \in 1 .. Len(s) - c : u[i] = r[i + c - 1]
  BY <1>1
<1>3. t = h \o u
  BY DEF r
<1> HIDE DEF u
<1>4. /\ t \in Seq(AnyOp) /\ Len(t) = Len(h) + Len(s) - c
      /\ \A i \in 1 .. Len(s) - c : t[Len(h) + i] = u[i]
  <2>1. /\ h \o u \in Seq(AnyOp) /\ Len(h \o u) = Len(h) + Len(u)
        /\ \A i \in 1 .. Len(u) : (h \o u)[Len(h) + i] = u[i]
    <3>1. h \in Seq(AnyOp) /\ u \in Seq(AnyOp)
      BY <1>2
    <3>2. /\ h \o u \in Seq(AnyOp) /\ Len(h \o u) = Len(h) + Len(u)
          /\ \A i \in 1 .. Len(h) + Len(u) : (h \o u)[i] = IF i <= Len(h) THEN h[i] ELSE u[i - Len(h)]
      BY <3>1, ConcatProperties
    <3>3. ASSUME NEW i \in 1 .. Len(u) PROVE (h \o u)[Len(h) + i] = u[i]
      <4>1. /\ Len(h) + i \in 1 .. Len(h) + Len(u) /\ ~(Len(h) + i <= Len(h))
            /\ (Len(h) + i) - Len(h) = i
        BY <1>1, <1>2
      <4> QED BY <4>1, <3>2
    <3> QED BY <3>2, <3>3
  <2> QED BY <2>1, <1>1, <1>2, <1>3
<1>5. \A i \in 1 .. Len(h) : i \in 1 .. Len(t) /\ t[i] = h[i]
  BY <1>1, <1>2, <1>3, <1>4
<1>6. ASSUME NEW i \in c + 1 .. Len(s)
      PROVE  i + (Len(h) - c) \in 1 .. Len(t) /\ t[i + (Len(h) - c)] = s[i]
  <2>1. i - c \in 1 .. Len(s) - c /\ i + (Len(h) - c) = Len(h) + (i - c)
    BY <1>1
  <2>2. t[Len(h) + (i - c)] = u[i - c]
    BY <2>1, <1>4
  <2>3. u[i - c] = r[i - 1] /\ i - 1 \in 1 .. Len(s) - 1
    <3>1. (i - c) + c - 1 = i - 1 /\ i - 1 \in 1 .. Len(s) - 1
      BY <2>1, <1>1
    <3> QED BY <3>1, <2>1, <1>2
  <2>4. r[i - 1] = s[i]
    BY <2>3, <1>1
  <2>5. i + (Len(h) - c) \in 1 .. Len(t)
    BY <1>1, <1>4
  <2> QED BY <2>1, <2>2, <2>3, <2>4, <2>5
<1>7. ASSUME NEW i \in 1 .. Len(t), i \notin 1 .. Len(h)
      PROVE  \E k \in c + 1 .. Len(s) : i = k + (Len(h) - c)
  <2>1. i - (Len(h) - c) \in c + 1 .. Len(s) /\ i = (i - (Len(h) - c)) + (Len(h) - c)
    BY <1>1, <1>4, <1>7
  <2> QED BY <2>1
<1> QED BY <1>1, <1>4, <1>5, <1>6, <1>7 DEF Jumped

\* A failed operation jumps.
LEMMA RaiseJumps ==
  ASSUME todo \in Seq(AnyOp), todo # <<>>, todo[1].op \in Raising, Raise
  PROVE  Jumps(todo, todo')
<1> DEFINE I == {i \in 1 .. Len(Rest) : Rest[i].op = "catch"}
<1>1. /\ Rest \in Seq(AnyOp) /\ Len(Rest) = Len(todo) - 1 /\ Len(todo) \in Nat \ {0}
      /\ \A i \in 1 .. Len(todo) - 1 : Rest[i] = todo[i + 1]
  BY TailFacts DEF Rest
<1>2. todo' = IF (IF I # {} THEN Min(I) ELSE 0) = 0 THEN <<>>
              ELSE Rest[Min(I)].h \o SubSeq(Rest, Min(I) + 1, Len(Rest))
  BY DEF Raise, SelectInSeq
<1>3. CASE I = {}
  <2>1. ASSUME NEW k \in 2 .. Len(todo) PROVE todo[k].op # "catch"
    <3>1. k - 1 \in 1 .. Len(Rest) /\ Rest[k - 1] = todo[k]
      BY <1>1
    <3> QED BY <3>1, <1>3
  <2> QED BY <2>1, <1>2, <1>3 DEF Jumps
<1>4. CASE I # {}
  <2>1. I \subseteq Nat
    OBVIOUS
  <2>2. Min(I) \in I /\ \A y \in I : Min(I) <= y
    BY <2>1, <1>4, MinFacts
  <2>3. PICK m \in 1 .. Len(Rest) : m = Min(I) /\ Rest[m].op = "catch" /\ \A y \in I : m <= y
    BY <2>2
  <2>4. m + 1 \in 2 .. Len(todo) /\ todo[m + 1] = Rest[m] /\ m # 0
    BY <1>1
  <2>5. ASSUME NEW k \in 2 .. (m + 1) - 1 PROVE todo[k].op # "catch"
    <3>1. k - 1 \in 1 .. Len(Rest) /\ Rest[k - 1] = todo[k] /\ ~(m <= k - 1)
      BY <1>1, <2>4
    <3> QED BY <3>1, <2>3, Zenon
  <2>6. todo' = todo[m + 1].h \o SubSeq(Tail(todo), m + 1, Len(todo) - 1)
    BY <1>1, <1>2, <1>4, <2>3, <2>4, Zenon DEF Rest
  <2> QED BY <2>3, <2>4, <2>5, <2>6, Zenon DEF Jumps
<1> QED BY <1>3, <1>4


LEMMA BodyOps ==
  /\ \A o \in Steady \ OfVf : Op(o, None) \in SteadyOp
  /\ \A o \in Steady, v \in VF : Op(o, v) \in SteadyOp
  /\ \A o \in Raising \ (OfVf \union OfFn) : Op(o, None) \in BodyOp
  /\ \A o \in Raising \ OfFn, v \in VF : Op(o, v) \in BodyOp
  /\ \A o \in OfFn, f \in Fn : Op(o, f) \in BodyOp
  /\ Ignore \in BodyOp /\ Catch(<<Op("auto", None)>>) \in BodyOp
  /\ SteadyOp \subseteq BodyOp /\ SteadyOp \subseteq Ops2 /\ BodyOp \subseteq Ops2
<1>1. \A o, f : Op(o, f).op = o
  BY DEF Op
<1>2. Steady \subseteq Inner /\ Raising \subseteq Inner /\ Steady \intersect OfFn = {} /\ OfFn \subseteq Raising
  BY DEF Steady, Raising, Inner, OfFn
<1>3. SteadyOp \subseteq BodyOp /\ SteadyOp \subseteq Ops2
  BY Levels DEF SteadyOp, BodyOp
<1>4. "auto" \in Inner \ (OfVf \union OfFn)
  BY DEF Inner, Raising, OfVf, OfFn, Grants
<1>5. Catch(<<Op("auto", None)>>) \in Ops1
  <2>1. Op("auto", None) \in Ops0
    BY <1>4, PlainOps
  <2>2. <<Op("auto", None)>> \in Seq(Ops0)
    BY <2>1
  <2> QED BY <2>2, Branches
<1>6. BodyOp \subseteq Ops2
  BY <1>5, Branches, Levels DEF BodyOp
<1>7. \A o \in Steady \ OfVf : Op(o, None) \in SteadyOp
  BY <1>1, <1>2, PlainOps DEF SteadyOp
<1>8. \A o \in Steady, v \in VF : Op(o, v) \in SteadyOp
  BY <1>1, <1>2, PlainOps DEF SteadyOp
<1>9. /\ \A o \in Raising \ (OfVf \union OfFn) : Op(o, None) \in BodyOp
      /\ \A o \in Raising \ OfFn, v \in VF : Op(o, v) \in BodyOp
      /\ \A o \in OfFn, f \in Fn : Op(o, f) \in BodyOp
  BY <1>1, <1>2, PlainOps DEF BodyOp
<1> QED BY <1>3, <1>6, <1>7, <1>8, <1>9 DEF BodyOp

\* What is to be done first.
LEMMA FirstFacts ==
  ASSUME TypeOK, todo \in Seq(AnyOp), NEW o, Doing(o)
  PROVE  /\ todo # <<>> /\ todo[1].op = o /\ todo[1] = Head(todo) /\ todo[1] \in AnyOp
         /\ Arg = todo[1].f /\ Rest = Tail(todo)
         /\ o \in OfVf => Arg \in VF
         /\ o \in OfFn => Arg \in Fn
         /\ todo[1].h \in Seq(Ops1)
BY TailFacts, OpFacts DEF Doing, Arg, Rest

LEMMA PushSteady ==
  ASSUME TypeOK, todo \in Seq(AnyOp), NEW o, Doing(o), o \in Steady \union {"start", "catch"} \union Grants,
         NEW ops \in Seq(SteadyOp), Then(ops)
  PROVE  Proceeds(todo, todo')
<1>1. ops \in Seq(Ops2)
  BY BodyOps
<1> QED BY <1>1, FirstFacts DEF Proceeds, Pushes, Then

LEMMA PushBody ==
  ASSUME TypeOK, todo \in Seq(AnyOp), NEW o, Doing(o), o \in Raising, NEW ops \in Seq(BodyOp), Then(ops)
  PROVE  Proceeds(todo, todo')
<1>1. ops \in Seq(Ops2)
  BY BodyOps
<1> QED BY <1>1, FirstFacts DEF Proceeds, Pushes, Then

LEMMA RaiseProceeds ==
  ASSUME TypeOK, todo \in Seq(AnyOp), NEW o, Doing(o), o \in Raising, Raise
  PROVE  Proceeds(todo, todo')
BY FirstFacts, RaiseJumps DEF Proceeds

LEMMA BranchProceeds ==
  ASSUME TypeOK, todo \in Seq(AnyOp), Branch
  PROVE  Proceeds(todo, todo')
<1>1. CASE Doing("catch") /\ Then(<<>>)
  <2>1. <<>> \in Seq(SteadyOp)
    OBVIOUS
  <2> QED BY <1>1, <2>1, PushSteady
<1>2. CASE Doing("return") /\ todo' = <<>>
  BY <1>2, FirstFacts DEF Proceeds, LeavesHandler
<1>3. ASSUME NEW o \in Tests, Doing(o), Then(<<>>) \/ Then(Head(todo).h) PROVE Proceeds(todo, todo')
  <2>1. todo # <<>> /\ todo[1].op \in Tests /\ todo[1].h \in Seq(Ops2) /\ <<>> \in Seq(Ops2)
    BY <1>3, FirstFacts, Levels
  <2>2. todo' = <<>> \o Tail(todo) \/ todo' = todo[1].h \o Tail(todo)
    BY <1>3, FirstFacts DEF Then
  <2> QED BY <2>1, <2>2 DEF Proceeds, Pushes
<1>4. CASE Doing("ifbad") /\ Then(IF st = "ABNORMAL" THEN Head(todo).h ELSE <<>>)
  BY <1>3, <1>4 DEF Tests
<1>5. CASE Doing("ifhung") /\ Then(IF st = "ABNORMAL" /\ cur = Arg THEN Head(todo).h ELSE <<>>)
  BY <1>3, <1>5 DEF Tests
<1>6. CASE Doing("ifactive") /\ Then(IF Active(Arg) THEN Head(todo).h ELSE <<>>)
  BY <1>3, <1>6 DEF Tests
<1> QED BY <1>1, <1>2, <1>4, <1>5, <1>6 DEF Branch

LEMMA NextVf ==
  ASSUME NEW v \in VF, v + 1 < NumVF
  PROVE  v + 1 \in VF
BY FnFacts DEF VF

LEMMA CallProceeds ==
  ASSUME TypeOK, todo \in Seq(AnyOp), Call
  PROVE  Proceeds(todo, todo')
<1> USE FnFacts
<1>0. /\ {"save", "loop", "auto"} \subseteq Raising \ (OfVf \union OfFn)
      /\ {"turn", "orphan", "fini", "resetvf", "saved"} \subseteq Raising \ OfFn
      /\ {"load", "init", "switch"} \subseteq OfFn
      /\ {"stop", "gpureset", "wgr", "endfa"} \subseteq Steady \ OfVf
      /\ {"remove", "AVAIL", "expel"} \subseteq Steady /\ {"remove", "AVAIL", "expel"} \subseteq OfVf
      /\ {"turn", "orphan", "fini", "resetvf", "saved", "timeout"} \subseteq OfVf
      /\ OfFn \subseteq Raising
  BY DEF Raising, Steady, OfVf, OfFn, Grants
<1>1. CASE /\ Doing("switch")
           /\ IF st = "ABNORMAL" THEN Raise
              ELSE Then(IF st = "LOADED" /\ cur = Arg THEN <<>>
                        ELSE (IF st = "LOADED" THEN <<Op("save", None)>> ELSE <<>>)
                             \o <<Op(IF Arg \in inited THEN "load" ELSE "init", Arg)>>)
  <2>1. Arg \in Fn
    BY <1>0, <1>1, FirstFacts
  <2> DEFINE a == IF st = "LOADED" THEN <<Op("save", None)>> ELSE <<>>
             b == <<Op(IF Arg \in inited THEN "load" ELSE "init", Arg)>>
  <2>2. a \in Seq(BodyOp)
    BY <1>0, BodyOps
  <2>3. b \in Seq(BodyOp)
    BY <1>0, <2>1, BodyOps
  <2>4. a \o b \in Seq(BodyOp) /\ <<>> \in Seq(BodyOp)
    BY <2>2, <2>3
  <2>5. "switch" \in Raising
    BY <1>0
  <2> HIDE DEF a, b
  <2>6. Raise \/ Then(<<>>) \/ Then(a \o b)
    BY <1>1 DEF a, b
  <2> QED BY <1>1, <2>4, <2>5, <2>6, PushBody, RaiseProceeds
<1>2. CASE /\ Doing("saved")
           /\ Then(IF ~Active(Arg) \/ Arg \notin inited \/ (cur = Arg /\ st = "SAVED") THEN <<>>
                   ELSE <<Op("load", Arg), Op("save", None)>>)
  <2>1. Arg \in Fn /\ "saved" \in Raising
    BY <1>0, <1>2, FirstFacts
  <2>2. <<Op("load", Arg), Op("save", None)>> \in Seq(BodyOp) /\ <<>> \in Seq(BodyOp)
    BY <1>0, <2>1, BodyOps
  <2> QED BY <1>2, <2>1, <2>2, PushBody
<1>3. CASE /\ Doing("loop")
           /\ Then(IF ActiveVfs = {} THEN <<>> ELSE <<Op("turn", 0), Catch(<<Op("auto", None)>>)>>)
  <2>1. <<Op("turn", 0), Catch(<<Op("auto", None)>>)>> \in Seq(BodyOp) /\ <<>> \in Seq(BodyOp)
    BY <1>0, BodyOps
  <2> QED BY <1>0, <1>3, <2>1, PushBody
<1>4. CASE /\ Doing("turn")
           /\ Each("turn", IF Active(Arg) /\ Arg \notin unshut THEN <<Op("load", Arg), Op("save", None)>>
                           ELSE <<>>)
  <2>1. Arg \in VF /\ "turn" \in Raising
    BY <1>0, <1>4, FirstFacts
  <2> DEFINE a == IF Active(Arg) /\ Arg \notin unshut THEN <<Op("load", Arg), Op("save", None)>> ELSE <<>>
             b == IF Arg + 1 < NumVF THEN <<Op("turn", Arg + 1)>> ELSE <<>>
  <2>2. a \in Seq(BodyOp)
    BY <1>0, <2>1, BodyOps
  <2>3. b \in Seq(BodyOp)
    BY <1>0, <2>1, BodyOps, NextVf
  <2>4. a \o b \in Seq(BodyOp)
    BY <2>2, <2>3
  <2> HIDE DEF a, b
  <2>5. Then(a \o b)
    BY <1>4 DEF a, b, Each
  <2> QED BY <1>4, <2>1, <2>4, <2>5, PushBody
<1>5. CASE /\ Doing("expel")
           /\ Each("expel", (IF Active(Arg) THEN <<Op("remove", Arg)>> ELSE <<>>)
                            \o (IF Arg \in Live THEN <<Op("AVAIL", Arg)>> ELSE <<>>))
  <2>1. Arg \in VF /\ "expel" \in Steady
    BY <1>0, <1>5, FirstFacts
  <2> DEFINE a == IF Active(Arg) THEN <<Op("remove", Arg)>> ELSE <<>>
             b == IF Arg \in Live THEN <<Op("AVAIL", Arg)>> ELSE <<>>
             c == IF Arg + 1 < NumVF THEN <<Op("expel", Arg + 1)>> ELSE <<>>
  <2>2. a \in Seq(SteadyOp)
    BY <1>0, <2>1, BodyOps
  <2>3. b \in Seq(SteadyOp)
    BY <1>0, <2>1, BodyOps
  <2>4. c \in Seq(SteadyOp)
    BY <1>0, <2>1, BodyOps, NextVf
  <2>5. (a \o b) \o c \in Seq(SteadyOp)
    BY <2>2, <2>3, <2>4
  <2> HIDE DEF a, b, c
  <2>6. Then((a \o b) \o c)
    BY <1>5 DEF a, b, c, Each
  <2> QED BY <1>5, <2>1, <2>5, <2>6, PushSteady
<1>6. CASE /\ Doing("orphan")
           /\ Then(IF ~Active(Arg) THEN <<>>
                   ELSE <<Op("remove", Arg), Op("switch", Arg), Ignore, Op("AVAIL", Arg),
                          Op("resetvf", Arg)>>)
  <2>1. Arg \in VF /\ Arg \in Fn /\ "orphan" \in Raising
    BY <1>0, <1>6, FirstFacts
  <2>2. {Op("remove", Arg), Op("switch", Arg), Ignore, Op("AVAIL", Arg), Op("resetvf", Arg)} \subseteq BodyOp
    BY <1>0, <2>1, BodyOps
  <2>3. /\ <<Op("remove", Arg), Op("switch", Arg), Ignore, Op("AVAIL", Arg), Op("resetvf", Arg)>> \in Seq(BodyOp)
        /\ <<>> \in Seq(BodyOp)
    BY <2>2
  <2> QED BY <1>6, <2>1, <2>3, PushBody
<1>7. CASE /\ Doing("fini")
           /\ IF status[Arg] = "AVAIL" THEN Raise ELSE Then(<<Op("remove", Arg), Op("load", Arg)>>)
  <2>1. Arg \in VF /\ Arg \in Fn /\ "fini" \in Raising
    BY <1>0, <1>7, FirstFacts
  <2>2. <<Op("remove", Arg), Op("load", Arg)>> \in Seq(BodyOp)
    BY <1>0, <2>1, BodyOps
  <2> QED BY <1>7, <2>1, <2>2, PushBody, RaiseProceeds
<1>8. CASE Doing("wgr") /\ Then(<<Op("stop", None), Op("gpureset", None)>>)
  <2>1. <<Op("stop", None), Op("gpureset", None)>> \in Seq(SteadyOp) /\ "wgr" \in Steady
    BY <1>0, BodyOps
  <2> QED BY <1>8, <2>1, PushSteady
<1>9. CASE /\ Doing("timeout")
           /\ Then(<<Op("AVAIL", Arg), Op("resetvf", Arg), Op("loop", None), Ignore,
                     Op("endfa", None), Op("start", None)>>)
  BY <1>9, FirstFacts DEF Proceeds, TimesOut, EndOps, EndFa, Then
<1> QED BY <1>1, <1>2, <1>3, <1>4, <1>5, <1>6, <1>7, <1>8, <1>9 DEF Call


\* Whatever the event thread does next is one of these.
LEMMA OpProceeds ==
  ASSUME TypeOK, todo \in Seq(AnyOp), EventOp
  PROVE  Proceeds(todo, todo')
<1> USE FnFacts
<1>0. /\ {"stop", "add", "remove", "AVAIL", "SUSPEND", "UNAVAIL", "gpureset", "shutdown", "endfa", "lock",
          "unlock", "shut", "crash", "idle", "wgr", "expel"} \subseteq Steady
      /\ {"save", "load", "init", "resetvf", "auto"} \subseteq Raising
      /\ {"wgr"} \subseteq Steady \ OfVf /\ {"save"} \subseteq Raising \ (OfVf \union OfFn)
      /\ {"load"} \subseteq OfFn
      /\ <<>> \in Seq(SteadyOp) /\ <<>> \in Seq(BodyOp)
  BY DEF Raising, Steady, OfVf, OfFn, Grants
<1>1. ASSUME NEW o \in Steady \union {"start", "catch"} \union Grants, Doing(o), Then(<<>>)
      PROVE  Proceeds(todo, todo')
  BY <1>0, <1>1, PushSteady
<1>2. ASSUME NEW o \in Raising, Doing(o), Raise \/ Then(<<>>)
      PROVE  Proceeds(todo, todo')
  BY <1>0, <1>2, PushBody, RaiseProceeds
<1>3. /\ PfCycle \in Seq(BodyOp) /\ <<Op("wgr", None)>> \in Seq(BodyOp)
      /\ <<Op("expel", 0)>> \in Seq(SteadyOp)
  BY <1>0, BodyOps DEF PfCycle
<1>4. CASE Branch
  BY <1>4, BranchProceeds
<1>5. CASE Call
  BY <1>5, CallProceeds
<1>6. CASE Stop \/ AddVf \/ RemoveVf \/ ShutdownVf
  BY <1>6, <1>0, <1>1 DEF Stop, AddVf, RemoveVf, ShutdownVf
<1>7. CASE Start \/ GoIdle
  BY <1>7, <1>0, <1>1 DEF Start, GoIdle
<1>8. CASE SetStatus
  <2>1. PICK s \in {"AVAIL", "SUSPEND", "UNAVAIL"} : Doing(s)
    BY <1>8 DEF SetStatus
  <2> QED BY <1>8, <2>1, <1>0, <1>1 DEF SetStatus
<1>9. CASE FullAccess
  BY <1>9, <1>0, <1>1 DEF FullAccess, Grants
<1>10. CASE SetFlags
  BY <1>10, <1>0, <1>1 DEF SetFlags
<1>11. CASE Save
  BY <1>11, <1>0, <1>2 DEF Save
<1>12. CASE Load
  BY <1>12, <1>0, <1>2 DEF Load
<1>13. CASE InitCtx
  BY <1>13, <1>0, <1>2 DEF InitCtx
<1>14. CASE ResetVf
  BY <1>14, <1>0, <1>3, PushBody DEF ResetVf
<1>15. CASE GpuReset
  BY <1>15, <1>0, <1>3, PushSteady DEF GpuReset
<1>16. CASE ResetAuto
  <2> DEFINE a == IF Active(cur) THEN <<Op("remove", cur)>> ELSE <<>>
             ops == a \o <<Op("AVAIL", cur)>> \o PfCycle
  <2>1. Doing("auto")
    BY <1>16 DEF ResetAuto
  <2>2. CASE Then(<<>>)
    BY <2>1, <2>2, <1>0, PushBody
  <2>3. CASE Then(<<Op("wgr", None)>>)
    BY <2>1, <2>3, <1>0, <1>3, PushBody
  <2>4. CASE Then(ops) /\ cur # PF
    <3>1. cur \in VF
      BY <2>4 DEF TypeOK
    <3>2. Op("remove", cur) \in BodyOp /\ Op("AVAIL", cur) \in BodyOp
      BY <3>1, <1>0, BodyOps
    <3>3. a \in Seq(BodyOp)
      BY <3>2
    <3>4. <<Op("AVAIL", cur)>> \in Seq(BodyOp)
      BY <3>2
    <3> HIDE DEF a
    <3>5. ops \in Seq(BodyOp)
      BY <3>3, <3>4, <1>3
    <3> QED BY <2>1, <2>4, <3>5, <1>0, PushBody
  <2> HIDE DEF ops
  <2>5. Then(<<>>) \/ Then(<<Op("wgr", None)>>) \/ (Then(ops) /\ cur # PF)
    BY <1>16 DEF ResetAuto, ops
  <2> QED BY <2>2, <2>3, <2>4, <2>5
<1> QED BY <1>4, <1>5, <1>6, <1>7, <1>8, <1>9, <1>10, <1>11, <1>12, <1>13, <1>14, <1>15, <1>16
        DEF EventOp

\* The types and the order of the sequence survive this.
LEMMA ProceedsTypes ==
  ASSUME NEW s \in Seq(AnyOp), NEW t, Proceeds(s, t), StartLast(s)
  PROVE  t \in Seq(AnyOp) /\ StartLast(t)
<1>1. ASSUME NEW ops \in Seq(Ops2), t = ops \o Tail(s), s # <<>> PROVE t \in Seq(AnyOp) /\ StartLast(t)
  <2>1. ops \in Seq(AnyOp)
    BY Levels
  <2> DEFINE d == Len(ops) - 1
  <2>2. /\ t \in Seq(AnyOp) /\ Len(s) \in Nat \ {0} /\ Len(ops) \in Nat
        /\ \A i \in 1 .. Len(ops) : t[i] = ops[i]
        /\ \A i \in 2 .. Len(s) : t[i + d] = s[i]
        /\ \A i \in 1 .. Len(t) : i \in 1 .. Len(ops) \/ \E k \in 2 .. Len(s) : i = k + d
    <3>1. Pushed(s, t, ops)
      BY <1>1, <2>1, PushFacts
    <3> QED BY <3>1 DEF Pushed
  <2>3. ASSUME NEW i \in 1 .. Len(t), NEW j \in 1 .. Len(t), i < j, t[i].op \in {"start", "timeout"}
        PROVE  Free(t[j])
    <3>1. ~(i \in 1 .. Len(ops))
      <4>1. i \in 1 .. Len(ops) => t[i] \in Ops2
        BY <2>2
      <4> QED BY <4>1, <2>3, InnerFacts DEF Outer
    <3>2. PICK k \in 2 .. Len(s) : i = k + d
      BY <3>1, <2>2
    <3>3. ~(j \in 1 .. Len(ops))
      BY <2>2, <2>3, <3>1
    <3>4. PICK m \in 2 .. Len(s) : j = m + d
      BY <3>3, <2>2
    <3>5. k < m /\ k \in 1 .. Len(s) /\ m \in 1 .. Len(s) /\ t[i] = s[k] /\ t[j] = s[m]
      BY <2>2, <2>3, <3>2, <3>4
    <3> QED BY <3>5, <2>3 DEF StartLast
  <2> QED BY <2>2, <2>3 DEF StartLast
<1>2. CASE Pushes(s, t)
  BY <1>1, <1>2 DEF Pushes
<1>3. t = <<>> => t \in Seq(AnyOp) /\ StartLast(t)
  BY DEF StartLast
<1>4. CASE Jumps(s, t) /\ t # <<>>
  <2>1. s # <<>>
    BY <1>4 DEF Jumps
  <2>2. PICK c \in 2 .. Len(s) : t = s[c].h \o SubSeq(Tail(s), c, Len(s) - 1)
    BY <1>4 DEF Jumps
  <2>3. PICK h \in Seq(AnyOp) : h \in Seq(Ops2) /\ t = h \o SubSeq(Tail(s), c, Len(s) - 1)
    <3>1. s[c] \in AnyOp
      BY <2>2
    <3>2. s[c].h \in Seq(Ops1)
      BY <3>1, OpFacts
    <3>3. s[c].h \in Seq(Ops2) /\ s[c].h \in Seq(AnyOp)
      BY <3>2, Levels
    <3> QED BY <2>2, <3>3
  <2> DEFINE d == Len(h) - c
  <2>4. /\ t \in Seq(AnyOp) /\ Len(s) \in Nat /\ Len(h) \in Nat
        /\ \A i \in 1 .. Len(h) : t[i] = h[i]
        /\ \A i \in c + 1 .. Len(s) : t[i + d] = s[i]
        /\ \A i \in 1 .. Len(t) : i \in 1 .. Len(h) \/ \E k \in c + 1 .. Len(s) : i = k + d
    <3>1. Jumped(s, t, c, h)
      BY <2>1, <2>2, <2>3, JumpFacts
    <3> QED BY <3>1 DEF Jumped
  <2>5. h \in Seq(Ops2)
    BY <2>3
  <2>6. ASSUME NEW i \in 1 .. Len(t), NEW j \in 1 .. Len(t), i < j, t[i].op \in {"start", "timeout"}
        PROVE  Free(t[j])
    <3>1. ~(i \in 1 .. Len(h))
      <4>1. i \in 1 .. Len(h) => t[i] \in Ops2
        BY <2>4, <2>5
      <4> QED BY <4>1, <2>6, InnerFacts DEF Outer
    <3>2. PICK k \in c + 1 .. Len(s) : i = k + d
      BY <3>1, <2>4
    <3>3. ~(j \in 1 .. Len(h))
      BY <2>4, <2>6, <3>1
    <3>4. PICK m \in c + 1 .. Len(s) : j = m + d
      BY <3>3, <2>4
    <3>5. k < m /\ k \in 1 .. Len(s) /\ m \in 1 .. Len(s) /\ t[i] = s[k] /\ t[j] = s[m]
      BY <2>4, <2>6, <3>2, <3>4
    <3> QED BY <3>5, <2>6 DEF StartLast
  <2> QED BY <2>4, <2>6 DEF StartLast
<1>5. CASE TimesOut(s, t)
  <2>1. s # <<>> /\ s[1].op = "timeout" /\ t = EndOps(s[1].f) \o Tail(s)
    BY <1>5 DEF TimesOut
  <2>2. 1 \in 1 .. Len(s) /\ s[1].f \in VF
    BY <2>1, TailFacts, OpFacts DEF OfVf
  <2>3. {Op("AVAIL", s[1].f), Op("resetvf", s[1].f), Op("loop", None), Ignore, EndFa} \subseteq AnyOp
    BY <2>2, PlainOps, Branches, Levels DEF Inner, Steady, Raising, OfVf, OfFn, Grants
  <2>4. Op("start", None) \in AnyOp
    BY FnFacts DEF AnyOp, OpsOuter, Op, Outer, ArgOk, OfVf, OfFn, Grants
  <2>5. EndOps(s[1].f) \in Seq(AnyOp) /\ Len(EndOps(s[1].f)) = 6
    BY <2>3, <2>4 DEF EndOps
  <2>6. PICK ops \in Seq(AnyOp) :
          /\ t = ops \o Tail(s) /\ Len(ops) = 6
          /\ \A i \in 1 .. 5 : ops[i].op \notin {"start", "timeout"}
    <3>1. \A i \in 1 .. 5 : EndOps(s[1].f)[i].op \notin {"start", "timeout"}
      BY DEF EndOps, EndFa, Op, Ignore, Catch
    <3> QED BY <3>1, <2>1, <2>5
  <2> DEFINE d == Len(ops) - 1
  <2>7. /\ t \in Seq(AnyOp) /\ Len(s) \in Nat \ {0}
        /\ \A i \in 1 .. Len(ops) : t[i] = ops[i]
        /\ \A i \in 2 .. Len(s) : t[i + d] = s[i]
        /\ \A i \in 1 .. Len(t) : i \in 1 .. Len(ops) \/ \E k \in 2 .. Len(s) : i = k + d
    <3>1. Pushed(s, t, ops)
      BY <2>1, <2>6, PushFacts
    <3> QED BY <3>1 DEF Pushed
  <2>8. ASSUME NEW i \in 1 .. Len(t), NEW j \in 1 .. Len(t), i < j, t[i].op \in {"start", "timeout"}
        PROVE  Free(t[j])
    <3>1. i >= 6
      <4>1. i \in 1 .. 5 => t[i] = ops[i]
        <5>1. Len(ops) = 6
          BY <2>6
        <5> QED BY <5>1, <2>7
      <4>2. i \in 1 .. 5 => ops[i].op \notin {"start", "timeout"}
        BY <2>6, Zenon
      <4> QED BY <4>1, <4>2, <2>8
    <3>2. PICK m \in 2 .. Len(s) : j = m + d
      BY <3>1, <2>6, <2>7, <2>8
    <3>3. t[j] = s[m] /\ 1 < m /\ m \in 1 .. Len(s)
      BY <3>2, <2>7
    <3> QED BY <3>3, <2>1, <2>2 DEF StartLast
  <2> QED BY <2>7, <2>8 DEF StartLast
<1> QED BY <1>2, <1>3, <1>4, <1>5 DEF Proceeds, LeavesHandler


-----------------------------------------------------------------------------
(* Paths.                                                                  *)

LEMMA PassesShift ==
  ASSUME NEW s, NEW t, NEW H, NEW d \in Int, NEW a \in Nat \ {0}, NEW i \in Nat,
         \A k \in a .. i : t[k + d] = s[k], NEW j \in a .. i - 1, Passes(s, i, j, H)
  PROVE  Passes(t, i + d, j + d, H)
<1>1. t[j + d] = s[j]
  OBVIOUS
<1>2. ASSUME Caught(s, i, j) PROVE Caught(t, i + d, j + d)
  <2>1. PICK k \in j + 1 .. i - 1 : s[k].op = "catch"
    BY <1>2 DEF Caught
  <2>2. k + d \in (j + d) + 1 .. (i + d) - 1 /\ t[k + d] = s[k]
    BY <2>1
  <2> QED BY <2>1, <2>2 DEF Caught
<1> QED BY <1>1, <1>2 DEF Passes

\* The end of a path stays at its end when the first operation is done.
Follows(s, i, t, H) == \E e \in 1 .. Len(t) : Path(t, e, H) /\ t[e] = s[i] /\ Len(t) - e = Len(s) - i

LEMMA PathPush ==
  ASSUME NEW s \in Seq(AnyOp), NEW t, NEW H, <<>> \in H, Pushes(s, t), NEW i \in 2 .. Len(s), Path(s, i, H)
  PROVE  Follows(s, i, t, H)
<1>1. s # <<>>
  BY DEF Pushes
<1>2. PICK ops \in Seq(Ops2) :
        /\ t = ops \o Tail(s)
        /\ \/ s[1].op \in Steady \union {"start", "catch"} \union Grants /\ ops \in Seq(SteadyOp)
           \/ s[1].op \in Tests /\ ops \in {<<>>, s[1].h}
           \/ s[1].op \in Raising /\ ops \in Seq(BodyOp)
  BY DEF Pushes
<1>3. Pushed(s, t, ops)
  <2>1. ops \in Seq(AnyOp)
    BY Levels
  <2> QED BY <1>1, <1>2, <2>1, PushFacts
<1>c. Len(ops) \in Nat
  BY <1>3 DEF Pushed
<1>d. PICK d \in Int : d = Len(ops) - 1
  BY <1>c
<1>e. PICK e \in Int : i \in Nat /\ e = i + d
  <2>1. i \in Nat
    OBVIOUS
  <2> QED BY <2>1
<1>4. /\ Len(ops) \in Nat /\ Len(s) \in Nat \ {0} /\ Len(t) = Len(s) + d
      /\ \A k \in 2 .. i : k + d \in 1 .. Len(t) /\ t[k + d] = s[k]
      /\ \A k \in 1 .. Len(ops) : t[k] = ops[k]
      /\ \A k \in 1 .. Len(t) : k \in 1 .. Len(ops) \/ \E m \in 2 .. Len(s) : k = m + d
  BY <1>3, <1>d DEF Pushed
<1>5. e \in 1 .. Len(t) /\ t[e] = s[i] /\ Len(t) - e = Len(s) - i
  BY <1>4, <1>e, <1>d
<1>6. ASSUME NEW j \in 2 .. i - 1 PROVE Passes(t, e, j + d, H)
  <2>1. Passes(s, i, j, H)
    BY DEF Path
  <2>2. 2 \in Nat \ {0} /\ i \in Nat /\ \A k \in 2 .. i : t[k + d] = s[k]
    BY <1>4
  <2>3. Passes(t, i + d, j + d, H)
    BY <2>1, <2>2, PassesShift
  <2> QED BY <2>3, <1>e
<1>7. Passes(s, i, 1, H)
  BY DEF Path
<1>8. ASSUME Caught(s, i, 1), NEW j \in 1 .. Len(ops) PROVE Caught(t, e, j)
  <2>1. PICK k \in 2 .. i - 1 : s[k].op = "catch"
    BY <1>8 DEF Caught
  <2>2. k + d \in j + 1 .. e - 1 /\ t[k + d] = s[k]
    BY <1>4, <1>d, <1>e
  <2> QED BY <2>1, <2>2 DEF Caught
<1>9. ASSUME NEW j \in 1 .. Len(ops) PROVE Passes(t, e, j, H)
  <2>0. t[j] = ops[j] /\ s[1].op \notin {"start"} \union Grants
    BY <1>4, <1>7 DEF Passes, Steady, Raising, Grants
  <2>1. CASE ops \in Seq(SteadyOp)
    <3>1. ops[j] \in SteadyOp
      BY <2>1
    <3> QED BY <3>1, <2>0 DEF Passes, SteadyOp
  <2>2. CASE s[1].op \in Raising /\ ops \in Seq(BodyOp)
    <3>1. Caught(s, i, 1)
      BY <2>2, <1>7 DEF Passes, Steady, Raising
    <3>2. Caught(t, e, j)
      BY <3>1, <1>8
    <3>3. t[j] \in BodyOp
      BY <2>0, <2>2
    <3>4. CASE t[j].op \in Steady \union Raising
      BY <3>2, <3>4 DEF Passes
    <3>5. CASE t[j] = Ignore
      BY <3>5 DEF Passes, Ignore, Catch
    <3>6. CASE t[j] = Catch(<<Op("auto", None)>>)
      BY <3>2, <3>6 DEF Passes, Catch
    <3> QED BY <3>3, <3>4, <3>5, <3>6 DEF BodyOp
  <2>3. CASE s[1].op \in Tests /\ ops \in {<<>>, s[1].h}
    <3>1. s[1].op = "ifbad" /\ s[1].h = AutoOrEnd /\ <<EndFa, Return>> \in H
      BY <2>3, <1>7 DEF Passes, Tests, Steady, Raising
    <3>2. ops # <<>>
      BY <1>9, <1>4
    <3>3. ops = <<Op("auto", None), Catch(<<EndFa, Return>>)>>
      BY <3>1, <3>2, <2>3 DEF AutoOrEnd
    <3>a. Len(<<Op("auto", None), Catch(<<EndFa, Return>>)>>) = 2
      OBVIOUS
    <3>b. Len(ops) = 2
      BY <3>a, <3>3
    <3>4. Len(ops) = 2 /\ t[1] = Op("auto", None) /\ t[2] = Catch(<<EndFa, Return>>)
      BY <3>b, <3>3, <1>4
    <3>5. t[1].op = "auto" /\ t[2].op = "catch" /\ t[2].h = <<EndFa, Return>>
      BY <3>4 DEF Op, Catch
    <3>6. CASE j = 1
      <4>1. 2 \in 1 + 1 .. e - 1
        BY <3>4, <1>d, <1>e
      <4> QED BY <3>5, <3>6, <4>1 DEF Passes, Caught, Raising
    <3>7. CASE j = 2
      BY <3>1, <3>5, <3>7 DEF Passes
    <3> QED BY <3>4, <3>6, <3>7
  <2> QED BY <2>1, <2>2, <2>3, <1>2
<1>10. ASSUME NEW j \in 1 .. e - 1 PROVE Passes(t, e, j, H)
  <2>1. CASE j \in 1 .. Len(ops)
    BY <2>1, <1>9
  <2>2. CASE j \notin 1 .. Len(ops)
    <3>0. j \in 1 .. Len(t)
      BY <1>5, <1>4
    <3>1. PICK m \in 2 .. Len(s) : j = m + d
      BY <2>2, <1>4, <3>0
    <3>2. m \in 2 .. i - 1
      BY <3>1, <1>e
    <3> QED BY <3>1, <3>2, <1>6
  <2> QED BY <2>1, <2>2
<1>11. Path(t, e, H)
  BY <1>5, <1>10 DEF Path
<1> QED BY <1>5, <1>11 DEF Follows

\* The operations t are those of a branch of H and what follows it.
LedOff(t, H) == \E h \in H, u \in Seq(AnyOp) : h # <<>> /\ h \in Seq(AnyOp) /\ t = h \o u

\* A failure leads on to the end of the path, or to a branch of H.
LEMMA PathJump ==
  ASSUME NEW s \in Seq(AnyOp), NEW t, NEW H, <<>> \in H, Jumps(s, t), NEW i \in 2 .. Len(s), Path(s, i, H)
  PROVE  Follows(s, i, t, H) \/ LedOff(t, H)
<1>1. s # <<>> /\ s[1].op \in Raising
  BY DEF Jumps
<1>2. Len(s) \in Nat /\ 1 \in 1 .. i - 1
  OBVIOUS
<1>3. PICK k \in 2 .. i - 1 : s[k].op = "catch"
  <2>1. Passes(s, i, 1, H)
    BY <1>2 DEF Path
  <2> QED BY <2>1, <1>1 DEF Passes, Caught, Steady, Raising
<1>4. PICK c \in 2 .. Len(s) :
        /\ s[c].op = "catch" /\ \A m \in 2 .. c - 1 : s[m].op # "catch"
        /\ t = s[c].h \o SubSeq(Tail(s), c, Len(s) - 1)
  <2>1. k \in 2 .. Len(s)
    BY <1>3
  <2> QED BY <2>1, <1>3 DEF Jumps
<1>5. c \in 2 .. i - 1
  BY <1>3, <1>4
<1>6. Passes(s, i, c, H)
  BY <1>5 DEF Path
<1>7. s[c].h \in H \/ (s[c].h = <<Op("auto", None)>> /\ Caught(s, i, c))
  BY <1>6, <1>4 DEF Passes, Steady, Raising
<1>8. PICK h \in Seq(AnyOp) : h = s[c].h
  <2>1. s[c] \in AnyOp
    OBVIOUS
  <2> QED BY <2>1, OpFacts, Levels
<1>9. Jumped(s, t, c, h)
  BY <1>1, <1>4, <1>8, JumpFacts
<1>c. Len(h) \in Nat /\ c \in Int /\ i \in Nat
  BY <1>9, <1>5, <1>2 DEF Jumped
<1>d. PICK d \in Int : d = Len(h) - c
  BY <1>c
<1>e. PICK e \in Int : i \in Nat /\ e = i + d
  BY <1>c, <1>d
<1>10. /\ Len(h) \in Nat /\ Len(t) = Len(s) + d
       /\ \A m \in c + 1 .. i : m + d \in 1 .. Len(t) /\ t[m + d] = s[m]
       /\ \A m \in 1 .. Len(h) : t[m] = h[m]
       /\ \A m \in 1 .. Len(t) : m \in 1 .. Len(h) \/ \E n \in c + 1 .. Len(s) : m = n + d
  BY <1>9, <1>5, <1>d DEF Jumped
<1>11. e \in 1 .. Len(t) /\ t[e] = s[i] /\ Len(t) - e = Len(s) - i
  <2>1. i \in c + 1 .. i /\ i \in Nat /\ Len(s) \in Nat
    BY <1>2, <1>5
  <2>2. i + d \in 1 .. Len(t) /\ t[i + d] = s[i]
    BY <2>1, <1>10
  <2> QED BY <2>1, <2>2, <1>10, <1>e
<1>12. ASSUME NEW j \in c + 1 .. i - 1 PROVE Passes(t, e, j + d, H)
  <2>1. Passes(s, i, j, H) /\ c + 1 \in Nat \ {0}
    BY <1>5 DEF Path
  <2>2. \A q \in c + 1 .. i : t[q + d] = s[q]
    BY <1>10
  <2>3. Passes(t, i + d, j + d, H)
    BY <2>1, <2>2, <1>e, PassesShift
  <2> QED BY <2>3, <1>e
<1>13. ASSUME h = <<>> \/ (h = <<Op("auto", None)>> /\ Caught(s, i, c)) PROVE Follows(s, i, t, H)
  <2>1. ASSUME NEW j \in 1 .. Len(h) PROVE Passes(t, e, j, H)
    <3>a. h = <<Op("auto", None)>> /\ Caught(s, i, c)
      BY <1>13, <2>1
    <3>b. Len(<<Op("auto", None)>>) = 1
      OBVIOUS
    <3>1. h = <<Op("auto", None)>> /\ Caught(s, i, c) /\ j = 1 /\ Len(h) = 1
      BY <3>a, <3>b, <2>1
    <3>2. t[1].op = "auto"
      BY <3>1, <1>10 DEF Op
    <3>3. PICK m \in c + 1 .. i - 1 : s[m].op = "catch"
      BY <3>1 DEF Caught
    <3>4. m + d \in 1 + 1 .. e - 1 /\ t[m + d] = s[m]
      BY <3>1, <1>10, <1>5, <1>d, <1>e
    <3> QED BY <3>1, <3>2, <3>3, <3>4 DEF Passes, Caught, Raising
  <2>2. ASSUME NEW j \in 1 .. e - 1 PROVE Passes(t, e, j, H)
    <3>1. CASE j \in 1 .. Len(h)
      BY <3>1, <2>1
    <3>2. CASE j \notin 1 .. Len(h)
      <4>0. j \in 1 .. Len(t)
        BY <1>11, <1>10
      <4>1. PICK n \in c + 1 .. Len(s) : j = n + d
        BY <3>2, <1>10, <4>0
      <4>2. n \in c + 1 .. i - 1
        BY <4>1, <1>e
      <4> QED BY <4>1, <4>2, <1>12
    <3> QED BY <3>1, <3>2
  <2>3. Path(t, e, H)
    BY <1>11, <2>2 DEF Path
  <2> QED BY <1>11, <2>3 DEF Follows
<1>14. CASE h # <<>> /\ h \in H
  <2>1. SubSeq(Tail(s), c, Len(s) - 1) \in Seq(AnyOp)
    <3>1. Tail(s) \in Seq(AnyOp) /\ Len(Tail(s)) = Len(s) - 1
      BY <1>1, TailFacts
    <3> QED BY <3>1, <1>4
  <2> QED BY <1>14, <2>1, <1>4, <1>8 DEF LedOff
<1> QED BY <1>7, <1>8, <1>13, <1>14


\* A path to the end of the full access stays one until that end is reached.
LEMMA Sequels ==
  /\ \A u \in Seq(AnyOp) : Leaves(<<EndFa, Return>> \o u)
  /\ \A u \in Seq(AnyOp) : Leaves((AutoOrEnd \o <<EndFa, Return>>) \o u)
  /\ \A u \in Seq(AnyOp) : Leaves((AutoOrEnd \o <<Op("loop", None), Ignore>> \o <<EndFa, Return>>) \o u)
  /\ \A v \in VF, u \in Seq(AnyOp) : Leaves(EndOps(v) \o u)
<1> DEFINE E == <<EndFa, Return>>
<1>0. /\ EndFa.op = "endfa" /\ Ignore.op = "catch" /\ Ignore.h = <<>> /\ Catch(E).op = "catch" /\ Catch(E).h = E
      /\ \A o, f : Op(o, f).op = o
      /\ {"auto", "loop", "resetvf"} \subseteq Raising /\ "AVAIL" \in Steady
      /\ <<>> \in ExitBranches /\ E \in ExitBranches
      /\ E \in Seq(AnyOp)
  <2>1. E \in Seq(AnyOp)
    BY PlainOps, Levels
  <2> QED BY <2>1 DEF EndFa, Op, Ignore, Catch, Raising, Steady, ExitBranches
<1>1. ASSUME NEW u \in Seq(AnyOp) PROVE Leaves(E \o u)
  <2>1. PICK t : t = E \o u
    OBVIOUS
  <2>2. Len(t) >= 2 /\ Len(t) \in Nat /\ t[1] = EndFa
    BY <2>1, <1>0
  <2>3. Path(t, 1, ExitBranches) /\ t[1].op = "endfa" /\ 1 \in 1 .. Len(t)
    BY <2>2, <1>0 DEF Path
  <2> QED BY <2>1, <2>3 DEF Leaves
<1>2. Op("auto", None) \in AnyOp /\ Catch(E) \in AnyOp
  <2>1. "auto" \in Inner \ (OfVf \union OfFn)
    BY DEF Inner, Raising, OfVf, OfFn, Grants
  <2>2. E \in Seq(Ops0)
    BY PlainOps
  <2> QED BY <2>1, <2>2, PlainOps, Branches, Levels
<1>4. ASSUME NEW u \in Seq(AnyOp) PROVE Leaves((AutoOrEnd \o E) \o u)
  <2>1. PICK t : t = (<<Op("auto", None), Catch(E), EndFa, Return>>) \o u
    OBVIOUS
  <2>2. t = (AutoOrEnd \o E) \o u
    BY <2>1 DEF AutoOrEnd
  <2>3. {Op("auto", None), Catch(E), EndFa, Return} \subseteq AnyOp
    BY <1>2, <1>0, PlainOps, Levels
  <2>4. /\ Len(t) >= 4 /\ Len(t) \in Nat /\ t[1] = Op("auto", None) /\ t[2] = Catch(E) /\ t[3] = EndFa
    BY <2>1, <2>3
  <2>5. /\ t[1].op = "auto" /\ t[2].op = "catch" /\ t[2].h = E /\ t[3].op = "endfa"
    BY <2>4, <1>0
  <2>6. Caught(t, 3, 1)
    BY <2>5 DEF Caught
  <2>7. Passes(t, 3, 1, ExitBranches) /\ Passes(t, 3, 2, ExitBranches)
    BY <2>5, <2>6, <1>0 DEF Passes
  <2>8. Path(t, 3, ExitBranches) /\ 3 \in 1 .. Len(t)
    BY <2>4, <2>7 DEF Path
  <2> QED BY <2>2, <2>5, <2>8 DEF Leaves
<1>5. ASSUME NEW u \in Seq(AnyOp)
      PROVE  Leaves((AutoOrEnd \o <<Op("loop", None), Ignore>> \o E) \o u)
  <2>1. PICK t : t = (<<Op("auto", None), Catch(E), Op("loop", None), Ignore, EndFa, Return>>) \o u
    OBVIOUS
  <2>2. t = (AutoOrEnd \o <<Op("loop", None), Ignore>> \o E) \o u
    BY <2>1 DEF AutoOrEnd
  <2>3. {Op("auto", None), Catch(E), Op("loop", None), Ignore, EndFa, Return} \subseteq AnyOp
    <3>1. "loop" \in Inner \ (OfVf \union OfFn)
      BY DEF Inner, Raising, OfVf, OfFn, Grants
    <3> QED BY <3>1, <1>2, <1>0, PlainOps, Branches, Levels
  <2>4. /\ Len(t) >= 6 /\ Len(t) \in Nat /\ t[1] = Op("auto", None) /\ t[2] = Catch(E)
        /\ t[3] = Op("loop", None) /\ t[4] = Ignore /\ t[5] = EndFa
    BY <2>1, <2>3
  <2>5. /\ t[1].op = "auto" /\ t[2].op = "catch" /\ t[2].h = E /\ t[3].op = "loop"
        /\ t[4].op = "catch" /\ t[4].h = <<>> /\ t[5].op = "endfa"
    BY <2>4, <1>0
  <2>6. Caught(t, 5, 1) /\ Caught(t, 5, 3)
    BY <2>5 DEF Caught
  <2>7. /\ Passes(t, 5, 1, ExitBranches) /\ Passes(t, 5, 2, ExitBranches)
        /\ Passes(t, 5, 3, ExitBranches) /\ Passes(t, 5, 4, ExitBranches)
    BY <2>5, <2>6, <1>0 DEF Passes
  <2>8. Path(t, 5, ExitBranches) /\ 5 \in 1 .. Len(t)
    BY <2>4, <2>7 DEF Path
  <2> QED BY <2>2, <2>5, <2>8 DEF Leaves
<1>6. ASSUME NEW v \in VF, NEW u \in Seq(AnyOp) PROVE Leaves(EndOps(v) \o u)
  <2>1. PICK t : t = EndOps(v) \o u
    OBVIOUS
  <2>2. {Op("AVAIL", v), Op("resetvf", v), Op("loop", None), Ignore, EndFa} \subseteq AnyOp
    BY PlainOps, Branches, Levels DEF Inner, Steady, Raising, OfVf, OfFn, Grants
  <2>3. Op("start", None) \in AnyOp
    BY FnFacts DEF AnyOp, OpsOuter, Op, Outer, ArgOk, OfVf, OfFn, Grants
  <2>4. /\ Len(t) >= 6 /\ Len(t) \in Nat /\ t[1] = Op("AVAIL", v) /\ t[2] = Op("resetvf", v)
        /\ t[3] = Op("loop", None) /\ t[4] = Ignore /\ t[5] = EndFa
    BY <2>1, <2>2, <2>3 DEF EndOps
  <2>5. /\ t[1].op = "AVAIL" /\ t[2].op = "resetvf" /\ t[3].op = "loop"
        /\ t[4].op = "catch" /\ t[4].h = <<>> /\ t[5].op = "endfa"
    BY <2>4, <1>0
  <2>6. Caught(t, 5, 2) /\ Caught(t, 5, 3)
    BY <2>5 DEF Caught
  <2>7. /\ Passes(t, 5, 1, ExitBranches) /\ Passes(t, 5, 2, ExitBranches)
        /\ Passes(t, 5, 3, ExitBranches) /\ Passes(t, 5, 4, ExitBranches)
    BY <2>5, <2>6, <1>0 DEF Passes
  <2>8. Path(t, 5, ExitBranches) /\ 5 \in 1 .. Len(t)
    BY <2>4, <2>7 DEF Path
  <2> QED BY <2>1, <2>5, <2>8 DEF Leaves
<1> QED BY <1>1, <1>4, <1>5, <1>6

LEMMA LeavesStep ==
  ASSUME NEW s \in Seq(AnyOp), NEW t, Proceeds(s, t), Leaves(s), s[1].op # "endfa"
  PROVE  Leaves(t)
<1>1. PICK i \in 1 .. Len(s) : s[i].op \in {"endfa", "timeout"} /\ Path(s, i, ExitBranches)
  BY DEF Leaves
<1>2. s # <<>> /\ Len(s) \in Nat
  BY DEF Proceeds, Pushes, Jumps, LeavesHandler, TimesOut
<1>3. CASE i = 1
  <2>1. s[1].op = "timeout"
    BY <1>1, <1>3
  <2>2. TimesOut(s, t)
    <3>1. ~Pushes(s, t)
      BY <2>1 DEF Pushes, Steady, Grants, Tests, Raising
    <3>2. ~Jumps(s, t) /\ ~LeavesHandler(s, t)
      BY <2>1 DEF Jumps, LeavesHandler, Raising
    <3> QED BY <3>1, <3>2 DEF Proceeds
  <2>3. s[1].f \in VF /\ Tail(s) \in Seq(AnyOp)
    BY <1>2, <2>1, TailFacts, OpFacts DEF OfVf
  <2> QED BY <2>2, <2>3, Sequels DEF TimesOut
<1>4. CASE i # 1
  <2>1. i \in 2 .. Len(s) /\ 1 \in 1 .. i - 1 /\ <<>> \in ExitBranches
    BY <1>4, <1>2 DEF ExitBranches
  <2>2. Passes(s, i, 1, ExitBranches)
    BY <1>1, <2>1 DEF Path
  <2>3. Pushes(s, t) \/ Jumps(s, t)
    <3>1. s[1].op \notin {"return", "timeout"}
      BY <2>2 DEF Passes, Steady, Raising
    <3> QED BY <3>1 DEF Proceeds, LeavesHandler, TimesOut
  <2>4. Follows(s, i, t, ExitBranches) => Leaves(t)
    BY <1>1 DEF Follows, Leaves
  <2>5. CASE Pushes(s, t)
    BY <2>1, <2>4, <2>5, <1>1, PathPush
  <2>6. CASE Jumps(s, t)
    <3>1. Follows(s, i, t, ExitBranches) \/ LedOff(t, ExitBranches)
      BY <2>1, <2>6, <1>1, PathJump
    <3>2. ASSUME NEW h \in ExitBranches, NEW u \in Seq(AnyOp), h # <<>>, t = h \o u PROVE Leaves(t)
      BY <3>2, Sequels DEF ExitBranches
    <3> QED BY <3>1, <3>2, <2>4 DEF LedOff
  <2> QED BY <2>3, <2>5, <2>6
<1> QED BY <1>3, <1>4


-----------------------------------------------------------------------------
(* What each operation of the event thread is.                             *)

\* The next operation says which action is taken.
LEMMA Heads ==
  /\ Branch => Head(todo).op \in {"catch", "return"} \union Tests
  /\ Call => Head(todo).op \in {"switch", "saved", "loop", "turn", "expel", "orphan", "fini", "wgr", "timeout"}
  /\ Stop => Head(todo).op = "stop"
  /\ Start => Head(todo).op = "start"
  /\ Save => Head(todo).op = "save"
  /\ Load => Head(todo).op = "load"
  /\ InitCtx => Head(todo).op = "init"
  /\ AddVf => Head(todo).op = "add"
  /\ RemoveVf => Head(todo).op = "remove"
  /\ SetStatus => Head(todo).op \in {"AVAIL", "SUSPEND", "UNAVAIL"}
  /\ ResetVf => Head(todo).op = "resetvf"
  /\ ResetAuto => Head(todo).op = "auto"
  /\ GpuReset => Head(todo).op = "gpureset"
  /\ ShutdownVf => Head(todo).op = "shutdown"
  /\ FullAccess => Head(todo).op \in Grants \union {"endfa"}
  /\ SetFlags => Head(todo).op \in {"lock", "unlock", "shut", "crash"}
  /\ GoIdle => Head(todo).op = "idle"
<1>1. Branch => Head(todo).op \in {"catch", "return"} \union Tests
  BY DEF Branch, Doing, Tests
<1>2. Call => Head(todo).op \in {"switch", "saved", "loop", "turn", "expel", "orphan", "fini", "wgr", "timeout"}
  BY DEF Call, Doing
<1>3. /\ Stop => Head(todo).op = "stop"
      /\ Start => Head(todo).op = "start"
      /\ Save => Head(todo).op = "save"
  BY DEF Stop, Start, Save, Doing
<1>4. /\ Load => Head(todo).op = "load"
      /\ InitCtx => Head(todo).op = "init"
      /\ AddVf => Head(todo).op = "add"
  BY DEF Load, InitCtx, AddVf, Doing
<1>5. /\ RemoveVf => Head(todo).op = "remove"
      /\ SetStatus => Head(todo).op \in {"AVAIL", "SUSPEND", "UNAVAIL"}
      /\ ResetVf => Head(todo).op = "resetvf"
  BY DEF RemoveVf, SetStatus, ResetVf, Doing
<1>6. /\ ResetAuto => Head(todo).op = "auto"
      /\ GpuReset => Head(todo).op = "gpureset"
      /\ ShutdownVf => Head(todo).op = "shutdown"
  BY DEF ResetAuto, GpuReset, ShutdownVf, Doing
<1>7. /\ FullAccess => Head(todo).op \in Grants \union {"endfa"}
      /\ SetFlags => Head(todo).op \in {"lock", "unlock", "shut", "crash"}
      /\ GoIdle => Head(todo).op = "idle"
  BY DEF FullAccess, SetFlags, GoIdle, Doing, Grants
<1> QED BY <1>1, <1>2, <1>3, <1>4, <1>5, <1>6, <1>7

\* Nothing but start starts the world switch, and nothing of the event thread
\* sets the switching thread going.
LEMMA StaysStopped ==
  ASSUME Stopped, EventOp, todo \in Seq(AnyOp)
  PROVE  Stopped' \/ Start
<1>1. CASE Branch \/ Call \/ ShutdownVf \/ GoIdle
  BY <1>1 DEF Branch, Call, ShutdownVf, GoIdle, ws, Stopped
<1>2. CASE Stop \/ Save \/ Load \/ InitCtx \/ AddVf \/ RemoveVf
  BY <1>2 DEF Stop, Save, Load, InitCtx, AddVf, RemoveVf, Stopped
<1>3. CASE SetStatus \/ FullAccess \/ SetFlags
  BY <1>3 DEF SetStatus, FullAccess, SetFlags, ws, Stopped
<1>4. CASE ResetVf \/ ResetAuto \/ GpuReset
  BY <1>4 DEF ResetVf, ResetAuto, GpuReset, Stopped
<1> QED BY <1>1, <1>2, <1>3, <1>4 DEF EventOp

Safe(s) == \A i \in 1 .. Len(s) : Free(s[i]) \/ \E j \in 1 .. i - 1 : s[j].op \in {"stop", "wgr"}

LEMMA SafeShift ==
  ASSUME NEW s \in Seq(AnyOp), s # <<>>, s[1].op \notin {"stop", "wgr"}, Safe(s),
         NEW ops \in Seq(AnyOp), \A i \in 1 .. Len(ops) : Free(ops[i]), NEW t, t = ops \o Tail(s)
  PROVE  Safe(t)
<1>1. Pushed(s, t, ops)
  BY PushFacts
<1>2. Len(ops) \in Nat /\ Len(s) \in Nat
  BY <1>1 DEF Pushed
<1>3. PICK d \in Int : d = Len(ops) - 1
  <2>1. Len(ops) - 1 \in Int
    BY <1>2
  <2> QED BY <2>1, Zenon
<1>4. /\ \A i \in 1 .. Len(ops) : t[i] = ops[i]
      /\ \A i \in 2 .. Len(s) : i + d \in 1 .. Len(t) /\ t[i + d] = s[i]
      /\ \A i \in 1 .. Len(t) : i \in 1 .. Len(ops) \/ \E k \in 2 .. Len(s) : i = k + d
  BY <1>1, <1>3 DEF Pushed
<1>5. ASSUME NEW i \in 1 .. Len(t) PROVE Free(t[i]) \/ \E j \in 1 .. i - 1 : t[j].op \in {"stop", "wgr"}
  <2>1. CASE i \in 1 .. Len(ops)
    BY <2>1, <1>4
  <2>2. ASSUME NEW k \in 2 .. Len(s), i = k + d, ~Free(t[i])
        PROVE  \E j \in 1 .. i - 1 : t[j].op \in {"stop", "wgr"}
    <3>a. k \in 1 .. Len(s)
      BY <1>2
    <3>b. t[k + d] = s[k]
      BY <1>4
    <3>1. t[i] = s[k] /\ k \in 1 .. Len(s)
      BY <2>2, <3>a, <3>b
    <3>2. PICK j \in 1 .. k - 1 : s[j].op \in {"stop", "wgr"}
      BY <3>1, <2>2 DEF Safe
    <3>3. j # 1
      BY <3>2
    <3>4. j \in 2 .. Len(s) /\ j + d \in 1 .. i - 1 /\ t[j + d] = s[j]
      <4>1. j \in 2 .. Len(s)
        BY <3>3, <1>2
      <4>2. j + d \in 1 .. Len(t) /\ t[j + d] = s[j]
        BY <4>1, <1>4
      <4>3. Len(t) \in Nat
        BY <1>1 DEF Pushed
      <4> QED BY <4>1, <4>2, <4>3, <2>2
    <3> QED BY <3>2, <3>4
  <2> QED BY <2>1, <2>2, <1>4
<1> QED BY <1>5 DEF Safe

\* Whatever looks at the engines comes after the world switch is stopped.
LEMMA GuardedStep ==
  ASSUME TypeOK, todo \in Seq(AnyOp), StartLast(todo), Guarded(todo), EventOp
  PROVE  Guarded(todo)'
<1>0. todo # <<>> /\ todo[1] = Head(todo) /\ todo[1] \in AnyOp /\ Len(todo) \in Nat /\ Rest = Tail(todo)
  <2>1. Proceeds(todo, todo')
    BY OpProceeds
  <2>2. todo # <<>>
    BY <2>1 DEF Proceeds, Pushes, Jumps, LeavesHandler, TimesOut
  <2> QED BY <2>2, TailFacts DEF Rest
<1>1. Stopped' => Guarded(todo)'
  BY DEF Guarded
<1>2. ASSUME Safe(todo') PROVE Guarded(todo)'
  BY <1>2 DEF Guarded, Safe
<1>3. <<>> \in Seq(AnyOp) /\ Len(<<>>) = 0
  OBVIOUS
<1>4. CASE Start
  <2>1. todo[1].op = "start" /\ todo' = <<>> \o Tail(todo)
    BY <1>0, <1>4 DEF Start, Doing, Then
  <2>2. Safe(todo)
    <3>1. ASSUME NEW i \in 1 .. Len(todo) PROVE Free(todo[i])
      <4>1. CASE i = 1
        <5>1. todo[1] \in OpsOuter
          BY <1>0, <2>1 DEF AnyOp, Ops2, Inner, Steady, Raising, Tests
        <5>2. todo[1].h = <<>>
          BY <5>1 DEF OpsOuter
        <5> QED BY <4>1, <5>2, <2>1, <1>3 DEF Free, FreeOps
      <4>2. CASE i # 1
        BY <4>2, <2>1, <1>0 DEF StartLast
      <4> QED BY <4>1, <4>2
    <3> QED BY <3>1 DEF Safe
  <2>3. \A i \in 1 .. Len(<<>>) : Free(<<>>[i])
    BY <1>3
  <2>4. todo[1].op \notin {"stop", "wgr"}
    BY <2>1
  <2>5. Safe(todo')
    BY <2>1, <2>2, <2>3, <2>4, <1>0, <1>3, SafeShift
  <2> QED BY <2>5, <1>2
<1>5. CASE Stopped
  BY <1>1, <1>4, <1>5, StaysStopped
<1>6. CASE ~Stopped /\ ~Start
  <2>1. Safe(todo) /\ Free(todo[1])
    <3>1. Safe(todo)
      BY <1>6 DEF Guarded, Safe
    <3>2. 1 \in 1 .. Len(todo)
      BY <1>0, TailFacts
    <3> QED BY <3>1, <3>2 DEF Safe
  <2>2. todo[1].op \in FreeOps \ {"start"} \/ Start
    <3>1. todo[1].op # "start" \/ Start
      BY <1>0, Heads DEF EventOp, Tests, Grants
    <3> QED BY <3>1, <2>1 DEF Free
  <2>3. CASE Stop
    BY <2>3, <1>1 DEF Stop, Stopped, LockFree
  <2>4. ASSUME NEW ops \in Seq(AnyOp), \A i \in 1 .. Len(ops) : Free(ops[i]), Then(ops),
               todo[1].op \notin {"stop", "wgr"}
        PROVE  Guarded(todo)'
    <3>1. Safe(todo')
      BY <2>4, <2>1, <1>0, SafeShift DEF Then
    <3> QED BY <3>1, <1>2
  <2>5. ASSUME Then(<<>>), todo[1].op \notin {"stop", "wgr"} PROVE Guarded(todo)'
    <3>1. \A i \in 1 .. Len(<<>>) : Free(<<>>[i])
      BY <1>3
    <3> QED BY <3>1, <2>4, <2>5, <1>3
  <2>6. CASE Head(todo).op = "wgr"
    <3>1. Doing("wgr") /\ Then(<<Op("stop", None), Op("gpureset", None)>>)
      <4>1. Call
        BY <2>6, Heads DEF EventOp, Tests, Grants
      <4> QED BY <4>1, <2>6 DEF Call, Doing
    <3>2. PICK ops \in Seq(AnyOp) : ops = <<Op("stop", None), Op("gpureset", None)>>
      <4>1. Op("stop", None) \in AnyOp /\ Op("gpureset", None) \in AnyOp
        BY PlainOps, Levels DEF Inner, Steady, OfVf, OfFn, Grants
      <4>2. <<Op("stop", None), Op("gpureset", None)>> \in Seq(AnyOp)
        BY <4>1
      <4> QED BY <4>2
    <3>3. Len(ops) = 2 /\ ops[1] = Op("stop", None)
      BY <3>2
    <3>4. todo' = ops \o Tail(todo)
      BY <3>1, <3>2, <1>0 DEF Then
    <3>5. Pushed(todo, todo', ops)
      BY <1>0, <3>4, PushFacts
    <3>6. todo'[1] = Op("stop", None) /\ Len(todo') \in Nat
      BY <3>3, <3>5 DEF Pushed
    <3>7. ASSUME NEW i \in 1 .. Len(todo')
          PROVE  Free(todo'[i]) \/ \E j \in 1 .. i - 1 : todo'[j].op \in {"stop", "wgr"}
      <4>1. CASE i = 1
        BY <3>6, <4>1 DEF Free, FreeOps, Op
      <4>2. CASE i # 1
        <5>1. 1 \in 1 .. i - 1 /\ todo'[1].op = "stop"
          BY <3>6, <4>2 DEF Op
        <5> QED BY <5>1
      <4> QED BY <4>1, <4>2
    <3> QED BY <3>7, <1>2 DEF Safe
  <2>7. CASE AddVf \/ RemoveVf \/ SetStatus \/ SetFlags \/ ShutdownVf \/ GoIdle
    <3>1. Then(<<>>)
      BY <2>7 DEF AddVf, RemoveVf, SetStatus, SetFlags, ShutdownVf, GoIdle
    <3>2. todo[1].op \notin {"stop", "wgr"}
      BY <2>7, Heads, <1>0
    <3> QED BY <3>1, <3>2, <2>5
  <2>8. CASE Head(todo).op = "ifactive"
    <3>1. Then(<<>>) \/ Then(todo[1].h)
      <4>1. Branch
        BY <2>8, Heads DEF EventOp, Grants
      <4> QED BY <4>1, <2>8, <1>0 DEF Branch, Doing
    <3>2. todo[1].h \in Seq(AnyOp)
      BY <1>0, OpFacts, Levels
    <3>3. \A i \in 1 .. Len(todo[1].h) : Free(todo[1].h[i])
      BY <2>1, <1>3 DEF Free
    <3> QED BY <2>4, <2>5, <2>8, <3>1, <3>2, <3>3, <1>0
  <2>9. \/ Stop \/ Head(todo).op = "wgr" \/ Head(todo).op = "ifactive"
        \/ AddVf \/ RemoveVf \/ SetStatus \/ SetFlags \/ ShutdownVf \/ GoIdle
    BY <2>2, <1>6, <1>0, Heads DEF EventOp, FreeOps, Tests, Grants
  <2> QED BY <2>3, <2>6, <2>7, <2>8, <2>9
<1> QED BY <1>5, <1>6, <1>4


-----------------------------------------------------------------------------
(* Full access is given to the function that the engines are on.           *)

\* The operations behind the one done, or behind the branch taken, remain.
Resumed(s, t, c, h) ==
  /\ Jumped(s, t, c, h)
  /\ \A k \in 1 .. Len(h) : h[k].op \notin Grants
  /\ c # 1 => s[c].op = "catch" /\ h = s[c].h
  /\ c = 1 => ~Jumps(s, t)

LEMMA PushedJumped ==
  ASSUME NEW s, NEW t, NEW ops, Pushed(s, t, ops)
  PROVE  Jumped(s, t, 1, ops)
BY DEF Pushed, Jumped

LEMMA NoGrants ==
  ASSUME NEW h \in Seq(Ops2)
  PROVE  \A k \in 1 .. Len(h) : h[k].op \notin Grants
<1>1. ASSUME NEW k \in 1 .. Len(h) PROVE h[k].op \notin Grants
  <2>1. h[k] \in Ops2
    OBVIOUS
  <2> QED BY <2>1, InnerFacts DEF Outer
<1> QED BY <1>1

LEMMA Resumes ==
  ASSUME NEW s \in Seq(AnyOp), NEW t, Proceeds(s, t), t # <<>>
  PROVE  \E c \in 1 .. Len(s) : \E h \in Seq(AnyOp) : Resumed(s, t, c, h)
<1>1. s # <<>> /\ 1 \in 1 .. Len(s)
  <2>1. s # <<>>
    BY DEF Proceeds, Pushes, Jumps, LeavesHandler, TimesOut
  <2> QED BY <2>1, TailFacts
<1>2. CASE Pushes(s, t) /\ ~Jumps(s, t)
  <2>1. PICK ops \in Seq(Ops2) : t = ops \o Tail(s)
    BY <1>2 DEF Pushes
  <2>2. ops \in Seq(AnyOp)
    BY Levels
  <2>3. Jumped(s, t, 1, ops)
    BY <1>1, <2>1, <2>2, PushFacts, PushedJumped
  <2>4. Resumed(s, t, 1, ops)
    BY <1>2, <2>3, NoGrants DEF Resumed
  <2> QED BY <1>1, <2>2, <2>4
<1>3. CASE Jumps(s, t)
  <2>1. PICK c \in 2 .. Len(s) : s[c].op = "catch" /\ t = s[c].h \o SubSeq(Tail(s), c, Len(s) - 1)
    BY <1>3 DEF Jumps
  <2>2. c \in 1 .. Len(s) /\ c # 1 /\ s[c] \in AnyOp
    OBVIOUS
  <2>3. PICK h \in Seq(AnyOp) : h = s[c].h /\ h \in Seq(Ops2)
    <3>1. s[c].h \in Seq(Ops2) /\ s[c].h \in Seq(AnyOp)
      BY <2>2, OpFacts, Levels
    <3> QED BY <3>1, Zenon
  <2>4. Jumped(s, t, c, h)
    BY <1>1, <2>1, <2>3, JumpFacts
  <2>5. Resumed(s, t, c, h)
    BY <2>1, <2>2, <2>3, <2>4, NoGrants DEF Resumed
  <2> QED BY <2>2, <2>5
<1>4. CASE TimesOut(s, t) /\ ~Jumps(s, t)
  <2>1. s # <<>> /\ s[1].op = "timeout" /\ t = EndOps(s[1].f) \o Tail(s)
    BY <1>4 DEF TimesOut
  <2>2. s[1].f \in VF
    BY <1>1, <2>1, OpFacts DEF OfVf
  <2>3. {Op("AVAIL", s[1].f), Op("resetvf", s[1].f), Op("loop", None), Ignore, EndFa} \subseteq AnyOp
    BY <2>2, PlainOps, Branches, Levels DEF Inner, Steady, Raising, OfVf, OfFn, Grants
  <2>4. Op("start", None) \in AnyOp
    BY FnFacts DEF AnyOp, OpsOuter, Op, Outer, ArgOk, OfVf, OfFn, Grants
  <2>5. EndOps(s[1].f) \in Seq(AnyOp) /\ Len(EndOps(s[1].f)) = 6
    BY <2>3, <2>4 DEF EndOps
  <2>6. \A k \in 1 .. 6 : EndOps(s[1].f)[k].op \notin Grants
    BY DEF EndOps, EndFa, Op, Ignore, Catch, Grants
  <2>7. Jumped(s, t, 1, EndOps(s[1].f))
    BY <2>1, <2>5, PushFacts, PushedJumped
  <2>8. \A k \in 1 .. Len(EndOps(s[1].f)) : EndOps(s[1].f)[k].op \notin Grants
    BY <2>5, <2>6
  <2>9. Resumed(s, t, 1, EndOps(s[1].f))
    BY <1>4, <2>7, <2>8 DEF Resumed
  <2> QED BY <1>1, <2>5, <2>9
<1> QED BY <1>2, <1>3, <1>4 DEF Proceeds, LeavesHandler

\* An operation that gives full access is the last one and was it before.
LEMMA GrantStays ==
  ASSUME NEW s \in Seq(AnyOp), NEW t, NEW c \in 1 .. Len(s), NEW h \in Seq(AnyOp), Resumed(s, t, c, h),
         \A i \in 1 .. Len(s) : s[i].op \in Grants => i = Len(s),
         NEW i \in 1 .. Len(t), t[i].op \in Grants
  PROVE  i = Len(t) /\ c < Len(s) /\ t[i] = s[Len(s)] /\ s[Len(s)].op \in Grants
<1>1. Jumped(s, t, c, h) /\ \A k \in 1 .. Len(h) : h[k].op \notin Grants
  BY DEF Resumed
<1>2. /\ Len(t) = Len(h) + Len(s) - c /\ Len(h) \in Nat /\ Len(s) \in Nat
      /\ \A k \in 1 .. Len(h) : t[k] = h[k]
      /\ \A k \in c + 1 .. Len(s) : t[k + (Len(h) - c)] = s[k]
      /\ i \in 1 .. Len(h) \/ \E k \in c + 1 .. Len(s) : i = k + (Len(h) - c)
  BY <1>1 DEF Jumped
<1>3. i \notin 1 .. Len(h)
  BY <1>1, <1>2
<1>4. PICK k \in c + 1 .. Len(s) : i = k + (Len(h) - c)
  BY <1>2, <1>3
<1>5. t[i] = s[k] /\ k \in 1 .. Len(s)
  BY <1>2, <1>4
<1>6. k = Len(s)
  BY <1>5
<1> QED BY <1>2, <1>4, <1>5, <1>6

LEMMA GiveUpFacts ==
  /\ GiveUp \in Seq(Ops0) /\ Len(GiveUp) = 3
  /\ GiveUp[1] = Op("auto", None) /\ GiveUp[2] = Ignore /\ GiveUp[3] = Return
<1>1. Op("auto", None) \in Ops0 /\ Ignore \in Ops0 /\ Return \in Ops0
  BY PlainOps, Branches DEF Inner, Raising, OfVf, OfFn, Grants
<1>2. PICK a \in Seq(Ops0) : a = <<Op("auto", None), Ignore>>
  <2>1. <<Op("auto", None), Ignore>> \in Seq(Ops0)
    BY <1>1
  <2> QED BY <2>1
<1>3. PICK b \in Seq(Ops0) : b = <<Return>>
  <2>1. <<Return>> \in Seq(Ops0)
    BY <1>1
  <2> QED BY <2>1
<1>4. Len(a) = 2 /\ a[1] = Op("auto", None) /\ a[2] = Ignore /\ Len(b) = 1 /\ b[1] = Return
  BY <1>2, <1>3
<1>5. GiveUp = a \o b
  BY <1>2, <1>3 DEF GiveUp, AutoReset
<1>6. /\ GiveUp \in Seq(Ops0) /\ Len(GiveUp) = 3
      /\ \A k \in 1 .. 3 : GiveUp[k] = IF k <= 2 THEN a[k] ELSE b[k - 2]
  <2>1. a \in Seq(Ops0) /\ b \in Seq(Ops0)
    BY <1>2, <1>3
  <2>2. /\ a \o b \in Seq(Ops0) /\ Len(a \o b) = Len(a) + Len(b)
        /\ \A k \in 1 .. Len(a) + Len(b) : (a \o b)[k] = IF k <= Len(a) THEN a[k] ELSE b[k - Len(a)]
    BY <2>1, ConcatProperties
  <2> QED BY <2>2, <1>4, <1>5
<1> QED BY <1>4, <1>6

\* The end of a handler that gives up is its return.
LEMMA GiveUpReturns ==
  ASSUME NEW t, Len(t) \in Nat, Len(t) >= 3, \A k \in 1 .. 3 : t[k] = GiveUp[k]
  PROVE  Returns(t)
<1>2. t[1] = Op("auto", None) /\ t[2] = Ignore /\ t[3] = Return
  BY GiveUpFacts
<1>3. t[1].op = "auto" /\ t[2].op = "catch" /\ t[2].h = <<>> /\ t[3].op = "return"
  BY <1>2 DEF Op, Ignore, Catch, Return
<1>4. Caught(t, 3, 1)
  BY <1>3 DEF Caught
<1>5. Passes(t, 3, 1, {<<>>}) /\ Passes(t, 3, 2, {<<>>})
  BY <1>3, <1>4 DEF Passes, Raising
<1>6. Path(t, 3, {<<>>}) /\ 3 \in 1 .. Len(t)
  BY <1>5 DEF Path
<1> QED BY <1>3, <1>6 DEF Returns

LEMMA ReturnsStep ==
  ASSUME NEW s \in Seq(AnyOp), NEW t, Proceeds(s, t), t # <<>>, Returns(s)
  PROVE  Returns(t)
<1>1. PICK i \in 1 .. Len(s) : s[i].op = "return" /\ Path(s, i, {<<>>})
  BY DEF Returns
<1>2. CASE i = 1
  BY <1>1, <1>2 DEF Proceeds, Pushes, Jumps, LeavesHandler, TimesOut, Steady, Raising, Grants, Tests
<1>3. CASE i # 1
  <2>1. i \in 2 .. Len(s) /\ 1 \in 1 .. i - 1 /\ <<>> \in {<<>>}
    BY <1>3
  <2>2. Passes(s, i, 1, {<<>>})
    BY <1>1, <2>1 DEF Path
  <2>3. Pushes(s, t) \/ Jumps(s, t)
    <3>1. s[1].op \notin {"return", "timeout"}
      BY <2>2 DEF Passes, Steady, Raising
    <3> QED BY <3>1 DEF Proceeds, LeavesHandler, TimesOut
  <2>4. Follows(s, i, t, {<<>>}) => Returns(t)
    BY <1>1 DEF Follows, Returns
  <2>5. CASE Pushes(s, t)
    BY <2>1, <2>4, <2>5, <1>1, PathPush
  <2>6. CASE Jumps(s, t)
    <3>1. PICK H : H = {<<>>}
      OBVIOUS
    <3>2. Path(s, i, H) /\ <<>> \in H
      BY <1>1, <3>1
    <3>3. Follows(s, i, t, H) \/ LedOff(t, H)
      BY <2>1, <2>6, <3>2, PathJump, Zenon
    <3>4. ~LedOff(t, H)
      BY <3>1 DEF LedOff
    <3> QED BY <3>1, <3>3, <3>4, <2>4
  <2> QED BY <2>3, <2>5, <2>6
<1> QED BY <1>2, <1>3

\* A function that is to be loaded before it gets full access is waited for
\* still, or has been given up, or is the next to load.
LEMMA AwaitsStep ==
  ASSUME NEW s \in Seq(AnyOp), NEW t, NEW c \in 1 .. Len(s), NEW h \in Seq(AnyOp), Resumed(s, t, c, h),
         NEW v, Awaits(s, v), s[Len(s)].op \in Grants
  PROVE  Awaits(t, v) \/ Returns(t) \/ (Len(s) = 3 /\ c = 1)
<1>1. PICK n \in Nat : n = Len(s) /\ n >= 3
  <2>1. Len(s) \in Nat /\ Len(s) >= 3
    BY DEF Awaits
  <2> QED BY <2>1, Zenon
<1>2. s[n - 1] = Catch(GiveUp) /\ s[n - 2].op \in {"init", "load", "fini"} /\ s[n - 2].f = v
  BY <1>1 DEF Awaits
<1>3. Jumped(s, t, c, h) /\ (c # 1 => s[c].op = "catch" /\ h = s[c].h)
  BY DEF Resumed
<1>4. Len(h) \in Nat
  BY <1>3 DEF Jumped
<1>5. PICK d \in Int : d = Len(h) - c
  <2>1. Len(h) - c \in Int
    BY <1>4
  <2> QED BY <2>1, Zenon
<1>6. /\ Len(t) = n + d
      /\ \A k \in 1 .. Len(h) : t[k] = h[k]
      /\ \A k \in c + 1 .. n : k + d \in 1 .. Len(t) /\ t[k + d] = s[k]
  BY <1>1, <1>3, <1>5 DEF Jumped
<1>7. CASE c < n - 2
  <2>1. n - 1 \in c + 1 .. n /\ n - 2 \in c + 1 .. n
    BY <1>1, <1>7
  <2>2. Len(t) - 1 = (n - 1) + d /\ Len(t) - 2 = (n - 2) + d /\ Len(t) \in Int
    BY <1>6
  <2>3. t[Len(t) - 1] = s[n - 1] /\ t[Len(t) - 2] = s[n - 2] /\ (n - 2) + d \in 1 .. Len(t)
    BY <1>6, <2>1, <2>2
  <2>4. Len(t) >= 3
    BY <2>2, <2>3
  <2> QED BY <1>2, <2>3, <2>4 DEF Awaits
<1>8. CASE c = n - 2
  BY <1>1, <1>2, <1>3, <1>8
<1>9. CASE c = n - 1
  <2>1. h = GiveUp
    BY <1>1, <1>2, <1>3, <1>9 DEF Catch
  <2>4. Len(h) = 3
    BY <2>1, GiveUpFacts
  <2>5. Len(t) \in Nat /\ Len(t) >= 3 /\ \A k \in 1 .. 3 : t[k] = h[k]
    BY <2>4, <1>5, <1>6, <1>9
  <2> QED BY <2>1, <2>5, GiveUpReturns
<1>10. CASE c = n
  BY <1>1, <1>3, <1>10 DEF Grants
<1> QED BY <1>1, <1>7, <1>8, <1>9, <1>10


LEMMA GrantingStep ==
  ASSUME TypeOK, todo \in Seq(AnyOp), Guarded(todo), Granting(todo), EventOp
  PROVE  Granting(todo)'
<1>1. Proceeds(todo, todo')
  BY OpProceeds
<1>2. /\ todo # <<>> /\ 1 \in 1 .. Len(todo) /\ todo[1] = Head(todo) /\ Rest = Tail(todo)
      /\ Tail(todo) \in Seq(AnyOp) /\ Len(Tail(todo)) = Len(todo) - 1 /\ Len(todo) \in Nat
      /\ \A k \in 1 .. Len(todo) - 1 : Tail(todo)[k] = todo[k + 1]
  <2>1. todo # <<>>
    BY <1>1 DEF Proceeds, Pushes, Jumps, LeavesHandler, TimesOut
  <2> QED BY <2>1, TailFacts DEF Rest
<1>3. ASSUME NEW i \in 1 .. Len(todo'), todo'[i].op \in Grants, NEW v, v = todo'[i].f
      PROVE  /\ i = Len(todo')
             /\ \/ Returns(todo') \/ Awaits(todo', v)
                \/ Owned(v)' /\ (Len(todo') = 1 \/ (Len(todo') = 2 /\ todo'[1].op = "catch"))
  <2>1. todo' # <<>>
    <3>1. Len(<<>>) = 0
      OBVIOUS
    <3> QED BY <1>3, <3>1
  <2>2. PICK c \in 1 .. Len(todo) : \E h \in Seq(AnyOp) : Resumed(todo, todo', c, h)
    BY <1>1, <2>1, Resumes
  <2>3. PICK h \in Seq(AnyOp) : Resumed(todo, todo', c, h)
    BY <2>2
  <2>4. \A k \in 1 .. Len(todo) : todo[k].op \in Grants => k = Len(todo)
    BY DEF Granting
  <2>5. /\ i = Len(todo') /\ c < Len(todo) /\ todo'[i] = todo[Len(todo)]
        /\ todo[Len(todo)].op \in Grants
    BY <2>3, <2>4, <1>3, GrantStays
  <2>6. Len(todo) \in 1 .. Len(todo) /\ todo[Len(todo)].f = v
    BY <2>5, <1>2, <1>3
  <2>7. Returns(todo) \/ Awaits(todo, v) \/ Arrives(todo, v)
    BY <2>5, <2>6 DEF Granting
  <2>8. CASE Returns(todo)
    BY <2>8, <2>1, <2>5, <1>1, ReturnsStep
  <2>9. CASE Awaits(todo, v) /\ ~(Len(todo) = 3 /\ c = 1)
    BY <2>9, <2>3, <2>5, AwaitsStep
  <2>10. CASE Awaits(todo, v) /\ Len(todo) = 3 /\ c = 1
    <3>1. /\ todo[2] = Catch(GiveUp) /\ todo[1].op \in {"init", "load", "fini"} /\ todo[1].f = v
      <4>1. Len(todo) - 1 = 2 /\ Len(todo) - 2 = 1
        BY <2>10
      <4> QED BY <4>1, <2>10 DEF Awaits
    <3>2. ~Jumps(todo, todo')
      BY <2>3, <2>10 DEF Resumed
    <3>3. ~Raise
      BY <3>1, <3>2, <1>2, RaiseJumps DEF Raising
    <3>4. Stopped
      <4>1. ~Free(todo[1])
        BY <3>1 DEF Free, FreeOps
      <4>2. ~(\E j \in 1 .. 1 - 1 : todo[j].op \in {"stop", "wgr"})
        OBVIOUS
      <4> QED BY <4>1, <4>2, <1>2 DEF Guarded
    <3>5. Arg = v
      BY <3>1, <1>2 DEF Arg
    <3>6. Tail(todo)[1] = Catch(GiveUp)
      <4>1. 1 \in 1 .. Len(todo) - 1 /\ 1 + 1 = 2
        BY <2>10
      <4> QED BY <4>1, <3>1, <1>2
    <3>7. CASE Load \/ InitCtx
      <4>1. Then(<<>>) /\ st' = "LOADED" /\ cur' = v /\ hw' = v /\ ~running' /\ wt' = wt
        <5>1. CASE Load
          BY <5>1, <3>3, <3>4, <3>5 DEF Load, Stopped
        <5>2. CASE InitCtx
          BY <5>2, <3>3, <3>4, <3>5 DEF InitCtx, Stopped
        <5> QED BY <5>1, <5>2, <3>7
      <4>2. todo' = Tail(todo)
        BY <4>1, <1>2 DEF Then
      <4>3. Len(todo') = 2 /\ todo'[1].op = "catch"
        BY <4>2, <3>6, <2>10, <1>2 DEF Catch
      <4> QED BY <4>1, <4>3, <3>4, <2>5 DEF Owned, Stopped
    <3>8. CASE Call
      <4>1. todo[1].op = "fini"
        BY <3>8, <3>1, <1>2, Heads
      <4>2. Then(<<Op("remove", v), Op("load", v)>>)
        BY <3>8, <4>1, <3>3, <3>5, <1>2 DEF Call, Doing
      <4>3. v \in VF
        BY <4>1, <3>1, <1>2, OpFacts DEF OfVf
      <4>4. PICK ops \in Seq(AnyOp) : ops = <<Op("remove", v), Op("load", v)>>
        <5>1. Op("remove", v) \in AnyOp /\ Op("load", v) \in AnyOp
          BY <4>3, PlainOps, Levels, FnFacts DEF Inner, Steady, Raising, OfVf, OfFn, Grants
        <5>2. <<Op("remove", v), Op("load", v)>> \in Seq(AnyOp)
          BY <5>1
        <5> QED BY <5>2
      <4>5. Len(ops) = 2 /\ ops[2] = Op("load", v)
        BY <4>4
      <4>6. todo' = ops \o Tail(todo)
        BY <4>2, <4>4, <1>2 DEF Then
      <4>7. Pushed(todo, todo', ops)
        BY <4>6, <1>2, PushFacts
      <4>8. Len(todo') = 4 /\ todo'[2] = Op("load", v)
        BY <4>5, <4>7, <2>10 DEF Pushed
      <4>9. todo'[3] = Catch(GiveUp)
        <5>1. 2 \in 2 .. Len(todo) /\ 2 + (Len(ops) - 1) = 3
          BY <2>10, <4>5
        <5> QED BY <5>1, <4>7, <3>1 DEF Pushed
      <4>10. Len(todo') - 1 = 3 /\ Len(todo') - 2 = 2 /\ Len(todo') >= 3
        BY <4>8
      <4>11. todo'[2].op = "load" /\ todo'[2].f = v
        BY <4>8 DEF Op
      <4>12. Awaits(todo', v)
        BY <4>9, <4>10, <4>11 DEF Awaits
      <4> QED BY <4>12, <2>5
    <3>9. Load \/ InitCtx \/ Call
      BY <3>1, <1>2, Heads DEF EventOp, Tests, Grants
    <3> QED BY <3>7, <3>8, <3>9
  <2>11. CASE Arrives(todo, v)
    <3>1. Len(todo) = 2 /\ todo[1].op = "catch" /\ Owned(v)
      BY <2>11, <2>5, <1>2 DEF Arrives
    <3>2. Branch
      BY <3>1, <1>2, Heads DEF EventOp, Grants
    <3>3. Then(<<>>) /\ UNCHANGED <<ws, wt>>
      BY <3>1, <3>2, <1>2 DEF Branch, Doing
    <3>4. Owned(v)'
      BY <3>1, <3>3 DEF Owned, Stopped, ws
    <3>5. Len(todo') = 1
      BY <3>1, <3>3, <1>2 DEF Then
    <3> QED BY <3>4, <3>5, <2>5
  <2> QED BY <2>7, <2>8, <2>9, <2>10, <2>11
<1> QED BY <1>3 DEF Granting, Arrives, Returns, Awaits


-----------------------------------------------------------------------------
(* Full access holds the engines until it ends.                            *)

LEMMA KeepsFullAccess ==
  ASSUME EventOp, ~FullAccess
  PROVE  fa' = fa
<1>1. CASE Branch \/ Call \/ Stop \/ Start \/ Save \/ Load \/ InitCtx
  BY <1>1 DEF Branch, Call, Stop, Start, Save, Load, InitCtx, sched
<1>2. CASE AddVf \/ RemoveVf \/ SetStatus \/ ResetVf \/ ResetAuto
  BY <1>2 DEF AddVf, RemoveVf, SetStatus, ResetVf, ResetAuto, sched
<1>3. CASE GpuReset \/ ShutdownVf \/ SetFlags \/ GoIdle
  BY <1>3 DEF GpuReset, ShutdownVf, SetFlags, GoIdle, sched
<1> QED BY <1>1, <1>2, <1>3 DEF EventOp

LEMMA HoldingStep ==
  ASSUME TypeOK, todo \in Seq(AnyOp), Granting(todo), Holding, EventOp
  PROVE  Holding'
<1>1. Proceeds(todo, todo')
  BY OpProceeds
<1>2. /\ todo # <<>> /\ 1 \in 1 .. Len(todo) /\ todo[1] = Head(todo) /\ Rest = Tail(todo)
      /\ Tail(todo) \in Seq(AnyOp) /\ Len(Tail(todo)) = Len(todo) - 1 /\ Len(todo) \in Nat
      /\ \A k \in 1 .. Len(todo) - 1 : Tail(todo)[k] = todo[k + 1] /\ k + 1 \in 1 .. Len(todo)
  <2>1. todo # <<>>
    BY <1>1 DEF Proceeds, Pushes, Jumps, LeavesHandler, TimesOut
  <2> QED BY <2>1, TailFacts DEF Rest
<1>3. CASE FullAccess /\ todo[1].op = "endfa"
  <2>1. fa' = None
    BY <1>2, <1>3 DEF FullAccess, Doing
  <2> QED BY <2>1 DEF Holding
<1>4. CASE FullAccess /\ todo[1].op # "endfa"
  <2>1. todo[1].op \in Grants
    BY <1>2, <1>4, Heads
  <2>2. PICK v : v = todo[1].f
    OBVIOUS
  <2>3. 1 = Len(todo) /\ (Returns(todo) \/ Awaits(todo, v) \/ Arrives(todo, v))
    BY <2>1, <2>2, <1>2, Zenon DEF Granting
  <2>a. Len(todo) = 1
    BY <2>3
  <2>4. ~Awaits(todo, v)
    BY <2>a DEF Awaits
  <2>5. ~Returns(todo)
    <3>1. ASSUME NEW i \in 1 .. Len(todo) PROVE todo[i].op # "return"
      <4>1. i = 1
        BY <2>a
      <4> QED BY <4>1, <2>1 DEF Grants
    <3> QED BY <3>1 DEF Returns
  <2>6. Owned(v)
    BY <2>3, <2>4, <2>5 DEF Arrives
  <2>7. fa' = v /\ Then(<<>>) /\ UNCHANGED <<ws, wt>>
    BY <1>2, <1>4, <2>2 DEF FullAccess, Doing, Arg
  <2>8. Owned(v)'
    BY <2>6, <2>7 DEF Owned, Stopped, ws
  <2>9. Len(todo') = 0
    BY <2>3, <2>7, <1>2 DEF Then
  <2>10. Owned(fa)'
    BY <2>7, <2>8 DEF Owned, Stopped
  <2>11. \A i \in 1 .. Len(todo') : Calm(todo[i])'
    BY <2>9
  <2> QED BY <2>10, <2>11 DEF Holding
<1>5. CASE ~FullAccess /\ fa # None /\ Leaves(todo)
  <2>1. todo[1].op # "endfa"
    BY <1>2, <1>5, Heads DEF EventOp, Tests
  <2>2. Leaves(todo')
    BY <2>1, <1>1, <1>5, LeavesStep
  <2> QED BY <2>2 DEF Holding, Leaves
<1>6. CASE ~FullAccess /\ fa # None /\ Owned(fa) /\ \A i \in 1 .. Len(todo) : Calm(todo[i])
  <2>1. fa' = fa
    BY <1>6, KeepsFullAccess
  <2>2. Calm(todo[1])
    BY <1>2, <1>6
  <2>3. \/ AddVf \/ RemoveVf \/ SetStatus \/ SetFlags \/ GoIdle
        \/ Branch /\ todo[1].op = "ifactive"
    <3>1. todo[1].op \in CalmOps
      BY <2>2 DEF Calm
    <3> QED BY <3>1, <1>2, <1>6, Heads DEF CalmOps, EventOp, Tests, Grants
  <2>4. UNCHANGED <<st, cur, hw, wt>> /\ ~running'
    <3>1. CASE AddVf
      BY <3>1, <1>6 DEF AddVf, Owned, Stopped
    <3>2. CASE SetStatus \/ SetFlags \/ GoIdle \/ Branch
      BY <3>2, <1>6 DEF SetStatus, SetFlags, GoIdle, Branch, ws, Owned, Stopped
    <3>3. CASE RemoveVf
      <4>1. Arg # cur
        BY <3>3, <2>2, <1>2, <1>6, Heads DEF Calm, Arg, Owned
      <4> QED BY <3>3, <4>1, <1>6 DEF RemoveVf, Owned, Stopped
    <3> QED BY <2>3, <3>1, <3>2, <3>3
  <2>5. Owned(fa)'
    BY <2>1, <2>4, <1>6 DEF Owned, Stopped
  <2>6. ASSUME NEW o, Calm(o) PROVE Calm(o)'
    BY <2>6, <2>1 DEF Calm
  <2>7. ASSUME NEW i \in 1 .. Len(todo) - 1 PROVE Calm(Tail(todo)[i])
    BY <1>2, <1>6
  <2>8. ASSUME NEW t, t = todo', \A i \in 1 .. Len(t) : Calm(t[i]) PROVE Holding'
    <3>1. \A i \in 1 .. Len(todo') : Calm(todo[i])'
      BY <2>1, <2>8 DEF Calm
    <3> QED BY <3>1, <2>5 DEF Holding
  <2>9. CASE Then(<<>>)
    <3>1. todo' = Tail(todo)
      BY <2>9, <1>2 DEF Then
    <3> QED BY <3>1, <2>7, <2>8, <1>2
  <2>10. CASE Then(todo[1].h) /\ todo[1].op = "ifactive"
    <3>1. PICK v : v = todo[1].f /\ v # fa /\ todo[1].h = <<Op("remove", v)>>
      BY <2>2, <2>10 DEF Calm
    <3>2. v \in VF
      BY <3>1, <2>10, <1>2, OpFacts DEF OfVf
    <3>3. PICK ops \in Seq(AnyOp) : ops = <<Op("remove", v)>>
      <4>1. Op("remove", v) \in AnyOp
        BY <3>2, PlainOps, Levels, FnFacts DEF Inner, Steady, OfVf, OfFn, Grants
      <4>2. <<Op("remove", v)>> \in Seq(AnyOp)
        BY <4>1
      <4> QED BY <4>2
    <3>4. Len(ops) = 1 /\ ops[1] = Op("remove", v)
      BY <3>3
    <3>5. PICK t : t = todo'
      OBVIOUS
    <3>6. Pushed(todo, t, ops)
      BY <2>10, <3>1, <3>3, <3>5, <1>2, PushFacts DEF Then
    <3>7. ASSUME NEW i \in 1 .. Len(t) PROVE Calm(t[i])
      <4>1. CASE i = 1
        <5>1. t[1] = Op("remove", v)
          BY <3>4, <3>6 DEF Pushed
        <5>2. t[1].op = "remove" /\ t[1].f = v
          BY <5>1 DEF Op
        <5> QED BY <5>2, <4>1, <3>1 DEF Calm, CalmOps
      <4>2. CASE i # 1
        <5>1. PICK k \in 2 .. Len(todo) : i = k + (Len(ops) - 1)
          BY <4>2, <3>4, <3>6 DEF Pushed
        <5>2. t[i] = todo[k] /\ k \in 1 .. Len(todo)
          BY <5>1, <3>6 DEF Pushed
        <5> QED BY <5>2, <1>6
      <4> QED BY <4>1, <4>2
    <3> QED BY <3>5, <3>7, <2>8
  <2>11. Then(<<>>) \/ (Then(todo[1].h) /\ todo[1].op = "ifactive")
    <3>1. CASE AddVf \/ RemoveVf \/ SetStatus \/ SetFlags \/ GoIdle
      BY <3>1 DEF AddVf, RemoveVf, SetStatus, SetFlags, GoIdle
    <3>2. CASE Branch /\ todo[1].op = "ifactive"
      BY <3>2, <1>2 DEF Branch, Doing
    <3> QED BY <2>3, <3>1, <3>2
  <2> QED BY <2>9, <2>10, <2>11
<1>7. CASE ~FullAccess /\ fa = None
  BY <1>7, KeepsFullAccess DEF Holding
<1> QED BY <1>3, <1>4, <1>5, <1>6, <1>7 DEF Holding


-----------------------------------------------------------------------------
(* Types.                                                                  *)

LEMMA RemoveFirstType ==
  ASSUME NEW X, NEW s \in Seq(X), NEW e
  PROVE  RemoveFirst(s, e) \in Seq(X)
<1> DEFINE I == {i \in 1 .. Len(s) : s[i] = e}
<1>1. CASE \E i \in 1 .. Len(s) : s[i] = e
  <2>1. I # {} /\ I \subseteq Nat
    BY <1>1
  <2>2. Min(I) \in I
    BY <2>1, MinFacts
  <2>3. Min(I) \in 1 .. Len(s)
    BY <2>2
  <2>4. RemoveAt(s, Min(I)) \in Seq(X)
    BY <2>3, RemoveAtFacts
  <2>5. RemoveFirst(s, e) = RemoveAt(s, Min(I))
    BY <1>1, <2>1 DEF RemoveFirst, SelectInSeq
  <2> QED BY <2>4, <2>5
<1>2. CASE ~(\E i \in 1 .. Len(s) : s[i] = e)
  BY <1>2 DEF RemoveFirst
<1> QED BY <1>1, <1>2

\* The list and the numbers keep their types.
LEMMA Kept ==
  ASSUME TypeOK
  PROVE  /\ \A f : Without(f) \in Seq(VF) /\ Rotated(f) \in Seq(VF)
         /\ Signalled \in 0 .. MaxWake
         /\ \A k : \A f \in MayFail(k) : Count(f) => fails' \in 0 .. MaxFails
         /\ \A g : \A f \in CmdFail(g) : Count(f) => fails' \in 0 .. MaxFails
         /\ \A k : \A f \in MayFail(k) : f \in BOOLEAN
         /\ \A g : \A f \in CmdFail(g) : f \in BOOLEAN
<1>1. ASSUME NEW f PROVE Without(f) \in Seq(VF) /\ Rotated(f) \in Seq(VF)
  <2>1. list \in Seq(VF) /\ entry \subseteq VF
    BY DEF TypeOK
  <2>2. RemoveFirst(list, f) \in Seq(VF)
    BY <2>1, RemoveFirstType
  <2>3. f \in entry => Append(RemoveFirst(list, f), f) \in Seq(VF)
    BY <2>1, <2>2
  <2> QED BY <2>1, <2>2, <2>3 DEF Without, Rotated
<1>2. Signalled \in 0 .. MaxWake
  BY DEF TypeOK, Signalled, MaxWake
<1>3. ASSUME NEW k, NEW f \in MayFail(k)
      PROVE  f \in BOOLEAN /\ (Count(f) => fails' \in 0 .. MaxFails)
  <2>1. fails \in 0 .. MaxFails /\ MaxFails \in Nat
    BY BoundAssumption DEF TypeOK
  <2>2. f \in BOOLEAN /\ (f => fails < MaxFails)
    BY DEF MayFail
  <2> QED BY <2>1, <2>2 DEF Count
<1>4. ASSUME NEW g, NEW f \in CmdFail(g)
      PROVE  f \in BOOLEAN /\ (Count(f) => fails' \in 0 .. MaxFails)
  BY <1>3 DEF CmdFail
<1> QED BY <1>1, <1>2, <1>3, <1>4

LEMMA WsTypes ==
  ASSUME TypeOK, WsThread \/ TimerFires
  PROVE  TypeOK'
<1> USE FnFacts, Kept
<1>1. CASE WsWake
  <2>1. wake' \in 0 .. MaxWake /\ wt' \in {"wait", "save", "load"}
    BY <1>1 DEF WsWake, TypeOK, MaxWake
  <2> QED BY <1>1, <2>1 DEF WsWake, TypeOK, sched
<1>2. CASE WsSave
  <2>1. PICK f \in CmdFail(cur) :
          /\ Count(f)
          /\ st' = IF f THEN "ABNORMAL" ELSE "SAVED"
          /\ running' = (running /\ ~f)
          /\ hw' = IF f THEN hw ELSE None
          /\ list' = IF f THEN list ELSE Rotated(cur)
          /\ resetQ' = IF f THEN resetQ \union {cur} ELSE resetQ
          /\ wt' = IF f THEN "wait" ELSE "load"
    BY <1>2 DEF WsSave
  <2>2. list' \in Seq(VF) /\ fails' \in 0 .. MaxFails
    BY <2>1 DEF TypeOK
  <2>3. running' \in BOOLEAN /\ resetQ' \subseteq Fn
    BY <2>1 DEF TypeOK
  <2> QED BY <1>2, <2>1, <2>2, <2>3 DEF WsSave, TypeOK
<1>3. CASE WsLoad
  <2>1. cur' \in Fn
    BY <1>3 DEF WsLoad, TypeOK
  <2>2. PICK f \in CmdFail(cur') :
          /\ Count(f)
          /\ st' = IF f THEN "ABNORMAL" ELSE "LOADED"
          /\ running' = (running /\ ~f)
          /\ timer' = (timer \/ ~f)
          /\ resetQ' = IF f THEN resetQ \union {cur'} ELSE resetQ
    BY <1>3 DEF WsLoad
  <2>3. running' \in BOOLEAN /\ timer' \in BOOLEAN
    BY <2>2
  <2>4. resetQ' \subseteq Fn /\ fails' \in 0 .. MaxFails
    BY <2>1, <2>2 DEF TypeOK
  <2> QED BY <1>3, <2>1, <2>2, <2>3, <2>4 DEF WsLoad, TypeOK
<1>4. CASE TimerFires
  BY <1>4 DEF TimerFires, TypeOK, sched
<1> QED BY <1>1, <1>2, <1>3, <1>4 DEF WsThread

\* The operations of the event thread.
LEMMA OpTypes ==
  ASSUME TypeOK, todo \in Seq(AnyOp), EventOp
  PROVE  TypeOK'
<1> USE FnFacts, Kept
<1>0. /\ \A o \in OfVf : Doing(o) => Arg \in VF
      /\ \A o \in OfFn : Doing(o) => Arg \in Fn
      /\ {"add", "remove", "AVAIL", "SUSPEND", "UNAVAIL", "shut", "crash", "grantinit", "grantfini"} \subseteq OfVf
      /\ {"load", "init"} \subseteq OfFn
  BY FirstFacts DEF OfVf, OfFn, Grants
<1>1. CASE Branch \/ Call
  BY <1>1 DEF Branch, Call, TypeOK, ws, sched
<1>2. CASE Stop
  <2>1. PICK f \in CmdFail(cur) :
          /\ Count(f)
          /\ running' = FALSE
          /\ timer' = IF running \/ st = "LOADED" THEN FALSE ELSE timer
          /\ st' = IF f THEN "ABNORMAL" ELSE IF st = "LOADED" THEN "SAVED" ELSE st
          /\ hw' = IF f \/ st # "LOADED" THEN hw ELSE None
          /\ list' = IF f \/ st # "LOADED" THEN list ELSE Rotated(cur)
    BY <1>2 DEF Stop
  <2>2. list' \in Seq(VF) /\ fails' \in 0 .. MaxFails /\ timer' \in BOOLEAN /\ running' \in BOOLEAN
    BY <2>1 DEF TypeOK
  <2> QED BY <1>2, <2>1, <2>2 DEF Stop, TypeOK, sched
<1>3. CASE Start
  <2>1. running' \in BOOLEAN /\ wake' \in 0 .. MaxWake
    BY <1>3 DEF Start, TypeOK
  <2> QED BY <1>3, <2>1 DEF Start, TypeOK, sched
<1>4. CASE Save
  <2>1. PICK f \in CmdFail(cur) :
          /\ Count(f)
          /\ st' = IF f THEN "ABNORMAL" ELSE IF st = "LOADED" THEN "SAVED" ELSE st
          /\ running' = (running /\ ~f)
          /\ hw' = IF f \/ st # "LOADED" THEN hw ELSE None
    BY <1>4 DEF Save
  <2>2. running' \in BOOLEAN /\ fails' \in 0 .. MaxFails
    BY <2>1
  <2> QED BY <1>4, <2>1, <2>2 DEF Save, TypeOK, sched
<1>5. CASE Load
  <2>1. PICK f \in CmdFail(Arg) :
          /\ Count(f)
          /\ st' = IF f THEN "ABNORMAL" ELSE "LOADED"
          /\ running' = (running /\ ~f)
    BY <1>5 DEF Load
  <2>2. running' \in BOOLEAN /\ fails' \in 0 .. MaxFails
    BY <2>1
  <2>3. Arg \in Fn
    BY <1>0, <1>5 DEF Load
  <2> QED BY <1>5, <2>1, <2>2, <2>3 DEF Load, TypeOK, sched
<1>6. CASE InitCtx
  <2>1. PICK f \in CmdFail(Arg) : Count(f) /\ st' = IF f THEN "ABNORMAL" ELSE "LOADED"
    BY <1>6 DEF InitCtx
  <2>2. Arg \in Fn /\ fails' \in 0 .. MaxFails
    BY <1>0, <1>6, <2>1 DEF InitCtx
  <2> QED BY <1>6, <2>1, <2>2 DEF InitCtx, TypeOK, sched
<1>7. CASE AddVf
  <2>1. Arg \in VF
    BY <1>0, <1>7 DEF AddVf
  <2>2. status' \in [VF -> {"UNAVAIL", "AVAIL", "ACTIVE", "SUSPEND"}] /\ entry' \subseteq VF
    BY <1>7, <2>1 DEF AddVf, TypeOK
  <2>3. list' \in Seq(VF) /\ wake' \in 0 .. MaxWake
    BY <1>7, <2>1 DEF AddVf, TypeOK
  <2> QED BY <1>7, <2>2, <2>3 DEF AddVf, TypeOK
<1>8. CASE RemoveVf
  <2> DEFINE loaded == Arg \in entry /\ cur = Arg /\ st = "LOADED"
  <2>1. PICK f \in CmdFail(cur) :
          /\ Count(f)
          /\ st' = IF f THEN "ABNORMAL" ELSE IF loaded THEN "SAVED" ELSE st
          /\ running' = (running /\ ~f)
          /\ hw' = IF loaded /\ ~f THEN None ELSE hw
          /\ resetQ' = IF f THEN resetQ \union {cur} ELSE resetQ
    BY <1>8 DEF RemoveVf
  <2>2. running' \in BOOLEAN /\ fails' \in 0 .. MaxFails
    BY <2>1
  <2>3. list' \in Seq(VF) /\ wake' \in 0 .. MaxWake
    BY <1>8 DEF RemoveVf
  <2>4. entry' \subseteq VF /\ inited' \subseteq Fn
    BY <1>8 DEF RemoveVf, TypeOK
  <2>5. st' \in {"CLEAR", "SAVED", "LOADED", "ABNORMAL"} /\ hw' \in Fn \union {None, Parked}
        /\ resetQ' \subseteq Fn
    BY <2>1 DEF TypeOK
  <2> QED BY <1>8, <2>2, <2>3, <2>4, <2>5 DEF RemoveVf, TypeOK
<1>9. CASE SetStatus
  <2>1. PICK s \in {"AVAIL", "SUSPEND", "UNAVAIL"} : Doing(s) /\ status' = [status EXCEPT ![Arg] = s]
    BY <1>9 DEF SetStatus
  <2>2. status' \in [VF -> {"UNAVAIL", "AVAIL", "ACTIVE", "SUSPEND"}]
    BY <2>1 DEF TypeOK
  <2> QED BY <1>9, <2>2 DEF SetStatus, TypeOK, ws
<1>10. CASE ResetVf
  <2>1. PICK f \in MayFail("flr") :
          Count(f) /\ (UNCHANGED <<st, inited, hw>> \/ Cleared)
    BY <1>10 DEF ResetVf
  <2>2. fails' \in 0 .. MaxFails
    BY <2>1
  <2> QED BY <1>10, <2>1, <2>2 DEF ResetVf, Cleared, TypeOK, sched
<1>11. CASE ResetAuto
  <2>1. PICK f \in MayFail("flr") :
          Count(f) /\ (UNCHANGED <<st, inited, hw>> \/ Cleared)
    BY <1>11 DEF ResetAuto
  <2>2. fails' \in 0 .. MaxFails
    BY <2>1
  <2>3. running' \in BOOLEAN
    BY <1>11 DEF ResetAuto
  <2> QED BY <1>11, <2>1, <2>2, <2>3 DEF ResetAuto, Cleared, TypeOK, sched
<1>12. CASE GpuReset
  BY <1>12 DEF GpuReset, TypeOK, sched
<1>13. CASE ShutdownVf
  BY <1>13 DEF ShutdownVf, TypeOK, sched
<1>14. CASE FullAccess
  <2>1. fa' \in VF \union {None} /\ faFor' \in {"none", "init", "fini"}
    BY <1>0, <1>14 DEF FullAccess, TypeOK
  <2> QED BY <1>14, <2>1 DEF FullAccess, TypeOK, ws
<1>15. CASE SetFlags
  <2>1. locked' \in BOOLEAN /\ unshut' \subseteq VF /\ crashQ' \subseteq VF
    BY <1>0, <1>15 DEF SetFlags, TypeOK
  <2> QED BY <1>15, <2>1 DEF SetFlags, TypeOK, ws
<1>16. CASE GoIdle
  BY <1>16, Zenon DEF GoIdle, TypeOK, ws, sched
<1> QED BY <1>1, <1>2, <1>3, <1>4, <1>5, <1>6, <1>7, <1>8, <1>9, <1>10, <1>11, <1>12, <1>13, <1>14,
           <1>15, <1>16 DEF EventOp


-----------------------------------------------------------------------------
(* The handlers.                                                           *)

Joined(t, a, b) ==
  /\ Len(t) = Len(a) + Len(b) /\ Len(a) \in Nat /\ Len(b) \in Nat
  /\ \A i \in 1 .. Len(a) : t[i] = a[i]
  /\ \A i \in 1 .. Len(b) : t[i + Len(a)] = b[i]
  /\ \A i \in 1 .. Len(t) : i \in 1 .. Len(a) \/ \E k \in 1 .. Len(b) : i = k + Len(a)

LEMMA CatFacts ==
  ASSUME NEW X, NEW a \in Seq(X), NEW b \in Seq(X), NEW t, t = a \o b
  PROVE  t \in Seq(X) /\ Joined(t, a, b)
<1>1. /\ t \in Seq(X) /\ Len(t) = Len(a) + Len(b) /\ Len(a) \in Nat /\ Len(b) \in Nat
      /\ \A i \in 1 .. Len(a) + Len(b) : t[i] = IF i <= Len(a) THEN a[i] ELSE b[i - Len(a)]
  BY ConcatProperties
<1>2. \A i \in 1 .. Len(a) : t[i] = a[i]
  BY <1>1
<1>3. ASSUME NEW i \in 1 .. Len(b) PROVE t[i + Len(a)] = b[i]
  <2>1. i + Len(a) \in 1 .. Len(a) + Len(b) /\ ~(i + Len(a) <= Len(a)) /\ (i + Len(a)) - Len(a) = i
    BY <1>1
  <2> QED BY <2>1, <1>1
<1>4. ASSUME NEW i \in 1 .. Len(t), i \notin 1 .. Len(a) PROVE \E k \in 1 .. Len(b) : i = k + Len(a)
  <2>1. i - Len(a) \in 1 .. Len(b) /\ i = (i - Len(a)) + Len(a)
    BY <1>1, <1>4
  <2> QED BY <2>1
<1> QED BY <1>1, <1>2, <1>3, <1>4 DEF Joined

\* The operations the handlers are made of.
LEMMA HandlerOps ==
  /\ \A o \in {"stop", "lock", "unlock", "save", "wgr", "endfa", "loop", "auto"} : Op(o, None) \in Ops2
  /\ \A o \in {"add", "remove", "AVAIL", "SUSPEND", "UNAVAIL", "shutdown", "shut", "crash", "saved",
               "orphan", "fini", "resetvf"}, v \in VF : Op(o, v) \in Ops2
  /\ \A o \in {"init", "switch"}, f \in Fn : Op(o, f) \in Ops2
  /\ Ignore \in Ops2 /\ Return \in Ops2 /\ EndFa \in Ops2
  /\ AutoReset \in Seq(Ops0) /\ AutoOrEnd \in Seq(Ops1)
  /\ {IfBad(AutoReset), Catch(AutoReset), Catch(GiveUp), IfBad(AutoOrEnd)} \subseteq Ops2
  /\ \A v \in VF : {IfHung(v, GiveUp), IfActive(v, <<Op("resetvf", v), Ignore>>),
                    IfActive(v, <<Op("remove", v)>>),
                    IfActive(v, <<Op("resetvf", v), Ignore, Op("remove", v)>>)} \subseteq Ops2
  /\ \A b \in Seq(Ops1) : Catch(b) \in Ops2
<1>0. /\ {"stop", "lock", "unlock", "save", "wgr", "endfa", "loop", "auto"} \subseteq Inner \ (OfVf \union OfFn)
      /\ {"add", "remove", "AVAIL", "SUSPEND", "UNAVAIL", "shutdown", "shut", "crash", "saved",
               "orphan", "fini", "resetvf"} \subseteq Inner \ OfFn
      /\ {"init", "switch"} \subseteq OfFn
  BY DEF Inner, Steady, Raising, OfVf, OfFn, Grants
<1>1. /\ \A o \in {"stop", "lock", "unlock", "save", "wgr", "endfa", "loop", "auto"} : Op(o, None) \in Ops0
      /\ \A o \in {"add", "remove", "AVAIL", "SUSPEND", "UNAVAIL", "shutdown", "shut", "crash", "saved",
               "orphan", "fini", "resetvf"}, v \in VF : Op(o, v) \in Ops0
      /\ \A o \in {"init", "switch"}, f \in Fn : Op(o, f) \in Ops0
      /\ Ignore \in Ops0 /\ Return \in Ops0 /\ EndFa \in Ops0
  BY <1>0, PlainOps, Branches
<1>2. AutoReset \in Seq(Ops0)
  <2>1. Op("auto", None) \in Ops0 /\ Ignore \in Ops0
    BY <1>1
  <2> QED BY <2>1 DEF AutoReset
<1>3. AutoOrEnd \in Seq(Ops1)
  <2>1. <<EndFa, Return>> \in Seq(Ops0)
    BY <1>1
  <2>2. Catch(<<EndFa, Return>>) \in Ops1 /\ Op("auto", None) \in Ops1
    BY <1>1, <2>1, Branches, Levels
  <2> QED BY <2>2 DEF AutoOrEnd
<1>4. {IfBad(AutoReset), Catch(AutoReset), Catch(GiveUp), IfBad(AutoOrEnd)} \subseteq Ops2
  BY <1>2, <1>3, Branches, Levels, GiveUpFacts
<1>5. ASSUME NEW v \in VF
      PROVE  {IfHung(v, GiveUp), IfActive(v, <<Op("resetvf", v), Ignore>>),
              IfActive(v, <<Op("remove", v)>>),
              IfActive(v, <<Op("resetvf", v), Ignore, Op("remove", v)>>)} \subseteq Ops2
  <2>1. Op("resetvf", v) \in Ops1 /\ Op("remove", v) \in Ops1 /\ Ignore \in Ops1
    BY <1>1, Levels
  <2>2. /\ <<Op("resetvf", v), Ignore>> \in Seq(Ops1) /\ <<Op("remove", v)>> \in Seq(Ops1)
        /\ <<Op("resetvf", v), Ignore, Op("remove", v)>> \in Seq(Ops1)
    BY <2>1
  <2> QED BY <2>2, Branches, Levels, GiveUpFacts
<1>6. \A b \in Seq(Ops1) : Catch(b) \in Ops2
  BY Branches
<1> QED BY <1>1, <1>2, <1>3, <1>4, <1>5, <1>6, Levels

\* What a new handler needs.
Fresh(t) ==
  /\ t \in Seq(AnyOp) /\ StartLast(t)
  /\ \A i \in 1 .. Len(t) : t[i].op \in Grants => i = Len(t) /\ Awaits(t, t[i].f)

LEMMA InnerFresh ==
  ASSUME NEW t \in Seq(Ops2)
  PROVE  Fresh(t)
<1>1. t \in Seq(AnyOp)
  BY Levels
<1>2. ASSUME NEW i \in 1 .. Len(t) PROVE t[i].op \notin Outer
  <2>1. t[i] \in Ops2
    OBVIOUS
  <2> QED BY <2>1, InnerFacts
<1> QED BY <1>1, <1>2 DEF Fresh, StartLast, Outer

LEMMA HoldingIdle ==
  ASSUME Holding, todo = <<>>, fa # None
  PROVE  Owned(fa)
<1>1. ~Leaves(<<>>)
  <2>1. Len(<<>>) = 0
    OBVIOUS
  <2> QED BY <2>1 DEF Leaves
<1> QED BY <1>1 DEF Holding

LEMMA NewHandler ==
  ASSUME IInv, todo = <<>>, UNCHANGED <<ws, wt, fa>>, NEW t, t = todo', Fresh(t),
         Stopped \/ Safe(t),
         fa = None \/ Leaves(t) \/ \A i \in 1 .. Len(t) : Calm(t[i])
  PROVE  (todo \in Seq(AnyOp) /\ StartLast(todo) /\ Guarded(todo) /\ Granting(todo) /\ Holding)'
<1>1. todo' \in Seq(AnyOp) /\ StartLast(todo')
  BY DEF Fresh
<1>2. Stopped' <=> Stopped
  BY DEF Stopped, ws
<1>3. Guarded(todo)'
  BY <1>2 DEF Guarded, Safe
<1>4. Granting(todo)'
  <2>1. \A i \in 1 .. Len(todo') : todo'[i].op \in Grants => i = Len(todo') /\ Awaits(todo', todo'[i].f)
    BY DEF Fresh
  <2> QED BY <2>1 DEF Granting, Awaits
<1>5. Holding'
  <2>1. CASE fa = None
    BY <2>1 DEF Holding
  <2>2. CASE Leaves(t)
    BY <2>2 DEF Holding, Leaves
  <2>3. CASE fa # None /\ \A i \in 1 .. Len(t) : Calm(t[i])
    <3>1. Owned(fa)
      BY <2>3, HoldingIdle DEF IInv
    <3>2. Owned(fa)'
      BY <3>1, <1>2 DEF Owned, ws
    <3>3. \A i \in 1 .. Len(todo') : Calm(todo[i])'
      BY <2>3 DEF Calm
    <3> QED BY <3>2, <3>3 DEF Holding
  <2> QED BY <2>1, <2>2, <2>3
<1>6. StartLast(todo)'
  BY <1>1 DEF StartLast
<1> QED BY <1>1, <1>3, <1>4, <1>5, <1>6

\* A handler that stops the world switch first needs nothing else.
LEMMA StopFirst ==
  ASSUME NEW t \in Seq(AnyOp), t # <<>>, t[1] = Op("stop", None)
  PROVE  Safe(t)
<1>1. ASSUME NEW i \in 1 .. Len(t)
      PROVE  Free(t[i]) \/ \E j \in 1 .. i - 1 : t[j].op \in {"stop", "wgr"}
  <2>1. CASE i = 1
    BY <2>1 DEF Free, FreeOps, Op
  <2>2. CASE i # 1
    <3>1. 1 \in 1 .. i - 1 /\ t[1].op = "stop"
      BY <2>2 DEF Op
    <3> QED BY <3>1
  <2> QED BY <2>1, <2>2
<1> QED BY <1>1 DEF Safe

LEMMA AllFree ==
  ASSUME NEW t, \A i \in 1 .. Len(t) : Free(t[i])
  PROVE  Safe(t)
BY DEF Safe

LEMMA FreeFacts ==
  /\ \A o \in FreeOps : \A f : Free(Op(o, f))
  /\ \A v : Free(IfActive(v, <<Op("remove", v)>>))
<1>1. \A o \in FreeOps : \A f : Free(Op(o, f))
  BY DEF Free, Op
<1>2. ASSUME NEW v PROVE Free(IfActive(v, <<Op("remove", v)>>))
  <2>1. PICK h : h = <<Op("remove", v)>>
    OBVIOUS
  <2>2. Len(h) = 1 /\ h[1] = Op("remove", v)
    BY <2>1
  <2>3. IfActive(v, h).op = "ifactive" /\ IfActive(v, h).h = h
    BY DEF IfActive
  <2>4. h[1].op = "remove" /\ h[1].h = <<>>
    BY <2>2 DEF Op
  <2> QED BY <2>1, <2>2, <2>3, <2>4 DEF Free, FreeOps
<1> QED BY <1>1, <1>2


\* A part of a handler that every failure in it leaves at its end, or for a
\* branch of exit_full_access.
Through(a) == \A j \in 1 .. Len(a) : Passes(a, Len(a) + 1, j, ExitBranches)

LEMMA ThroughPart ==
  ASSUME NEW a \in Seq(AnyOp), NEW b \in Seq(AnyOp), NEW t, t = a \o b, Through(a),
         NEW e \in Nat, e > Len(a), NEW j \in 1 .. Len(a)
  PROVE  Passes(t, e, j, ExitBranches)
<1>0. Joined(t, a, b)
  BY CatFacts
<1>1. Len(a) \in Nat /\ \A i \in 1 .. Len(a) : t[i] = a[i]
  BY <1>0 DEF Joined
<1>2. Passes(a, Len(a) + 1, j, ExitBranches) /\ t[j] = a[j]
  BY <1>1 DEF Through
<1>3. ASSUME Caught(a, Len(a) + 1, j) PROVE Caught(t, e, j)
  <2>1. PICK k \in j + 1 .. (Len(a) + 1) - 1 : a[k].op = "catch"
    BY <1>3 DEF Caught
  <2>2. k \in 1 .. Len(a) /\ k \in j + 1 .. e - 1
    BY <1>1, <2>1
  <2>3. t[k] = a[k]
    BY <1>1, <2>2
  <2> QED BY <2>1, <2>2, <2>3 DEF Caught
<1> QED BY <1>2, <1>3 DEF Passes

LEMMA ThroughCat ==
  ASSUME NEW a \in Seq(AnyOp), NEW b \in Seq(AnyOp), Through(a), Through(b)
  PROVE  a \o b \in Seq(AnyOp) /\ Through(a \o b)
<1>1. PICK t : t = a \o b
  OBVIOUS
<1>2. /\ t \in Seq(AnyOp) /\ Len(t) = Len(a) + Len(b) /\ Len(a) \in Nat /\ Len(b) \in Nat
      /\ \A i \in 1 .. Len(b) : t[i + Len(a)] = b[i]
      /\ \A i \in 1 .. Len(t) : i \in 1 .. Len(a) \/ \E k \in 1 .. Len(b) : i = k + Len(a)
  <2>1. t \in Seq(AnyOp) /\ Joined(t, a, b)
    BY <1>1, CatFacts
  <2> QED BY <2>1 DEF Joined
<1>3. ASSUME NEW j \in 1 .. Len(t) PROVE Passes(t, Len(t) + 1, j, ExitBranches)
  <2>1. CASE j \in 1 .. Len(a)
    <3>1. Len(t) + 1 \in Nat /\ Len(t) + 1 > Len(a)
      BY <1>2
    <3> QED BY <3>1, <2>1, <1>1, ThroughPart
  <2>2. CASE j \notin 1 .. Len(a)
    <3>1. PICK k \in 1 .. Len(b) : j = k + Len(a)
      BY <2>2, <1>2
    <3>2. Passes(b, Len(b) + 1, k, ExitBranches) /\ t[j] = b[k]
      BY <3>1, <1>2 DEF Through
    <3>3. ASSUME Caught(b, Len(b) + 1, k) PROVE Caught(t, Len(t) + 1, j)
      <4>1. PICK m \in k + 1 .. (Len(b) + 1) - 1 : b[m].op = "catch"
        BY <3>3 DEF Caught
      <4>2. m \in 1 .. Len(b) /\ m + Len(a) \in j + 1 .. (Len(t) + 1) - 1
        BY <4>1, <3>1, <1>2
      <4>3. t[m + Len(a)] = b[m]
        BY <4>2, <1>2
      <4> QED BY <4>1, <4>2, <4>3 DEF Caught
    <3> QED BY <3>2, <3>3 DEF Passes
  <2> QED BY <2>1, <2>2
<1> QED BY <1>1, <1>2, <1>3 DEF Through

LEMMA ThroughEnd ==
  ASSUME NEW a \in Seq(AnyOp), Through(a)
  PROVE  Leaves(a \o <<EndFa>>)
<1>1. PICK b \in Seq(AnyOp) : b = <<EndFa>>
  <2>1. <<EndFa>> \in Seq(AnyOp)
    BY HandlerOps, Levels
  <2> QED BY <2>1
<1>2. Len(b) = 1 /\ b[1] = EndFa
  BY <1>1
<1>3. PICK t : t = a \o b
  OBVIOUS
<1>4. /\ Len(t) = Len(a) + 1 /\ Len(a) \in Nat /\ t[1 + Len(a)] = EndFa
  <2>1. Joined(t, a, b)
    BY <1>3, CatFacts
  <2>2. 1 \in 1 .. Len(b)
    BY <1>2
  <2> QED BY <2>1, <2>2, <1>2 DEF Joined
<1>5. PICK e \in Nat : e = Len(a) + 1
  BY <1>4
<1>6. ASSUME NEW j \in 1 .. e - 1 PROVE Passes(t, e, j, ExitBranches)
  <2>1. j \in 1 .. Len(a) /\ e > Len(a)
    BY <1>4, <1>5
  <2> QED BY <2>1, <1>3, ThroughPart
<1>7. e \in 1 .. Len(t) /\ t[e].op = "endfa"
  <2>1. EndFa.op = "endfa"
    BY DEF EndFa, Op
  <2> QED BY <2>1, <1>4, <1>5
<1>8. Leaves(t)
  BY <1>6, <1>7 DEF Leaves, Path
<1> QED BY <1>1, <1>3, <1>8

LEMMA Parts ==
  /\ Through(<<>>)
  /\ Through(<<Op("loop", None), Ignore>>)
  /\ \A v : Through(<<Op("add", v)>>)
  /\ \A v : Through(<<Op("save", None), Ignore, Op("shutdown", v), Op("AVAIL", v), IfBad(AutoOrEnd)>>)
  /\ \A h \in ExitBranches :
       /\ Through(<<Catch(h)>>)
       /\ Through(<<Op("save", None), Catch(h)>>)
       /\ \A v : Through(<<Op("save", None), Op("shutdown", v), Catch(h)>>)
<1>0. /\ {"loop", "save"} \subseteq Raising /\ {"add", "shutdown", "AVAIL"} \subseteq Steady
      /\ <<>> \in ExitBranches /\ <<EndFa, Return>> \in ExitBranches
      /\ \A o, f : Op(o, f).op = o
      /\ \A h : Catch(h).op = "catch" /\ Catch(h).h = h
      /\ Ignore.op = "catch" /\ Ignore.h = <<>>
      /\ IfBad(AutoOrEnd).op = "ifbad" /\ IfBad(AutoOrEnd).h = AutoOrEnd
  BY DEF Raising, Steady, ExitBranches, Op, Catch, Ignore, IfBad
<1>1. Through(<<>>)
  <2>1. Len(<<>>) = 0
    OBVIOUS
  <2> QED BY <2>1 DEF Through
<1>2. Through(<<Op("loop", None), Ignore>>)
  <2>1. PICK t : t = <<Op("loop", None), Ignore>>
    OBVIOUS
  <2>2. Len(t) = 2 /\ t[1] = Op("loop", None) /\ t[2] = Ignore
    BY <2>1
  <2>3. Caught(t, 3, 1)
    BY <2>2, <1>0 DEF Caught
  <2>4. Passes(t, 3, 1, ExitBranches) /\ Passes(t, 3, 2, ExitBranches)
    BY <2>2, <2>3, <1>0 DEF Passes
  <2> QED BY <2>1, <2>2, <2>4 DEF Through
<1>3. ASSUME NEW v PROVE Through(<<Op("add", v)>>)
  <2>1. PICK t : t = <<Op("add", v)>>
    OBVIOUS
  <2>2. Len(t) = 1 /\ t[1] = Op("add", v)
    BY <2>1
  <2>3. Passes(t, 2, 1, ExitBranches)
    BY <2>2, <1>0 DEF Passes
  <2> QED BY <2>1, <2>2, <2>3 DEF Through
<1>4. ASSUME NEW v
      PROVE  Through(<<Op("save", None), Ignore, Op("shutdown", v), Op("AVAIL", v), IfBad(AutoOrEnd)>>)
  <2>1. PICK t : t = <<Op("save", None), Ignore, Op("shutdown", v), Op("AVAIL", v), IfBad(AutoOrEnd)>>
    OBVIOUS
  <2>2. /\ Len(t) = 5 /\ t[1] = Op("save", None) /\ t[2] = Ignore /\ t[3] = Op("shutdown", v)
        /\ t[4] = Op("AVAIL", v) /\ t[5] = IfBad(AutoOrEnd)
    BY <2>1
  <2>3. Caught(t, 6, 1)
    BY <2>2, <1>0 DEF Caught
  <2>4. /\ Passes(t, 6, 1, ExitBranches) /\ Passes(t, 6, 2, ExitBranches) /\ Passes(t, 6, 3, ExitBranches)
        /\ Passes(t, 6, 4, ExitBranches) /\ Passes(t, 6, 5, ExitBranches)
    BY <2>2, <2>3, <1>0 DEF Passes
  <2> QED BY <2>1, <2>2, <2>4 DEF Through
<1>5. ASSUME NEW h \in ExitBranches PROVE Through(<<Catch(h)>>)
  <2>1. PICK t : t = <<Catch(h)>>
    OBVIOUS
  <2>2. Len(t) = 1 /\ t[1] = Catch(h)
    BY <2>1
  <2>3. Passes(t, 2, 1, ExitBranches)
    BY <2>2, <1>0 DEF Passes
  <2> QED BY <2>1, <2>2, <2>3 DEF Through
<1>6. ASSUME NEW h \in ExitBranches PROVE Through(<<Op("save", None), Catch(h)>>)
  <2>1. PICK t : t = <<Op("save", None), Catch(h)>>
    OBVIOUS
  <2>2. Len(t) = 2 /\ t[1] = Op("save", None) /\ t[2] = Catch(h)
    BY <2>1
  <2>3. Caught(t, 3, 1)
    BY <2>2, <1>0 DEF Caught
  <2>4. Passes(t, 3, 1, ExitBranches) /\ Passes(t, 3, 2, ExitBranches)
    BY <2>2, <2>3, <1>0 DEF Passes
  <2> QED BY <2>1, <2>2, <2>4 DEF Through
<1>7. ASSUME NEW h \in ExitBranches, NEW v
      PROVE  Through(<<Op("save", None), Op("shutdown", v), Catch(h)>>)
  <2>1. PICK t : t = <<Op("save", None), Op("shutdown", v), Catch(h)>>
    OBVIOUS
  <2>2. Len(t) = 3 /\ t[1] = Op("save", None) /\ t[2] = Op("shutdown", v) /\ t[3] = Catch(h)
    BY <2>1
  <2>3. Caught(t, 4, 1)
    BY <2>2, <1>0 DEF Caught
  <2>4. /\ Passes(t, 4, 1, ExitBranches) /\ Passes(t, 4, 2, ExitBranches) /\ Passes(t, 4, 3, ExitBranches)
    BY <2>2, <2>3, <1>0 DEF Passes
  <2> QED BY <2>1, <2>2, <2>4 DEF Through
<1> QED BY <1>1, <1>2, <1>3, <1>4, <1>5, <1>6, <1>7

\* The handlers of exit_full_access end the full access.
LEMMA ExitFiniLeaves ==
  ASSUME NEW v \in VF
  PROVE  ExitFini(v) \in Seq(Ops2) /\ Leaves(ExitFini(v))
<1> DEFINE a == <<Op("save", None), Ignore, Op("shutdown", v), Op("AVAIL", v), IfBad(AutoOrEnd)>>
           b == Loop(ActiveVfs = {})
<1>1. a \in Seq(Ops2)
  <2>1. /\ Op("save", None) \in Ops2 /\ Ignore \in Ops2 /\ Op("shutdown", v) \in Ops2
        /\ Op("AVAIL", v) \in Ops2 /\ IfBad(AutoOrEnd) \in Ops2
    BY HandlerOps
  <2> QED BY <2>1
<1>2. b \in Seq(Ops2) /\ Through(b)
  <2>1. Op("loop", None) \in Ops2 /\ Ignore \in Ops2
    BY HandlerOps
  <2>2. <<Op("loop", None), Ignore>> \in Seq(Ops2) /\ <<>> \in Seq(Ops2)
    BY <2>1
  <2> QED BY <2>2, Parts DEF Loop
<1>3. Through(a)
  BY Parts
<1> HIDE DEF a, b
<1>4. a \o b \in Seq(Ops2) /\ Through(a \o b)
  <2>1. a \in Seq(AnyOp) /\ b \in Seq(AnyOp)
    BY <1>1, <1>2, Levels
  <2> QED BY <2>1, <1>1, <1>2, <1>3, ThroughCat
<1>5. (a \o b) \o <<EndFa>> \in Seq(Ops2)
  <2>1. <<EndFa>> \in Seq(Ops2)
    BY HandlerOps
  <2> QED BY <1>4, <2>1
<1>6. Leaves((a \o b) \o <<EndFa>>)
  BY <1>4, Levels, ThroughEnd
<1> QED BY <1>5, <1>6 DEF ExitFini, a, b

LEMMA ExitInitLeaves ==
  ASSUME NEW v \in VF, NEW ready \in BOOLEAN
  PROVE  ExitInit(v, ready) \in Seq(Ops2) /\ Leaves(ExitInit(v, ready))
<1> DEFINE oneVf == ActiveVfs = {}
           l == Loop(oneVf)
           h == AutoOrEnd \o l \o <<EndFa, Return>>
           p == IF oneVf /\ ready THEN <<>> ELSE <<Op("save", None)>>
           q == IF ready THEN <<>> ELSE <<Op("shutdown", v)>>
           r == p \o q \o <<Catch(h)>>
           a == IF ready THEN <<Op("add", v)>> ELSE <<>>
<1>1. l \in Seq(Ops1) /\ l \in Seq(Ops2) /\ Through(l) /\ l \in {<<>>, <<Op("loop", None), Ignore>>}
  <2>1. Op("loop", None) \in Ops0 /\ Ignore \in Ops0
    BY PlainOps, Branches DEF Inner, Raising, OfVf, OfFn, Grants
  <2>2. <<Op("loop", None), Ignore>> \in Seq(Ops0) /\ <<>> \in Seq(Ops0)
    BY <2>1
  <2>3. l \in Seq(Ops0)
    BY <2>2 DEF Loop
  <2> QED BY <2>3, Parts, Levels DEF Loop
<1> HIDE DEF oneVf, l
<1>2. h \in Seq(Ops1) /\ h \in ExitBranches
  <2>1. AutoOrEnd \in Seq(Ops1) /\ <<EndFa, Return>> \in Seq(Ops1)
    <3>1. EndFa \in Ops1 /\ Return \in Ops1
      BY PlainOps, Levels
    <3> QED BY <3>1, HandlerOps
  <2>2. AutoOrEnd \o l \in Seq(Ops1)
    BY <1>1, <2>1
  <2>3. h \in Seq(Ops1)
    BY <2>1, <2>2
  <2>4. l = <<>> => AutoOrEnd \o l = AutoOrEnd
    BY <2>1
  <2> QED BY <1>1, <2>3, <2>4 DEF ExitBranches
<1> HIDE DEF h
<1>a. /\ p = IF oneVf /\ ready THEN <<>> ELSE <<Op("save", None)>>
      /\ q = IF ready THEN <<>> ELSE <<Op("shutdown", v)>>
      /\ a = IF ready THEN <<Op("add", v)>> ELSE <<>>
  OBVIOUS
<1> HIDE DEF p, q, a
<1>3. Catch(h) \in Ops2 /\ Op("save", None) \in Ops2 /\ Op("shutdown", v) \in Ops2 /\ Op("add", v) \in Ops2
  BY <1>2, HandlerOps
<1>4. r \in Seq(Ops2) /\ Through(r)
  <2>1. CASE ready /\ oneVf
    <3>1. PICK t : t = <<Catch(h)>>
      OBVIOUS
    <3>2. p = <<>> /\ q = <<>>
      BY <2>1, <1>a
    <3>3. p \o q = <<>>
      BY <3>2
    <3>4. r = <<Catch(h)>>
      BY <3>3
    <3>5. <<Catch(h)>> \in Seq(Ops2)
      BY <1>3
    <3>6. Through(<<Catch(h)>>)
      BY <1>2, Parts, Zenon
    <3> QED BY <3>4, <3>5, <3>6
  <2>2. CASE ready /\ ~oneVf
    <3>1. PICK t : t = <<Op("save", None), Catch(h)>>
      OBVIOUS
    <3>2. p = <<Op("save", None)>> /\ q = <<>>
      BY <2>2, <1>a
    <3>3. p \o q = <<Op("save", None)>>
      BY <3>2
    <3>4. r = <<Op("save", None)>> \o <<Catch(h)>>
      BY <3>3
    <3>5. t = <<Op("save", None)>> \o <<Catch(h)>>
      BY <3>1
    <3>6. <<Op("save", None), Catch(h)>> \in Seq(Ops2)
      BY <1>3
    <3>7. Through(<<Op("save", None), Catch(h)>>)
      BY <1>2, Parts, Zenon
    <3> QED BY <3>1, <3>4, <3>5, <3>6, <3>7
  <2>3. CASE ~ready
    <3>1. PICK t : t = <<Op("save", None), Op("shutdown", v), Catch(h)>>
      OBVIOUS
    <3>2. p = <<Op("save", None)>> /\ q = <<Op("shutdown", v)>>
      BY <2>3, <1>a
    <3>4. r = <<Op("save", None)>> \o <<Op("shutdown", v)>> \o <<Catch(h)>>
      BY <3>2
    <3>5. t = <<Op("save", None)>> \o <<Op("shutdown", v)>> \o <<Catch(h)>>
      BY <3>1
    <3>6. <<Op("save", None), Op("shutdown", v), Catch(h)>> \in Seq(Ops2)
      BY <1>3
    <3>7. Through(<<Op("save", None), Op("shutdown", v), Catch(h)>>)
      BY <1>2, Parts, Zenon
    <3> QED BY <3>1, <3>4, <3>5, <3>6, <3>7
  <2> QED BY <2>1, <2>2, <2>3
<1>5. a \in Seq(Ops2) /\ Through(a)
  <2>1. <<Op("add", v)>> \in Seq(Ops2) /\ <<>> \in Seq(Ops2)
    BY <1>3
  <2>2. Through(<<Op("add", v)>>) /\ Through(<<>>)
    BY Parts, Zenon
  <2> QED BY <1>a, <2>1, <2>2
<1> HIDE DEF r
<1>6. r \o a \in Seq(Ops2) /\ Through(r \o a)
  <2>1. r \in Seq(AnyOp) /\ a \in Seq(AnyOp)
    BY <1>4, <1>5, Levels
  <2> QED BY <2>1, <1>4, <1>5, ThroughCat
<1>7. (r \o a) \o l \in Seq(Ops2) /\ Through((r \o a) \o l)
  <2>1. r \o a \in Seq(AnyOp) /\ l \in Seq(AnyOp)
    BY <1>6, <1>1, Levels
  <2>2. Through((r \o a) \o l)
    BY <2>1, <1>6, <1>1, ThroughCat, Zenon
  <2>3. (r \o a) \o l \in Seq(Ops2)
    BY <1>6, <1>1, ConcatProperties, Zenon
  <2> QED BY <2>2, <2>3
<1>8. ((r \o a) \o l) \o <<EndFa>> \in Seq(Ops2)
  <2>1. <<EndFa>> \in Seq(Ops2)
    BY HandlerOps
  <2> QED BY <1>7, <2>1
<1>9. Leaves(((r \o a) \o l) \o <<EndFa>>)
  BY <1>7, Levels, ThroughEnd
<1> QED BY <1>8, <1>9 DEF ExitInit, oneVf, r, a, p, q, h, l


\* A handler that may be taken up in the current state.
Prepared(t) ==
  /\ Fresh(t)
  /\ Stopped \/ Safe(t)
  /\ fa = None \/ Leaves(t) \/ \A i \in 1 .. Len(t) : Calm(t[i])

LEMMA StopHandler ==
  ASSUME NEW t \in Seq(Ops2), t # <<>>, t[1] = Op("stop", None), fa = None
  PROVE  Prepared(t)
<1>1. t \in Seq(AnyOp)
  BY Levels
<1> QED BY <1>1, InnerFresh, StopFirst DEF Prepared

LEMMA FreeHandler ==
  ASSUME NEW t \in Seq(Ops2), \A i \in 1 .. Len(t) : Free(t[i]), fa = None
  PROVE  Prepared(t)
BY InnerFresh, AllFree DEF Prepared

LEMMA CalmHandler ==
  ASSUME IInv, todo = <<>>, fa # None, NEW t \in Seq(Ops2), \A i \in 1 .. Len(t) : Calm(t[i])
  PROVE  Prepared(t)
BY InnerFresh, HoldingIdle DEF Prepared, Owned, IInv

LEMMA LastHandler ==
  ASSUME IInv, todo = <<>>, fa # None, NEW t, Fresh(t), Leaves(t)
  PROVE  Prepared(t)
BY HoldingIdle DEF Prepared, Owned, IInv

LEMMA CatFree ==
  ASSUME NEW a \in Seq(Ops2), NEW b \in Seq(Ops2), NEW t, t = a \o b,
         \A i \in 1 .. Len(a) : Free(a[i]), \A i \in 1 .. Len(b) : Free(b[i])
  PROVE  t \in Seq(Ops2) /\ \A i \in 1 .. Len(t) : Free(t[i])
<1>1. t \in Seq(Ops2) /\ Joined(t, a, b)
  BY CatFacts
<1> QED BY <1>1 DEF Joined

LEMMA NothingPrepared ==
  ASSUME fa = None
  PROVE  Prepared(<<>>)
<1>1. <<>> \in Seq(Ops2) /\ Len(<<>>) = 0
  OBVIOUS
<1>2. \A i \in 1 .. Len(<<>>) : Free(<<>>[i])
  BY <1>1
<1> QED BY <1>1, <1>2, FreeHandler

\* A handler that gives full access.
LEMMA GrantHandler ==
  ASSUME NEW t \in Seq(AnyOp), NEW v, NEW n \in Nat, n >= 3, Len(t) = n, fa = None,
         t[1] = Op("stop", None), t[n].op \in Grants, t[n].f = v,
         t[n - 1] = Catch(GiveUp), t[n - 2].op \in {"init", "fini"}, t[n - 2].f = v,
         \A i \in 1 .. n - 1 : t[i] \in Ops2
  PROVE  Prepared(t)
<1>1. ASSUME NEW i \in 1 .. n - 1 PROVE t[i].op \notin Outer
  BY InnerFacts
<1>2. \A i \in 1 .. Len(t) : t[i].op \notin {"start", "timeout"}
  <2>1. ASSUME NEW i \in 1 .. Len(t) PROVE t[i].op \notin {"start", "timeout"}
    <3>1. CASE i = n
      BY <3>1 DEF Grants
    <3>2. CASE i # n
      BY <3>2, <1>1 DEF Outer
    <3> QED BY <3>1, <3>2
  <2> QED BY <2>1
<1>3. Awaits(t, v)
  BY DEF Awaits
<1>4. ASSUME NEW i \in 1 .. Len(t), t[i].op \in Grants PROVE i = Len(t)
  BY <1>4, <1>1 DEF Outer
<1>5. Fresh(t)
  BY <1>2, <1>3, <1>4 DEF Fresh, StartLast
<1>6. t # <<>>
  <2>1. Len(<<>>) = 0
    OBVIOUS
  <2> QED BY <2>1
<1> QED BY <1>5, <1>6, StopFirst DEF Prepared

LEMMA EnterPrepared ==
  ASSUME NEW v \in VF, fa = None
  PROVE  Prepared(EnterForInit(v)) /\ Prepared(EnterForFini(v))
<1>0. \A o \in Grants : Op(o, v) \in AnyOp
  BY FnFacts DEF AnyOp, OpsOuter, Op, Outer, ArgOk, OfFn, Grants
<1>1. Prepared(EnterForInit(v))
  <2>1. PICK t : t = EnterForInit(v)
    OBVIOUS
  <2>2. /\ Op("stop", None) \in Ops2 /\ IfBad(AutoReset) \in Ops2 /\ Op("orphan", v) \in Ops2
        /\ Catch(GiveUp) \in Ops2 /\ Op("init", v) \in Ops2
    BY HandlerOps, FnFacts
  <2>3. Op("grantinit", v) \in AnyOp
    BY <1>0 DEF Grants
  <2>4. t \in Seq(AnyOp) /\ Len(t) = 7
    BY <2>1, <2>2, <2>3, Levels DEF EnterForInit
  <2>5. /\ t[1] = Op("stop", None) /\ t[2] = IfBad(AutoReset) /\ t[3] = Op("orphan", v)
        /\ t[4] = Catch(GiveUp) /\ t[5] = Op("init", v) /\ t[6] = Catch(GiveUp)
        /\ t[7] = Op("grantinit", v)
    BY <2>1 DEF EnterForInit
  <2>6. /\ t[7].op = "grantinit" /\ t[7].f = v /\ t[5].op = "init" /\ t[5].f = v
    BY <2>5 DEF Op
  <2>7. \A i \in 1 .. 6 : t[i] \in Ops2
    BY <2>2, <2>5
  <2>8. 7 - 1 = 6 /\ 7 - 2 = 5 /\ 7 \in Nat /\ 7 >= 3
    OBVIOUS
  <2>9. Prepared(t)
    BY <2>4, <2>5, <2>6, <2>7, <2>8, GrantHandler DEF Grants
  <2> QED BY <2>1, <2>9
<1>2. Prepared(EnterForFini(v))
  <2>1. PICK t : t = EnterForFini(v)
    OBVIOUS
  <2>2. /\ Op("stop", None) \in Ops2 /\ IfBad(AutoReset) \in Ops2 /\ IfHung(v, GiveUp) \in Ops2
        /\ Catch(GiveUp) \in Ops2 /\ Op("fini", v) \in Ops2
    BY HandlerOps, FnFacts
  <2>3. Op("grantfini", v) \in AnyOp
    BY <1>0 DEF Grants
  <2>4. t \in Seq(AnyOp) /\ Len(t) = 6
    BY <2>1, <2>2, <2>3, Levels DEF EnterForFini
  <2>5. /\ t[1] = Op("stop", None) /\ t[2] = IfHung(v, GiveUp) /\ t[3] = IfBad(AutoReset)
        /\ t[4] = Op("fini", v) /\ t[5] = Catch(GiveUp) /\ t[6] = Op("grantfini", v)
    BY <2>1 DEF EnterForFini
  <2>6. /\ t[6].op = "grantfini" /\ t[6].f = v /\ t[4].op = "fini" /\ t[4].f = v
    BY <2>5 DEF Op
  <2>7. \A i \in 1 .. 5 : t[i] \in Ops2
    BY <2>2, <2>5
  <2>8. 6 - 1 = 5 /\ 6 - 2 = 4 /\ 6 \in Nat /\ 6 >= 3
    OBVIOUS
  <2>9. Prepared(t)
    BY <2>4, <2>5, <2>6, <2>7, <2>8, GrantHandler DEF Grants
  <2> QED BY <2>1, <2>9
<1> QED BY <1>1, <1>2

\* A handler that begins by resetting the VF in full access.
LEMMA TimeoutHandler ==
  ASSUME IInv, todo = <<>>, fa # None, NEW v \in VF, NEW r \in Seq(Ops2),
         \A i \in 1 .. Len(r) : Free(r[i])
  PROVE  Prepared(<<Op("timeout", v)>> \o r)
<1>1. Op("timeout", v) \in AnyOp
  BY FnFacts DEF AnyOp, OpsOuter, Op, Outer, ArgOk, OfFn
<1>2. PICK a \in Seq(AnyOp) : a = <<Op("timeout", v)>>
  <2>1. <<Op("timeout", v)>> \in Seq(AnyOp)
    BY <1>1
  <2> QED BY <2>1
<1>3. Len(a) = 1 /\ a[1] = Op("timeout", v)
  BY <1>2
<1>4. PICK t : t = a \o r
  OBVIOUS
<1>5. t \in Seq(AnyOp) /\ Joined(t, a, r)
  BY <1>4, Levels, CatFacts
<1>6. t[1].op = "timeout" /\ Len(t) \in Nat /\ Len(t) >= 1
  BY <1>3, <1>5 DEF Joined, Op
<1>7. ASSUME NEW i \in 1 .. Len(t), i # 1 PROVE Free(t[i]) /\ t[i].op \notin Grants
  <2>1. PICK k \in 1 .. Len(r) : i = k + Len(a)
    BY <1>3, <1>5, <1>7 DEF Joined
  <2>2. t[i] = r[k]
    BY <2>1, <1>5 DEF Joined
  <2> QED BY <2>2, NoGrants
<1>8. ASSUME NEW i \in 1 .. Len(t), NEW j \in 1 .. Len(t), i < j PROVE Free(t[j])
  <2>1. j # 1
    BY <1>8
  <2> QED BY <2>1, <1>7
<1>9. \A i \in 1 .. Len(t) : t[i].op \notin Grants
  BY <1>6, <1>7 DEF Grants
<1>10. Fresh(t)
  BY <1>5, <1>8, <1>9 DEF Fresh, StartLast
<1>11. Leaves(t)
  <2>1. Path(t, 1, ExitBranches) /\ 1 \in 1 .. Len(t)
    BY <1>6 DEF Path
  <2> QED BY <1>6, <2>1 DEF Leaves
<1> QED BY <1>2, <1>4, <1>10, <1>11, LastHandler


\* Every event finds a state that its handler may be taken up in.
LEMMA RequestPrepared ==
  ASSUME NEW v \in VF, Request(v)
  PROVE  Prepared(todo')
<1>1. fa = None
  BY DEF Request, Normal
<1>2. todo' = EnterForInit(v) \/ todo' = EnterForFini(v)
  BY DEF Request, Take
<1> QED BY <1>1, <1>2, EnterPrepared

LEMMA ReleasePrepared ==
  ASSUME IInv, NEW v \in VF, Release(v)
  PROVE  Prepared(todo')
<1>1. fa # None /\ todo = <<>>
  BY FnFacts DEF Release, Take
<1>2. ASSUME NEW ready \in BOOLEAN, todo' = ExitInit(v, ready) PROVE Prepared(todo')
  BY <1>1, <1>2, ExitInitLeaves, InnerFresh, LastHandler
<1>3. CASE todo' = ExitFini(v)
  BY <1>1, <1>3, ExitFiniLeaves, InnerFresh, LastHandler
<1>4. CASE todo' = <<Op("timeout", v)>>
  <2>1. <<>> \in Seq(Ops2) /\ Len(<<>>) = 0
    OBVIOUS
  <2>2. \A i \in 1 .. Len(<<>>) : Free(<<>>[i])
    BY <2>1
  <2>3. Prepared(<<Op("timeout", v)>> \o <<>>)
    BY <1>1, <2>1, <2>2, TimeoutHandler
  <2>4. <<Op("timeout", v)>> \o <<>> = <<Op("timeout", v)>>
    OBVIOUS
  <2> QED BY <1>4, <2>3, <2>4
<1> QED BY <1>2, <1>3, <1>4 DEF Release, Take

LEMMA ForceResetPrepared ==
  ASSUME NEW v \in VF, ForceReset(v)
  PROVE  Prepared(todo')
<1>1. fa = None
  BY DEF ForceReset, Normal
<1>2. PICK t : t = <<Op("stop", None), IfBad(AutoReset), Op("saved", v), Catch(AutoReset),
                     IfActive(v, <<Op("resetvf", v), Ignore>>), IfActive(v, <<Op("remove", v)>>),
                     Op("AVAIL", v)>>
  OBVIOUS
<1>3. /\ Op("stop", None) \in Ops2 /\ IfBad(AutoReset) \in Ops2 /\ Op("saved", v) \in Ops2
      /\ Catch(AutoReset) \in Ops2 /\ IfActive(v, <<Op("resetvf", v), Ignore>>) \in Ops2
      /\ IfActive(v, <<Op("remove", v)>>) \in Ops2 /\ Op("AVAIL", v) \in Ops2
  BY HandlerOps
<1>4. t \in Seq(Ops2) /\ t # <<>> /\ t[1] = Op("stop", None)
  BY <1>2, <1>3
<1>5. todo' = t
  BY <1>2 DEF ForceReset, Take
<1> QED BY <1>1, <1>4, <1>5, StopHandler

LEMMA SuspendPrepared ==
  ASSUME IInv, NEW v \in VF, SuspendEvent(v)
  PROVE  Prepared(todo')
<1> DEFINE b == IF fa = None THEN <<Op("stop", None)>> ELSE <<>>
<1>1. todo = <<>> /\ fa # v /\ todo' = <<Op("SUSPEND", v)>> \o b \o <<Op("remove", v)>>
  BY DEF SuspendEvent, Take
<1>2. Op("SUSPEND", v) \in Ops2 /\ Op("stop", None) \in Ops2 /\ Op("remove", v) \in Ops2
  BY HandlerOps
<1>3. CASE fa = None
  <2>1. PICK x \in Seq(Ops2) : x = <<Op("SUSPEND", v)>>
    <3>1. <<Op("SUSPEND", v)>> \in Seq(Ops2)
      BY <1>2
    <3> QED BY <3>1
  <2>2. PICK y \in Seq(Ops2) : y = <<Op("stop", None)>>
    <3>1. <<Op("stop", None)>> \in Seq(Ops2)
      BY <1>2
    <3> QED BY <3>1
  <2>3. PICK z \in Seq(Ops2) : z = <<Op("remove", v)>>
    <3>1. <<Op("remove", v)>> \in Seq(Ops2)
      BY <1>2
    <3> QED BY <3>1
  <2>4. /\ Len(x) = 1 /\ x[1] = Op("SUSPEND", v) /\ Len(y) = 1 /\ y[1] = Op("stop", None)
        /\ Len(z) = 1 /\ z[1] = Op("remove", v)
    BY <2>1, <2>2, <2>3
  <2>5. Free(Op("SUSPEND", v)) /\ Free(Op("stop", None)) /\ Free(Op("remove", v))
    BY FreeFacts DEF FreeOps
  <2>6. /\ \A i \in 1 .. Len(x) : Free(x[i])
        /\ \A i \in 1 .. Len(y) : Free(y[i])
        /\ \A i \in 1 .. Len(z) : Free(z[i])
    BY <2>4, <2>5
  <2>7. PICK s \in Seq(Ops2) : s = x \o y /\ \A i \in 1 .. Len(s) : Free(s[i])
    BY <2>6, CatFree
  <2>8. PICK t \in Seq(Ops2) : t = s \o z /\ \A i \in 1 .. Len(t) : Free(t[i])
    BY <2>6, <2>7, CatFree
  <2>9. todo' = t
    BY <1>1, <1>3, <2>1, <2>2, <2>3, <2>7, <2>8
  <2> QED BY <1>3, <2>8, <2>9, FreeHandler
<1>4. CASE fa # None
  <2>1. PICK t : t = <<Op("SUSPEND", v)>> \o <<Op("remove", v)>>
    OBVIOUS
  <2>2. todo' = t
    <3>1. b = <<>>
      BY <1>4
    <3>2. <<Op("SUSPEND", v)>> \o <<>> = <<Op("SUSPEND", v)>>
      OBVIOUS
    <3> QED BY <1>1, <2>1, <3>1, <3>2
  <2>3. t \in Seq(Ops2) /\ Len(t) = 2 /\ t[1] = Op("SUSPEND", v) /\ t[2] = Op("remove", v)
    BY <1>2, <2>1
  <2>4. Calm(t[1]) /\ Calm(t[2])
    <3>1. t[1].op = "SUSPEND" /\ t[2].op = "remove" /\ t[2].f = v
      BY <2>3 DEF Op
    <3> QED BY <3>1, <1>1 DEF Calm, CalmOps
  <2>5. \A i \in 1 .. Len(t) : Calm(t[i])
    BY <2>3, <2>4
  <2> QED BY <1>1, <1>4, <2>2, <2>3, <2>5, CalmHandler
<1> QED BY <1>3, <1>4

LEMMA ResumePrepared ==
  ASSUME IInv, NEW v \in VF, ResumeEvent(v)
  PROVE  Prepared(todo')
<1> DEFINE b == IF fa = None THEN <<Op("stop", None)>> ELSE <<>>
<1>1. todo = <<>> /\ todo' = b \o <<Op("add", v)>>
  BY DEF ResumeEvent, Take
<1>2. Op("stop", None) \in Ops2 /\ Op("add", v) \in Ops2
  BY HandlerOps
<1>3. CASE fa = None
  <2>1. PICK t : t = <<Op("stop", None)>> \o <<Op("add", v)>>
    OBVIOUS
  <2>2. todo' = t
    BY <1>1, <1>3, <2>1
  <2>3. t \in Seq(Ops2) /\ Len(t) = 2 /\ t[1] = Op("stop", None)
    BY <1>2, <2>1
  <2>4. t # <<>>
    BY <2>1
  <2> QED BY <1>3, <2>2, <2>3, <2>4, StopHandler
<1>4. CASE fa # None
  <2>1. PICK t : t = <<Op("add", v)>>
    OBVIOUS
  <2>2. todo' = t
    <3>1. b = <<>>
      BY <1>4
    <3>2. <<>> \o <<Op("add", v)>> = <<Op("add", v)>>
      OBVIOUS
    <3> QED BY <1>1, <2>1, <3>1, <3>2
  <2>3. t \in Seq(Ops2) /\ Len(t) = 1 /\ t[1] = Op("add", v)
    BY <1>2, <2>1
  <2>4. Calm(t[1])
    BY <2>3 DEF Calm, CalmOps, Op
  <2>5. \A i \in 1 .. Len(t) : Calm(t[i])
    BY <2>3, <2>4
  <2> QED BY <1>1, <1>4, <2>2, <2>3, <2>5, CalmHandler
<1> QED BY <1>3, <1>4

LEMMA RemovePrepared ==
  ASSUME IInv, NEW v \in VF, RemoveEvent(v)
  PROVE  Prepared(todo')
<1>1. PICK r : r = <<IfActive(v, <<Op("remove", v)>>), Op("UNAVAIL", v)>>
  OBVIOUS
<1>2. todo = <<>> /\ todo' = (IF fa = v THEN <<Op("timeout", v)>> ELSE <<>>) \o r
  BY <1>1 DEF RemoveEvent, Take
<1>3. r \in Seq(Ops2) /\ Len(r) = 2 /\ r[1] = IfActive(v, <<Op("remove", v)>>) /\ r[2] = Op("UNAVAIL", v)
  <2>1. IfActive(v, <<Op("remove", v)>>) \in Ops2 /\ Op("UNAVAIL", v) \in Ops2
    BY HandlerOps
  <2> QED BY <1>1, <2>1
<1>4. \A i \in 1 .. Len(r) : Free(r[i])
  <2>1. Free(IfActive(v, <<Op("remove", v)>>)) /\ Free(Op("UNAVAIL", v))
    BY FreeFacts DEF FreeOps
  <2> QED BY <1>3, <2>1
<1>5. CASE fa = v
  BY <1>2, <1>3, <1>4, <1>5, FnFacts, TimeoutHandler
<1>6. CASE fa # v
  <2>1. todo' = r
    <3>1. <<>> \o r = r
      BY <1>3
    <3> QED BY <3>1, <1>2, <1>6
  <2>2. CASE fa = None
    BY <2>1, <2>2, <1>3, <1>4, FreeHandler
  <2>3. CASE fa # None
    <3>1. Calm(r[1]) /\ Calm(r[2])
      <4>1. /\ r[1].op = "ifactive" /\ r[1].f = v /\ r[1].h = <<Op("remove", v)>>
            /\ r[2].op = "UNAVAIL"
        BY <1>3 DEF Op, IfActive
      <4> QED BY <4>1, <1>6 DEF Calm, CalmOps
    <3>2. \A i \in 1 .. Len(r) : Calm(r[i])
      BY <1>3, <3>1
    <3> QED BY <2>1, <2>3, <3>2, <1>2, <1>3, CalmHandler
  <2> QED BY <2>2, <2>3
<1> QED BY <1>5, <1>6

LEMMA StopVfPrepared ==
  ASSUME IInv, NEW v \in VF, StopVf(v)
  PROVE  Prepared(todo')
<1>1. todo = <<>>
  BY DEF StopVf, Take
<1>2. /\ Op("stop", None) \in Ops2 /\ Op("saved", v) \in Ops2 /\ Catch(AutoReset) \in Ops2
      /\ IfActive(v, <<Op("resetvf", v), Ignore, Op("remove", v)>>) \in Ops2
      /\ Op("shutdown", v) \in Ops2 /\ Op("shut", v) \in Ops2 /\ Op("AVAIL", v) \in Ops2
      /\ Op("crash", v) \in Ops2
  BY HandlerOps
<1>3. CASE fa # None
  <2>1. PICK t : t = <<Op("crash", v)>>
    OBVIOUS
  <2>2. todo' = t
    BY <1>3, <2>1 DEF StopVf, Take
  <2>3. t \in Seq(Ops2) /\ Len(t) = 1 /\ t[1] = Op("crash", v)
    BY <1>2, <2>1
  <2>4. Calm(t[1])
    BY <2>3 DEF Calm, CalmOps, Op
  <2>5. \A i \in 1 .. Len(t) : Calm(t[i])
    BY <2>3, <2>4
  <2> QED BY <1>1, <1>3, <2>2, <2>3, <2>5, CalmHandler
<1>4. CASE fa = None
  <2>1. PICK z \in Seq(Ops2) : z = <<Op("shut", v), Op("AVAIL", v)>>
    <3>1. <<Op("shut", v), Op("AVAIL", v)>> \in Seq(Ops2)
      BY <1>2
    <3> QED BY <3>1
  <2>2. \A i \in 1 .. Len(z) : Free(z[i])
    <3>1. Len(z) = 2 /\ z[1] = Op("shut", v) /\ z[2] = Op("AVAIL", v)
      BY <2>1
    <3>2. Free(Op("shut", v)) /\ Free(Op("AVAIL", v))
      BY FreeFacts DEF FreeOps
    <3> QED BY <3>1, <3>2
  <2>3. PICK x : x = <<Op("stop", None), Op("saved", v), Catch(AutoReset),
                       IfActive(v, <<Op("resetvf", v), Ignore, Op("remove", v)>>), Op("shutdown", v)>>
    OBVIOUS
  <2>4. PICK y : y = <<Op("shutdown", v)>>
    OBVIOUS
  <2>5. todo' = x \o z \/ todo' = y \o z \/ todo' = <<>> \o z
    BY <1>4, <2>1, <2>3, <2>4 DEF StopVf, Take
  <2>6. CASE todo' = x \o z
    <3>1. x \in Seq(Ops2) /\ Len(x) = 5 /\ x[1] = Op("stop", None)
      BY <1>2, <2>3
    <3>2. PICK t : t = x \o z
      OBVIOUS
    <3>3. t \in Seq(Ops2) /\ Joined(t, x, z)
      BY <3>1, <3>2, CatFacts
    <3>4. t[1] = Op("stop", None) /\ Len(t) # 0
      BY <3>1, <3>3 DEF Joined
    <3>5. t # <<>>
      BY <3>4
    <3> QED BY <2>6, <3>2, <3>3, <3>4, <3>5, <1>4, StopHandler
  <2>7. CASE todo' = y \o z
    <3>1. y \in Seq(Ops2) /\ Len(y) = 1 /\ y[1] = Op("shutdown", v)
      BY <1>2, <2>4
    <3>2. Free(Op("shutdown", v))
      BY FreeFacts DEF FreeOps
    <3>3. \A i \in 1 .. Len(y) : Free(y[i])
      BY <3>1, <3>2
    <3>4. PICK t \in Seq(Ops2) : t = y \o z /\ \A i \in 1 .. Len(t) : Free(t[i])
      BY <3>1, <3>3, <2>2, CatFree
    <3> QED BY <2>7, <3>4, <1>4, FreeHandler
  <2>8. CASE todo' = <<>> \o z
    <3>1. <<>> \o z = z
      OBVIOUS
    <3> QED BY <2>8, <3>1, <2>2, <1>4, FreeHandler
  <2> QED BY <2>5, <2>6, <2>7, <2>8
<1> QED BY <1>3, <1>4

LEMMA WholePrepared ==
  ASSUME InitVfFb \/ Whole
  PROVE  Prepared(todo')
<1>0. fa = None
  BY DEF InitVfFb, Whole, Normal
<1>1. /\ Op("stop", None) \in Ops2 /\ IfBad(AutoReset) \in Ops2 /\ Op("switch", PF) \in Ops2
      /\ Catch(AutoReset) \in Ops2 /\ Op("save", None) \in Ops2 /\ Op("lock", None) \in Ops2
      /\ Op("unlock", None) \in Ops2 /\ Op("wgr", None) \in Ops2 /\ Ignore \in Ops2
  BY HandlerOps, FnFacts
<1>2. CASE todo' = <<Op("stop", None), IfBad(AutoReset), Op("switch", PF), Catch(AutoReset),
                     Op("save", None), Catch(AutoReset)>>
  <2>1. todo' \in Seq(Ops2) /\ todo' # <<>> /\ todo'[1] = Op("stop", None)
    BY <1>1, <1>2
  <2> QED BY <1>0, <2>1, StopHandler
<1>3. CASE todo' = <<Op("stop", None), IfBad(AutoReset), Op("lock", None)>>
  <2>1. todo' \in Seq(Ops2) /\ todo' # <<>> /\ todo'[1] = Op("stop", None)
    BY <1>1, <1>3
  <2> QED BY <1>0, <2>1, StopHandler
<1>4. CASE todo' = <<Op("unlock", None)>>
  <2>1. todo' \in Seq(Ops2) /\ Len(todo') = 1 /\ todo'[1] = Op("unlock", None)
    BY <1>1, <1>4
  <2>2. Free(Op("unlock", None))
    BY FreeFacts DEF FreeOps
  <2>3. \A i \in 1 .. Len(todo') : Free(todo'[i])
    BY <2>1, <2>2
  <2> QED BY <1>0, <2>1, <2>3, FreeHandler
<1>5. CASE todo' = <<Op("stop", None), Op("wgr", None), Ignore>>
  <2>1. todo' \in Seq(Ops2) /\ todo' # <<>> /\ todo'[1] = Op("stop", None)
    BY <1>1, <1>5
  <2> QED BY <1>0, <2>1, StopHandler
<1> QED BY <1>2, <1>3, <1>4, <1>5 DEF InitVfFb, Whole, Take


LEMMA QueuedPrepared ==
  ASSUME IInv, Queued
  PROVE  Prepared(todo')
<1>1. ASSUME NEW f \in Fn, TakeReset(f) PROVE Prepared(todo')
  <2>1. fa = None
    BY <1>1 DEF TakeReset, Normal
  <2>2. CASE todo' = <<>>
    BY <2>1, <2>2, NothingPrepared
  <2>3. CASE todo' = <<Op("stop", None), IfBad(AutoReset)>>
    <3>1. Op("stop", None) \in Ops2 /\ IfBad(AutoReset) \in Ops2
      BY HandlerOps
    <3>2. todo' \in Seq(Ops2) /\ todo' # <<>> /\ todo'[1] = Op("stop", None)
      BY <3>1, <2>3
    <3> QED BY <2>1, <3>2, StopHandler
  <2> QED BY <1>1, <2>2, <2>3 DEF TakeReset
<1>2. ASSUME NEW v \in VF, TakeCrash(v) PROVE Prepared(todo')
  <2>1. fa = None
    BY <1>2 DEF TakeCrash, Normal
  <2>2. CASE todo' = <<>>
    BY <2>1, <2>2, NothingPrepared
  <2>3. CASE todo' = <<Op("stop", None), Op("saved", v), Catch(AutoReset),
                       IfActive(v, <<Op("resetvf", v), Ignore>>),
                       Op("orphan", v), Catch(GiveUp), Op("shut", v)>>
    <3>1. /\ Op("stop", None) \in Ops2 /\ Op("saved", v) \in Ops2 /\ Catch(AutoReset) \in Ops2
          /\ IfActive(v, <<Op("resetvf", v), Ignore>>) \in Ops2 /\ Op("orphan", v) \in Ops2
          /\ Catch(GiveUp) \in Ops2 /\ Op("shut", v) \in Ops2
      BY HandlerOps
    <3>2. todo' \in Seq(Ops2) /\ todo' # <<>> /\ todo'[1] = Op("stop", None)
      BY <3>1, <2>3
    <3> QED BY <2>1, <3>2, StopHandler
  <2> QED BY <1>2, <2>2, <2>3 DEF TakeCrash
<1>3. CASE Timeout
  <2>1. fa # None /\ todo = <<>> /\ fa \in VF /\ todo' = <<Op("timeout", fa)>>
    BY <1>3 DEF Timeout, IInv, TypeOK
  <2>2. <<>> \in Seq(Ops2) /\ Len(<<>>) = 0
    OBVIOUS
  <2>3. \A i \in 1 .. Len(<<>>) : Free(<<>>[i])
    BY <2>2
  <2>4. Prepared(<<Op("timeout", fa)>> \o <<>>)
    BY <2>1, <2>2, <2>3, TimeoutHandler
  <2>5. <<Op("timeout", fa)>> \o <<>> = <<Op("timeout", fa)>>
    OBVIOUS
  <2> QED BY <2>1, <2>4, <2>5
<1>4. CASE Reactivate
  <2>0. /\ Op("idle", None) \in Ops2 /\ Op("start", None) \in AnyOp
        /\ Free(Op("idle", None)) /\ Free(Op("start", None))
    <3>1. Op("idle", None) \in Ops2
      BY PlainOps, Levels DEF Inner, Steady, OfVf, OfFn, Grants
    <3>2. Op("start", None) \in AnyOp
      BY FnFacts DEF AnyOp, OpsOuter, Op, Outer, ArgOk, OfVf, OfFn, Grants
    <3> QED BY <3>1, <3>2, FreeFacts DEF FreeOps
  <2>1. CASE todo' = <<Op("idle", None)>>
    <3>1. PICK t : t = todo'
      OBVIOUS
    <3>2. t \in Seq(Ops2) /\ Len(t) = 1 /\ t[1] = Op("idle", None)
      BY <2>0, <2>1, <3>1
    <3>3. CASE fa = None
      <4>1. \A i \in 1 .. Len(t) : Free(t[i])
        BY <2>0, <3>2
      <4> QED BY <3>1, <3>2, <3>3, <4>1, FreeHandler
    <3>4. CASE fa # None
      <4>1. Calm(t[1])
        BY <3>2 DEF Calm, CalmOps, Op
      <4>2. \A i \in 1 .. Len(t) : Calm(t[i])
        BY <3>2, <4>1
      <4> QED BY <1>4, <3>1, <3>2, <3>4, <4>2, CalmHandler DEF Reactivate
    <3> QED BY <3>3, <3>4
  <2>2. CASE Normal /\ todo' = <<Op("start", None), Op("idle", None)>>
    <3>1. PICK t : t = todo'
      OBVIOUS
    <3>2. t \in Seq(AnyOp) /\ Len(t) = 2 /\ t[1] = Op("start", None) /\ t[2] = Op("idle", None)
      BY <2>0, <2>2, <3>1, Levels
    <3>3. \A i \in 1 .. Len(t) : Free(t[i])
      BY <2>0, <3>2
    <3>4. \A i \in 1 .. Len(t) : t[i].op \notin Grants
      BY <3>2 DEF Op, Grants
    <3>5. Fresh(t)
      BY <3>2, <3>3, <3>4 DEF Fresh, StartLast
    <3> QED BY <2>2, <3>1, <3>3, <3>5, AllFree DEF Prepared, Normal
  <2> QED BY <1>4, <2>1, <2>2 DEF Reactivate
<1> QED BY <1>1, <1>2, <1>3, <1>4 DEF Queued

LEMMA IncomingTakes ==
  ASSUME Incoming
  PROVE  /\ todo = <<>> /\ UNCHANGED <<ws, wt, sched, fails>>
         /\ busy' = TRUE /\ events' = events + 1
         /\ events < (IF fails = 0 THEN MaxEvents ELSE MaxFaulty)
<1>1. ASSUME NEW v \in VF, Request(v) \/ Release(v) \/ ForceReset(v)
      PROVE  \E k, ops : Take(k, ops)
  BY <1>1 DEF Request, Release, ForceReset
<1>2. ASSUME NEW v \in VF, SuspendEvent(v) \/ ResumeEvent(v) \/ RemoveEvent(v)
      PROVE  \E k, ops : Take(k, ops)
  BY <1>2 DEF SuspendEvent, ResumeEvent, RemoveEvent
<1>3. ASSUME NEW v \in VF, StopVf(v) PROVE \E k, ops : Take(k, ops)
  BY <1>3 DEF StopVf
<1>4. ASSUME InitVfFb \/ Whole PROVE \E k, ops : Take(k, ops)
  BY <1>4 DEF InitVfFb, Whole
<1>5. PICK k, ops : Take(k, ops)
  BY <1>1, <1>2, <1>3, <1>4 DEF Incoming
<1> QED BY <1>5 DEF Take

LEMMA IncomingPrepared ==
  ASSUME IInv, Incoming
  PROVE  Prepared(todo')
BY RequestPrepared, ReleasePrepared, ForceResetPrepared, SuspendPrepared, ResumePrepared,
   RemovePrepared, StopVfPrepared, WholePrepared DEF Incoming

LEMMA QueuedTakes ==
  ASSUME Queued
  PROVE  todo = <<>> /\ UNCHANGED <<ws, wt, status, fa, faFor, locked, unshut, events, fails>>
BY DEF Queued, TakeReset, TakeCrash, Timeout, Reactivate, sched

-----------------------------------------------------------------------------
(* The invariant.                                                          *)

LEMMA InitInv == Init => IInv
<1> SUFFICES ASSUME Init PROVE IInv
  OBVIOUS
<1> USE FnFacts, BoundAssumption
<1>1. TypeOK
  BY DEF Init, TypeOK, MaxWake
<1>2. todo \in Seq(AnyOp) /\ Len(todo) = 0
  BY DEF Init
<1>3. StartLast(todo) /\ Guarded(todo) /\ Granting(todo)
  BY <1>2 DEF StartLast, Guarded, Granting
<1>4. Holding
  BY DEF Init, Holding
<1> QED BY <1>1, <1>2, <1>3, <1>4 DEF IInv

\* The switching thread and its timer.
LEMMA WsStep ==
  ASSUME IInv, WsThread \/ TimerFires
  PROVE  IInv'
<1>1. TypeOK'
  BY WsTypes DEF IInv
<1>2. todo' = todo /\ fa' = fa
  BY DEF WsThread, WsWake, WsSave, WsLoad, TimerFires, sched
<1>3. Stopped => Stopped' /\ UNCHANGED <<st, cur, hw>>
  <2>1. CASE WsWake
    BY <2>1 DEF WsWake, Stopped
  <2>2. CASE WsSave \/ WsLoad
    BY <2>2 DEF WsSave, WsLoad, Stopped
  <2>3. CASE TimerFires
    BY <2>3 DEF TimerFires, Stopped
  <2> QED BY <2>1, <2>2, <2>3 DEF WsThread
<1>4. Guarded(todo)'
  BY <1>2, <1>3 DEF IInv, Guarded
<1>5. \A v : Owned(v) => Owned(v)'
  BY <1>3 DEF Owned
<1>6. Granting(todo)'
  <2>1. ASSUME NEW i \in 1 .. Len(todo), todo[i].op \in Grants, NEW v, v = todo[i].f
        PROVE  /\ i = Len(todo)
               /\ \/ Returns(todo) \/ Awaits(todo, v)
                  \/ Owned(v)' /\ (Len(todo) = 1 \/ (Len(todo) = 2 /\ todo[1].op = "catch"))
    BY <2>1, <1>5 DEF IInv, Granting, Arrives
  <2> QED BY <2>1, <1>2 DEF Granting, Arrives, Returns, Awaits
<1>7. Holding'
  <2>1. CASE fa = None
    BY <2>1, <1>2 DEF Holding
  <2>2. CASE Leaves(todo)
    BY <2>2, <1>2 DEF Holding, Leaves
  <2>3. CASE Owned(fa) /\ \A i \in 1 .. Len(todo) : Calm(todo[i])
    <3>1. Owned(fa)'
      <4>1. PICK v : v = fa
        OBVIOUS
      <4>2. Owned(v)'
        BY <2>3, <4>1, <1>5
      <4> QED BY <4>1, <4>2, <1>2 DEF Owned
    <3>2. \A i \in 1 .. Len(todo') : Calm(todo[i])'
      BY <2>3, <1>2 DEF Calm
    <3> QED BY <3>1, <3>2 DEF Holding
  <2> QED BY <2>1, <2>2, <2>3 DEF IInv, Holding
<1>8. todo' \in Seq(AnyOp) /\ StartLast(todo)'
  BY <1>2 DEF IInv, StartLast
<1> QED BY <1>1, <1>4, <1>6, <1>7, <1>8 DEF IInv

LEMMA NextInv == IInv /\ [Next]_vars => IInv'
<1> SUFFICES ASSUME IInv, [Next]_vars PROVE IInv'
  OBVIOUS
<1>1. CASE WsThread \/ TimerFires
  BY <1>1, WsStep
<1>2. CASE EventOp
  <2>1. TypeOK'
    BY <1>2, OpTypes DEF IInv
  <2>2. todo' \in Seq(AnyOp) /\ StartLast(todo')
    BY <1>2, OpProceeds, ProceedsTypes DEF IInv
  <2>3. Guarded(todo)'
    BY <1>2, GuardedStep DEF IInv
  <2>4. Granting(todo)'
    BY <1>2, GrantingStep DEF IInv
  <2>5. Holding'
    BY <1>2, HoldingStep DEF IInv
  <2>6. StartLast(todo)'
    BY <2>2 DEF StartLast
  <2> QED BY <2>1, <2>2, <2>3, <2>4, <2>5, <2>6 DEF IInv
<1>3. ASSUME todo = <<>>, UNCHANGED <<ws, wt, fa>>, Prepared(todo'), TypeOK' PROVE IInv'
  <2>1. PICK t : t = todo'
    OBVIOUS
  <2>2. Fresh(t) /\ (Stopped \/ Safe(t)) /\ (fa = None \/ Leaves(t) \/ \A i \in 1 .. Len(t) : Calm(t[i]))
    BY <1>3, <2>1 DEF Prepared
  <2>3. (todo \in Seq(AnyOp) /\ StartLast(todo) /\ Guarded(todo) /\ Granting(todo) /\ Holding)'
    BY <1>3, <2>1, <2>2, NewHandler
  <2> QED BY <1>3, <2>3 DEF IInv
<1>4. CASE Incoming
  <2>1. TypeOK'
    <3>1. events' \in 0 .. MaxEvents
      BY <1>4, IncomingTakes, BoundAssumption DEF IInv, TypeOK
    <3> QED BY <1>4, <3>1, IncomingTakes DEF IInv, TypeOK, ws, sched
  <2>2. todo = <<>> /\ UNCHANGED <<ws, wt, fa>>
    BY <1>4, IncomingTakes DEF sched
  <2> QED BY <1>3, <1>4, <2>1, <2>2, IncomingPrepared
<1>5. CASE Queued
  <2>1. resetQ' \subseteq Fn /\ crashQ' \subseteq VF /\ busy' \in BOOLEAN
    BY <1>5 DEF Queued, TakeReset, TakeCrash, Timeout, Reactivate, IInv, TypeOK, sched
  <2>2. TypeOK'
    BY <1>5, <2>1, QueuedTakes DEF IInv, TypeOK, ws
  <2>3. todo = <<>> /\ UNCHANGED <<ws, wt, fa>>
    BY <1>5, QueuedTakes
  <2> QED BY <1>3, <1>5, <2>2, <2>3, QueuedPrepared
<1>6. CASE UNCHANGED vars
  BY <1>6 DEF vars, ws, sched, IInv, TypeOK, StartLast, Guarded, Stopped, Granting, Returns, Awaits,
              Arrives, Owned, Holding, Leaves, Calm
<1> QED BY <1>1, <1>2, <1>4, <1>5, <1>6 DEF Next

LEMMA InvHolds == Spec => []IInv
BY InitInv, NextInv, PTL DEF Spec

-----------------------------------------------------------------------------
(* What operations assume and what they achieve.                           *)

\* What the assertions and the list depend on.
World ==
  [st : {"CLEAR", "SAVED", "LOADED", "ABNORMAL"}, cur : Fn, ent : SUBSET VF, ini : SUBSET Fn,
   stat : [VF -> {"UNAVAIL", "AVAIL", "ACTIVE", "SUSPEND"}], fa : VF \union {None},
   ff : {"none", "init", "fini"}, fault : {"none", "some"}, run : {"on", "off"}]
Now ==
  [st |-> st, cur |-> cur, ent |-> entry, ini |-> inited, stat |-> status, fa |-> fa, ff |-> faFor,
   fault |-> IF fails = 0 THEN "none" ELSE "some", run |-> IF Stopped THEN "off" ELSE "on"]

\* Nothing has failed; then the engines are free, or on a function that the
\* switching thread may save.
Clean(S) == S.fault = "none"
Off(S) == S.st \in {"SAVED", "CLEAR"}
Ready(S) == Clean(S) => Off(S) \/ (S.st = "LOADED" /\ S.cur \in S.ent \union {PF})
Down(S) == Clean(S) => Off(S)

\* A VF is in the list exactly when it is active, and what is in the list or
\* may be put back into it has a context.
OkVf(S, u) ==
  /\ S.stat[u] = "ACTIVE" => u \in S.ent
  /\ S.stat[u] # "ACTIVE" => u \notin S.ent
  /\ S.stat[u] \in {"ACTIVE", "SUSPEND"} => u \in S.ini
OkAll(S) == \A u \in VF : OkVf(S, u)
OkBut(S, v) == \A u \in VF : u # v => OkVf(S, u)
Tame(S) == \A u \in VF : u \in S.ent => S.stat[u] = "ACTIVE"
Gone(S, u) == S.stat[u] \in {"AVAIL", "UNAVAIL"}
Wiped(S) == S.cur = PF /\ S.st = "SAVED" /\ \A u \in VF : u \notin S.ent /\ Gone(S, u)

\* Between events.
Settled(S, u) ==
  IF u = S.fa THEN u \notin S.ent /\ (S.ff # "fini" => S.stat[u] # "ACTIVE" /\ u \in S.ini)
  ELSE OkVf(S, u)
Final(S) == (\A u \in VF : Settled(S, u)) /\ (S.fa = None => Ready(S))

\* Who hangs the engines is the only VF that may be in disorder.
AutoPre(S) ==
  /\ Tame(S) /\ Down(S)
  /\ \A u \in VF : OkVf(S, u) \/ (S.st = "ABNORMAL" /\ u = S.cur)
OrphanPre(S, v) ==
  /\ Tame(S) /\ OkBut(S, v) /\ Down(S)
  /\ S.stat[v] = "ACTIVE" => Off(S) \/ S.cur \in {PF, v}
  /\ S.stat[v] # "ACTIVE" => OkVf(S, v)

\* What an operation needs.
Pre(o, S) ==
  /\ o.op \in {"stop", "start"} => Ready(S)
  /\ o.op = "save" => (Clean(S) => S.st \in {"LOADED", "CLEAR"})
  /\ o.op \in {"load", "init", "saved", "turn"} => Down(S)
  /\ o.op = "switch" => (Clean(S) => S.st # "ABNORMAL")
  /\ o.op = "add" => o.f \notin S.ent
  /\ o.op = "wgr" => Tame(S) /\ Ready(S)
  /\ o.op \in {"gpureset", "resetvf"} => Tame(S)
  /\ o.op = "expel" => /\ Tame(S) /\ S.cur = PF /\ S.st = "SAVED"
                       /\ \A u \in VF : u < o.f => Gone(S, u)
  /\ o.op = "auto" => AutoPre(S)
  /\ o.op \in {"loop", "fini"} => OkAll(S) /\ Down(S)
  /\ o.op = "orphan" => OrphanPre(S, o.f)
  /\ o.op = "timeout" => /\ S.fa = o.f /\ S.cur = o.f /\ S.run = "off"
                         /\ o.f \notin S.ent /\ OkBut(S, o.f)

\* What an operation leaves alone.  While the world switch runs, its thread
\* may move the engines before the operation.
Stays(S, T) ==
  /\ Clean(T) => Clean(S)
  /\ S.run = "off" => T.run = "off"
Held(S, T) == Stays(S, T) /\ T.fa = S.fa /\ T.ff = S.ff
Vfs(S, T) == T.ent = S.ent /\ T.ini = S.ini /\ T.stat = S.stat
Engines(S, T) ==
  /\ Ready(S) => Ready(T)
  /\ S.run = "off" => T.st = S.st /\ T.cur = S.cur
On(T, f, x) == T.cur = f /\ T.st = x
Failed(S, T) == Held(S, T) /\ ~Clean(T) /\ T.st = "ABNORMAL"

\* What each operation achieves and how it fails.
AfterNop(S, T) == Held(S, T) /\ Vfs(S, T) /\ Engines(S, T)
AfterStop(S, T) == Held(S, T) /\ Vfs(S, T) /\ T.run = "off" /\ T.st # "LOADED" /\ Down(T)
AfterStart(S, T) ==
  (Clean(T) => Clean(S)) /\ T.fa = S.fa /\ T.ff = S.ff /\ Vfs(S, T) /\ Ready(T)
AfterSave(S, T) ==
  Held(S, T) /\ Vfs(S, T) /\ On(T, S.cur, IF S.st = "LOADED" THEN "SAVED" ELSE S.st)
FailSave(S, T) == Failed(S, T) /\ Vfs(S, T) /\ T.cur = S.cur
AfterLoad(S, T, g) == Held(S, T) /\ Vfs(S, T) /\ On(T, g, "LOADED")
FailLoad(S, T, g) == Failed(S, T) /\ Vfs(S, T) /\ T.cur = g
Inits(S, T, g) == T.ent = S.ent /\ T.ini = S.ini \union {g} /\ T.stat = S.stat
AfterInit(S, T, g) == Held(S, T) /\ Inits(S, T, g) /\ On(T, g, "LOADED")
FailInit(S, T, g) == Failed(S, T) /\ Inits(S, T, g) /\ T.cur = g
AfterAdd(S, T, v) ==
  /\ Held(S, T) /\ Engines(S, T)
  /\ T.ent = S.ent \union {v} /\ T.ini = S.ini /\ T.stat = [S.stat EXCEPT ![v] = "ACTIVE"]
AfterRemove(S, T, v) ==
  /\ Held(S, T) /\ (Ready(S) => Ready(T))
  /\ S.run = "off" => /\ T.cur = S.cur
                      /\ IF v \in S.ent /\ S.cur = v /\ S.st = "LOADED"
                         THEN T.st = "SAVED" \/ Failed(S, T) ELSE T.st = S.st
  /\ T.ent = S.ent \ {v} /\ T.stat = S.stat
  /\ T.ini = IF v \notin S.ent \/ S.stat[v] = "SUSPEND" THEN S.ini ELSE S.ini \ {v}
AfterSet(S, T, v, x) ==
  /\ Held(S, T) /\ Engines(S, T)
  /\ T.ent = S.ent /\ T.ini = S.ini /\ T.stat = [S.stat EXCEPT ![v] = x]
AfterWgr(S, T) == Held(S, T) /\ T.run = "off" /\ Wiped(T)
Cycled(S, T) == T.cur = PF /\ T.ent = S.ent /\ T.stat = S.stat /\ T.ini = S.ini \ {S.cur}
AfterReset(S, T) == Held(S, T) /\ (Wiped(T) \/ (Cycled(S, T) /\ T.st = "SAVED"))
FailReset(S, T) == Failed(S, T) /\ Cycled(S, T)
AfterAuto(S, T) ==
  /\ Held(S, T)
  /\ IF S.st = "ABNORMAL" THEN OkAll(T) /\ On(T, PF, "SAVED") /\ ~Clean(T)
     ELSE Vfs(S, T) /\ On(T, S.cur, S.st)
FailAuto(S, T) == Failed(S, T) /\ OkAll(T) /\ T.cur = PF
Switched(S, T, g) ==
  T.ent = S.ent /\ (T.ini = S.ini \/ T.ini = S.ini \union {g}) /\ T.stat = S.stat
AfterSwitch(S, T, g) == Held(S, T) /\ Switched(S, T, g) /\ On(T, g, "LOADED")
FailSwitch(S, T, g) ==
  Failed(S, T) /\ Switched(S, T, g) /\ (T.cur = g \/ (T.cur = S.cur /\ ~Off(S)))
AfterSaved(S, T, v) ==
  /\ Held(S, T) /\ Vfs(S, T)
  /\ On(T, v, "SAVED") \/ (On(T, S.cur, S.st) /\ (S.stat[v] # "ACTIVE" \/ v \notin S.ini))
FailSaved(S, T, v) == Failed(S, T) /\ Vfs(S, T) /\ T.cur = v
AfterTurn(S, T) == Held(S, T) /\ Vfs(S, T) /\ Down(T)
FailTurn(S, T) == Failed(S, T) /\ Vfs(S, T)
AfterLoop(S, T) == Held(S, T) /\ OkAll(T) /\ Down(T)
FailLoop(S, T) == Failed(S, T) /\ OkAll(T)
AfterOrphan(S, T, v) == Held(S, T) /\ OkAll(T) /\ T.stat[v] # "ACTIVE" /\ Down(T)
FailOrphan(S, T, v) == Failed(S, T) /\ OkAll(T) /\ T.stat[v] # "ACTIVE"
AfterFini(S, T, v) == Held(S, T) /\ OkBut(T, v) /\ v \notin T.ent /\ On(T, v, "LOADED")
FailFini(S, T) == Held(S, T) /\ AutoPre(T)
AfterGrant(S, T, v, x) == Stays(S, T) /\ Vfs(S, T) /\ Engines(S, T) /\ T.fa = v /\ T.ff = x
AfterEnd(S, T) == Stays(S, T) /\ Vfs(S, T) /\ Engines(S, T) /\ T.fa = None
AfterTimeout(S, T) == OkAll(T) /\ T.fa = None /\ Ready(T)

NopOps == {"shutdown", "lock", "unlock", "shut", "crash", "idle"}
SetOps == {"AVAIL", "SUSPEND", "UNAVAIL"}
After(o, S, T) ==
  /\ o.op \in NopOps => AfterNop(S, T)
  /\ o.op = "stop" => AfterStop(S, T)
  /\ o.op = "start" => AfterStart(S, T)
  /\ o.op = "save" => AfterSave(S, T)
  /\ o.op = "load" => AfterLoad(S, T, o.f)
  /\ o.op = "init" => AfterInit(S, T, o.f)
  /\ o.op = "add" => AfterAdd(S, T, o.f)
  /\ o.op = "remove" => AfterRemove(S, T, o.f)
  /\ o.op \in SetOps => AfterSet(S, T, o.f, o.op)
  /\ o.op \in {"wgr", "gpureset", "expel"} => AfterWgr(S, T)
  /\ o.op = "resetvf" => AfterReset(S, T)
  /\ o.op = "auto" => AfterAuto(S, T)
  /\ o.op = "switch" => AfterSwitch(S, T, o.f)
  /\ o.op = "saved" => AfterSaved(S, T, o.f)
  /\ o.op = "turn" => AfterTurn(S, T)
  /\ o.op = "loop" => AfterLoop(S, T)
  /\ o.op = "orphan" => AfterOrphan(S, T, o.f)
  /\ o.op = "fini" => AfterFini(S, T, o.f)
  /\ o.op = "grantinit" => AfterGrant(S, T, o.f, "init")
  /\ o.op = "grantfini" => AfterGrant(S, T, o.f, "fini")
  /\ o.op = "endfa" => AfterEnd(S, T)
  /\ o.op = "timeout" => AfterTimeout(S, T)
Fail(o, S, T) ==
  /\ o.op \in Raising
  /\ o.op = "save" => FailSave(S, T)
  /\ o.op = "load" => FailLoad(S, T, o.f)
  /\ o.op = "init" => FailInit(S, T, o.f)
  /\ o.op = "resetvf" => FailReset(S, T)
  /\ o.op = "auto" => FailAuto(S, T)
  /\ o.op = "switch" => FailSwitch(S, T, o.f)
  /\ o.op = "saved" => FailSaved(S, T, o.f)
  /\ o.op = "turn" => FailTurn(S, T)
  /\ o.op = "loop" => FailLoop(S, T)
  /\ o.op = "orphan" => FailOrphan(S, T, o.f)
  /\ o.op = "fini" => FailFini(S, T)

-----------------------------------------------------------------------------
(* What may be done from where.                                            *)

\* What the switching thread may make of the world.
Drifts(S, T) ==
  \/ T = S
  \/ /\ S.run = "on" /\ Vfs(S, T) /\ T.fa = S.fa /\ T.ff = S.ff
     /\ Clean(T) => Clean(S)
     /\ Ready(T)

\* The branch that a failure leads to.
Landing(s) ==
  LET i == SelectInSeq(s, LAMBDA o : o.op = "catch")
  IN IF i = 0 THEN <<>> ELSE s[i].h \o SubSeq(s, i + 1, Len(s))

\* The tests of the handlers.
Holds(o, S) ==
  /\ o.op = "ifbad" => S.st = "ABNORMAL"
  /\ o.op = "ifhung" => S.st = "ABNORMAL" /\ S.cur = o.f
  /\ o.op = "ifactive" => S.stat[o.f] = "ACTIVE"

Jumping == Tests \union {"catch", "return"}
Goes(N, s, S) ==
  LET o == Head(s)
      r == Tail(s)
  IN
  /\ s = <<>> => Final(S)
  /\ s # <<>> /\ o.op = "return" => <<<<>>, S>> \in N
  /\ s # <<>> /\ o.op = "catch" => <<r, S>> \in N
  /\ s # <<>> /\ o.op \in Tests => <<IF Holds(o, S) THEN o.h \o r ELSE r, S>> \in N
  /\ s # <<>> /\ o.op \notin Jumping =>
       /\ Pre(o, S)
       /\ \A T \in World : /\ After(o, S, T) => <<r, T>> \in N
                           /\ Fail(o, S, T) => <<Landing(r), T>> \in N

\* A set of pairs that the operations do not leave, and the largest of them:
\* from S the operations s meet only what they need and end as they should.
Invariant(N) ==
  /\ N \subseteq Seq(AnyOp) \X World
  /\ \A s \in Seq(AnyOp), S, T \in World : <<s, S>> \in N /\ Drifts(S, T) => Goes(N, s, T)
Good(s, S) == \E N : Invariant(N) /\ <<s, S>> \in N
GoodPairs == {p \in Seq(AnyOp) \X World : Good(p[1], p[2])}

LEMMA PairGood ==
  ASSUME NEW s \in Seq(AnyOp), NEW S \in World
  PROVE  <<s, S>> \in GoodPairs <=> Good(s, S)
<1>1. <<s, S>> \in Seq(AnyOp) \X World /\ <<s, S>>[1] = s /\ <<s, S>>[2] = S
  OBVIOUS
<1> QED BY <1>1, Zenon DEF GoodPairs

LEMMA GoesMono ==
  ASSUME NEW M, NEW N, M \subseteq N, NEW s, NEW S, Goes(M, s, S)
  PROVE  Goes(N, s, S)
BY Zenon DEF Goes

LEMMA DriftChain ==
  ASSUME NEW S \in World, NEW T \in World, NEW U \in World, Drifts(S, T), Drifts(T, U)
  PROVE  Drifts(S, U)
BY DEF Drifts, Vfs

LEMMA PairsInvariant == Invariant(GoodPairs)
<1>1. GoodPairs \subseteq Seq(AnyOp) \X World
  BY DEF GoodPairs
<1>2. ASSUME NEW s \in Seq(AnyOp), NEW S \in World, NEW T \in World, <<s, S>> \in GoodPairs, Drifts(S, T)
      PROVE  Goes(GoodPairs, s, T)
  <2>1. PICK N : Invariant(N) /\ <<s, S>> \in N
    BY <1>2, PairGood DEF Good
  <2>2. N \subseteq GoodPairs
    <3>1. ASSUME NEW p \in N PROVE p \in GoodPairs
      <4>1. p \in Seq(AnyOp) \X World
        BY <2>1 DEF Invariant
      <4>2. p = <<p[1], p[2]>>
        BY <4>1
      <4>3. Good(p[1], p[2])
        BY <2>1, <4>2 DEF Good
      <4> QED BY <4>1, <4>3 DEF GoodPairs
    <3> QED BY <3>1
  <2>3. Goes(N, s, T)
    BY <1>2, <2>1 DEF Invariant
  <2> QED BY <2>2, <2>3, GoesMono
<1> QED BY <1>1, <1>2 DEF Invariant

\* What is good goes on to what is good ...
LEMMA GoodGoes ==
  ASSUME NEW s \in Seq(AnyOp), NEW S \in World, NEW T \in World, Good(s, S), Drifts(S, T)
  PROVE  Goes(GoodPairs, s, T)
BY PairsInvariant, PairGood DEF Invariant

\* ... and what goes on to what is good is good.
LEMMA GoesGood ==
  ASSUME NEW s \in Seq(AnyOp), NEW S \in World,
         \A T \in World : Drifts(S, T) => Goes(GoodPairs, s, T)
  PROVE  Good(s, S)
<1> DEFINE D == {T \in World : Drifts(S, T)}
           M == {s} \X D
           N == GoodPairs \union M
<1>1. N \subseteq Seq(AnyOp) \X World
  BY DEF GoodPairs
<1>2. GoodPairs \subseteq N
  OBVIOUS
<1>3. ASSUME NEW r \in Seq(AnyOp), NEW R \in World, NEW T \in World, <<r, R>> \in N, Drifts(R, T)
      PROVE  Goes(N, r, T)
  <2>1. CASE <<r, R>> \in GoodPairs
    <3>1. Goes(GoodPairs, r, T)
      BY <1>3, <2>1, PairsInvariant DEF Invariant
    <3> QED BY <3>1, <1>2, GoesMono
  <2>2. CASE <<r, R>> \in M
    <3>1. r = s /\ R \in World /\ Drifts(S, R)
      BY <2>2
    <3>2. Drifts(S, T)
      BY <1>3, <3>1, DriftChain
    <3>3. Goes(GoodPairs, r, T)
      BY <3>1, <3>2
    <3> QED BY <3>3, <1>2, GoesMono
  <2> QED BY <1>3, <2>1, <2>2
<1>4. Invariant(N)
  <2> HIDE DEF N
  <2> QED BY <1>1, <1>3 DEF Invariant
<1>5. Drifts(S, S)
  BY DEF Drifts
<1>6. <<s, S>> \in N
  BY <1>5
<1> QED
  <2> HIDE DEF N
  <2> QED BY <1>4, <1>6 DEF Good

\* The switching thread may go on where it is free to.
LEMMA GoodDrifts ==
  ASSUME NEW s \in Seq(AnyOp), NEW S \in World, NEW T \in World, Good(s, S), Drifts(S, T)
  PROVE  Good(s, T)
<1>1. ASSUME NEW U \in World, Drifts(T, U) PROVE Goes(GoodPairs, s, U)
  BY <1>1, DriftChain, GoodGoes
<1> QED BY <1>1, GoesGood

LEMMA StoppedStays ==
  ASSUME NEW S \in World, NEW T \in World, S.run = "off", Drifts(S, T)
  PROVE  T = S
BY DEF Drifts

-----------------------------------------------------------------------------
(* Sequences, one operation at a time.                                     *)

LEMMA ConsHead ==
  ASSUME NEW s \in Seq(AnyOp), NEW o \in AnyOp
  PROVE  /\ Cons(o, s) \in Seq(AnyOp) /\ Cons(o, s) # <<>>
         /\ Head(Cons(o, s)) = o /\ Tail(Cons(o, s)) = s
<1>1. <<o>> \in Seq(AnyOp) /\ <<o>> # <<>> /\ Len(<<o>>) = 1 /\ <<o>>[1] = o
  OBVIOUS
<1>2. PICK c : c = Cons(o, s)
  OBVIOUS
<1>3. /\ c \in Seq(AnyOp) /\ Len(c) = Len(s) + 1 /\ c[1] = o
      /\ \A i \in 2 .. Len(s) + 1 : c[i] = s[i - 1]
  BY <1>2, ConsFacts, Zenon
<1>4. c # <<>>
  BY <1>3
<1>5. /\ Head(c) = c[1] /\ Tail(c) \in Seq(AnyOp) /\ Len(Tail(c)) = Len(c) - 1
      /\ \A i \in 1 .. Len(c) - 1 : Tail(c)[i] = c[i + 1]
  BY <1>3, <1>4, TailFacts
<1>6. Len(Tail(c)) = Len(s) /\ \A i \in 1 .. Len(s) : Tail(c)[i] = s[i]
  BY <1>3, <1>5
<1>7. Tail(c) = s
  BY <1>5, <1>6, SeqEqual
<1> QED BY <1>2, <1>3, <1>4, <1>5, <1>7

LEMMA ConsOf ==
  ASSUME NEW s \in Seq(AnyOp), s # <<>>
  PROVE  s = Cons(Head(s), Tail(s)) /\ Head(s) \in AnyOp /\ Tail(s) \in Seq(AnyOp)
<1>1. /\ Head(s) \in AnyOp /\ Head(s) = s[1] /\ Tail(s) \in Seq(AnyOp) /\ Len(Tail(s)) = Len(s) - 1
      /\ Len(s) \in Nat /\ \A i \in 1 .. Len(s) - 1 : Tail(s)[i] = s[i + 1]
  BY TailFacts
<1>2. PICK c, o, r : c = Cons(o, r) /\ o = Head(s) /\ r = Tail(s)
  OBVIOUS
<1>9. o \in AnyOp /\ r \in Seq(AnyOp)
  BY <1>1, <1>2
<1>8. /\ Cons(o, r) \in Seq(AnyOp) /\ Len(Cons(o, r)) = Len(r) + 1 /\ Cons(o, r)[1] = o
      /\ \A i \in 2 .. Len(r) + 1 : Cons(o, r)[i] = r[i - 1]
  BY <1>9, ConsFacts
<1>3. /\ c \in Seq(AnyOp) /\ Len(c) = Len(r) + 1 /\ c[1] = o
      /\ \A i \in 2 .. Len(r) + 1 : c[i] = r[i - 1]
  BY <1>8, <1>2
<1>4. Len(c) = Len(s)
  BY <1>1, <1>2, <1>3
<1>5. \A i \in 1 .. Len(s) : c[i] = s[i]
  <2>1. ASSUME NEW i \in 1 .. Len(s), i # 1 PROVE c[i] = s[i]
    <3>1. i \in 2 .. Len(r) + 1 /\ i - 1 \in 1 .. Len(s) - 1 /\ (i - 1) + 1 = i
      BY <1>1, <1>2, <2>1
    <3> QED BY <1>1, <1>2, <1>3, <3>1
  <2> QED BY <2>1, <1>1, <1>2, <1>3
<1>6. c = s
  BY <1>3, <1>4, <1>5, SeqEqual
<1> QED BY <1>1, <1>2, <1>6

\* A sequence written out, in front of another.
LEMMA ConsCat ==
  ASSUME NEW s \in Seq(AnyOp), NEW u \in Seq(AnyOp), NEW o \in AnyOp
  PROVE  /\ Cons(o, s) \o u = Cons(o, s \o u)
         /\ <<o>> \o s = Cons(o, s)
         /\ <<>> \o s = s
         /\ s \o u \in Seq(AnyOp)
<1>1. <<o>> \in Seq(AnyOp)
  OBVIOUS
<1>2. (<<o>> \o s) \o u = <<o>> \o (s \o u)
  BY <1>1, ConcatAssociative
<1> QED BY <1>2 DEF Cons

LEMMA Written ==
  /\ \A a \in AnyOp : <<a>> = Cons(a, <<>>)
  /\ \A a, b \in AnyOp : <<a, b>> = Cons(a, <<b>>)
  /\ \A a, b, c \in AnyOp : <<a, b, c>> = Cons(a, <<b, c>>)
  /\ \A a, b, c, d \in AnyOp : <<a, b, c, d>> = Cons(a, <<b, c, d>>)
  /\ \A a, b, c, d, e \in AnyOp : <<a, b, c, d, e>> = Cons(a, <<b, c, d, e>>)
  /\ \A a, b, c, d, e, f \in AnyOp : <<a, b, c, d, e, f>> = Cons(a, <<b, c, d, e, f>>)
  /\ \A a, b, c, d, e, f, g \in AnyOp : <<a, b, c, d, e, f, g>> = Cons(a, <<b, c, d, e, f, g>>)
<1>1. ASSUME NEW a \in AnyOp PROVE <<a>> = Cons(a, <<>>)
  BY DEF Cons
<1>2. ASSUME NEW a \in AnyOp, NEW b \in AnyOp PROVE <<a, b>> = Cons(a, <<b>>)
  <2>1. PICK t : t = <<b>>
    OBVIOUS
  <2>2. t \in Seq(AnyOp) /\ Len(t) = 1 /\ t[1] = b
    BY <2>1
  <2>3. /\ Cons(a, t) \in Seq(AnyOp) /\ Len(Cons(a, t)) = Len(t) + 1 /\ Cons(a, t)[1] = a
        /\ \A i \in 2 .. Len(t) + 1 : Cons(a, t)[i] = t[i - 1]
    BY <2>2, ConsFacts, Zenon
  <2>4. PICK c2 : c2 = Cons(a, t)
    OBVIOUS
  <2>5. c2 \in Seq(AnyOp) /\ Len(c2) = 2 /\ c2[1] = a /\ c2[2] = b
    BY <2>2, <2>3, <2>4
  <2>6. PICK d2 : d2 = <<a, b>>
    OBVIOUS
  <2>7. d2 \in Seq(AnyOp) /\ Len(d2) = 2 /\ d2[1] = a /\ d2[2] = b
    BY <2>6
  <2>8. c2 = d2
    BY <2>5, <2>7, SeqEqual
  <2> QED BY <2>1, <2>4, <2>6, <2>8
<1>3. ASSUME NEW a \in AnyOp, NEW b \in AnyOp, NEW c \in AnyOp PROVE <<a, b, c>> = Cons(a, <<b, c>>)
  BY DEF Cons
<1>4. ASSUME NEW a \in AnyOp, NEW b \in AnyOp, NEW c \in AnyOp, NEW d \in AnyOp
      PROVE  <<a, b, c, d>> = Cons(a, <<b, c, d>>)
  BY DEF Cons
<1>5. ASSUME NEW a \in AnyOp, NEW b \in AnyOp, NEW c \in AnyOp, NEW d \in AnyOp, NEW e \in AnyOp
      PROVE  <<a, b, c, d, e>> = Cons(a, <<b, c, d, e>>)
  BY DEF Cons
<1>6. ASSUME NEW a \in AnyOp, NEW b \in AnyOp, NEW c \in AnyOp, NEW d \in AnyOp, NEW e \in AnyOp,
             NEW f \in AnyOp
      PROVE  <<a, b, c, d, e, f>> = Cons(a, <<b, c, d, e, f>>)
  BY DEF Cons
<1>7. ASSUME NEW a \in AnyOp, NEW b \in AnyOp, NEW c \in AnyOp, NEW d \in AnyOp, NEW e \in AnyOp,
             NEW f \in AnyOp, NEW g \in AnyOp
      PROVE  <<a, b, c, d, e, f, g>> = Cons(a, <<b, c, d, e, f, g>>)
  BY DEF Cons
<1> QED BY <1>1, <1>2, <1>3, <1>4, <1>5, <1>6, <1>7

LEMMA MinIs ==
  ASSUME NEW I, I \subseteq Nat, NEW m \in I, \A y \in I : m <= y
  PROVE  Min(I) = m
<1>1. Min(I) \in I /\ \A y \in I : Min(I) <= y
  BY MinFacts
<1>2. Min(I) \in Nat /\ m \in Nat /\ Min(I) <= m /\ m <= Min(I)
  BY <1>1
<1> QED BY <1>2

\* Where the first branch is.
LEMMA LandingIs ==
  ASSUME NEW s \in Seq(AnyOp)
  PROVE  /\ (\A i \in 1 .. Len(s) : s[i].op # "catch") => Landing(s) = <<>>
         /\ \A m \in 1 .. Len(s) :
              s[m].op = "catch" /\ (\A i \in 1 .. m - 1 : s[i].op # "catch") =>
                Landing(s) = s[m].h \o SubSeq(s, m + 1, Len(s))
<1> DEFINE I == {i \in 1 .. Len(s) : s[i].op = "catch"}
<1>1. Landing(s) = IF (IF I # {} THEN Min(I) ELSE 0) = 0 THEN <<>>
                   ELSE s[Min(I)].h \o SubSeq(s, Min(I) + 1, Len(s))
  BY DEF Landing, SelectInSeq
<1>2. ASSUME \A i \in 1 .. Len(s) : s[i].op # "catch" PROVE Landing(s) = <<>>
  <2>1. I = {}
    BY <1>2
  <2> QED BY <1>1, <2>1
<1>3. ASSUME NEW m \in 1 .. Len(s), s[m].op = "catch", \A i \in 1 .. m - 1 : s[i].op # "catch"
      PROVE  Landing(s) = s[m].h \o SubSeq(s, m + 1, Len(s))
  <2>1. m \in I /\ I \subseteq Nat /\ Len(s) \in Nat
    BY <1>3
  <2>2. ASSUME NEW y \in I PROVE m <= y
    <3>1. y \in 1 .. Len(s) /\ s[y].op = "catch"
      OBVIOUS
    <3> HIDE DEF I
    <3> QED BY <3>1, <1>3
  <2>3. Min(I) = m /\ I # {} /\ m # 0
    <3> HIDE DEF I
    <3>1. Min(I) = m
      BY <2>1, <2>2, MinIs
    <3> QED BY <3>1, <2>1
  <2> HIDE DEF I
  <2> QED BY <1>1, <2>3
<1> QED BY <1>2, <1>3

LEMMA FirstBranch ==
  ASSUME NEW s \in Seq(AnyOp)
  PROVE  \/ \A i \in 1 .. Len(s) : s[i].op # "catch"
         \/ \E m \in 1 .. Len(s) : s[m].op = "catch" /\ \A i \in 1 .. m - 1 : s[i].op # "catch"
<1> DEFINE I == {i \in 1 .. Len(s) : s[i].op = "catch"}
<1>1. CASE I = {}
  BY <1>1
<1>2. CASE I # {}
  <2>1. I \subseteq Nat /\ Len(s) \in Nat
    OBVIOUS
  <2>2. Min(I) \in I /\ \A y \in I : Min(I) <= y
    BY <1>2, <2>1, MinFacts
  <2>3. PICK m \in I : \A y \in I : m <= y
    BY <2>2
  <2>4. ASSUME NEW i \in 1 .. m - 1 PROVE s[i].op # "catch"
    <3>1. i \in 1 .. Len(s) /\ ~(m <= i)
      BY <2>3
    <3> QED BY <3>1, <2>3
  <2> QED BY <2>3, <2>4
<1> QED BY <1>1, <1>2

LEMMA LandingType ==
  ASSUME NEW s \in Seq(AnyOp)
  PROVE  Landing(s) \in Seq(AnyOp)
<1>1. CASE \A i \in 1 .. Len(s) : s[i].op # "catch"
  <2>1. Landing(s) = <<>>
    BY <1>1, LandingIs
  <2> QED BY <2>1
<1>2. ASSUME NEW m \in 1 .. Len(s), s[m].op = "catch", \A i \in 1 .. m - 1 : s[i].op # "catch"
      PROVE  Landing(s) \in Seq(AnyOp)
  <2>1. Landing(s) = s[m].h \o SubSeq(s, m + 1, Len(s))
    BY <1>2, LandingIs
  <2>2. s[m] \in AnyOp
    BY <1>2
  <2>3. s[m].h \in Seq(AnyOp)
    BY <2>2, OpFacts, Levels
  <2>4. SubSeq(s, m + 1, Len(s)) \in Seq(AnyOp)
    BY <1>2
  <2> QED BY <2>1, <2>3, <2>4, ConcatProperties
<1> QED BY <1>1, <1>2, FirstBranch

LEMMA LandingCons ==
  ASSUME NEW s \in Seq(AnyOp), NEW o \in AnyOp
  PROVE  /\ o.op = "catch" => Landing(Cons(o, s)) = o.h \o s
         /\ o.op # "catch" => Landing(Cons(o, s)) = Landing(s)
<1>1. PICK c : c = Cons(o, s)
  OBVIOUS
<1>9. Len(s) \in Nat
  OBVIOUS
<1>8. /\ c \in Seq(AnyOp) /\ Len(c) = Len(s) + 1 /\ c[1] = o
      /\ \A i \in 2 .. Len(s) + 1 : c[i] = s[i - 1]
  BY <1>1, ConsFacts, Zenon
<1>2. /\ c \in Seq(AnyOp) /\ Len(c) = Len(s) + 1 /\ c[1] = o /\ Len(s) \in Nat
      /\ \A i \in 2 .. Len(s) + 1 : c[i] = s[i - 1]
  BY <1>8, <1>9
<1>3. ASSUME NEW m \in 1 .. Len(s) + 1 PROVE SubSeq(c, m + 1, Len(c)) = SubSeq(s, m, Len(s))
  <2>1. PICK x, y : x = SubSeq(c, m + 1, Len(c)) /\ y = SubSeq(s, m, Len(s))
    OBVIOUS
  <2>2. /\ x \in Seq(AnyOp) /\ Len(x) = Len(s) + 1 - m
        /\ \A i \in 1 .. Len(s) + 1 - m : x[i] = c[i + m]
    BY <1>2, <2>1
  <2>3. /\ y \in Seq(AnyOp) /\ Len(y) = Len(s) + 1 - m
        /\ \A i \in 1 .. Len(s) + 1 - m : y[i] = s[i + m - 1]
    BY <1>2, <2>1
  <2>4. \A i \in 1 .. Len(s) + 1 - m : x[i] = y[i]
    <3>1. ASSUME NEW i \in 1 .. Len(s) + 1 - m PROVE x[i] = y[i]
      <4>1. PICK k \in 2 .. Len(s) + 1 : k = i + m
        BY <1>2
      <4>2. x[i] = c[k]
        BY <2>2, <4>1
      <4>3. c[k] = s[k - 1] /\ k - 1 = i + m - 1
        BY <1>2, <4>1
      <4>4. y[i] = s[i + m - 1]
        BY <2>3
      <4> QED BY <4>2, <4>3, <4>4, Zenon
    <3> QED BY <3>1
  <2>5. x = y
    BY <2>2, <2>3, <2>4, SeqEqual
  <2> QED BY <2>1, <2>5
<1>4. CASE o.op = "catch"
  <2>1. Landing(c) = o.h \o SubSeq(c, 1 + 1, Len(c))
    <3>1. 1 \in 1 .. Len(c) /\ c[1].op = "catch" /\ \A i \in 1 .. 1 - 1 : c[i].op # "catch"
      BY <1>2, <1>4
    <3> QED BY <1>2, <3>1, LandingIs
  <2>2. SubSeq(c, 1 + 1, Len(c)) = SubSeq(s, 1, Len(s))
    BY <1>2, <1>3
  <2>3. SubSeq(s, 1, Len(s)) = s
    BY SubSeqFull, Zenon
  <2>4. Landing(c) = o.h \o s
    BY <2>1, <2>2, <2>3, Zenon
  <2> QED BY <1>1, <1>4, <2>4
<1>5. CASE o.op # "catch"
  <2>1. CASE \A i \in 1 .. Len(s) : s[i].op # "catch"
    <3>1. ASSUME NEW i \in 1 .. Len(c) PROVE c[i].op # "catch"
      <4>1. i # 1 => i \in 2 .. Len(s) + 1 /\ i - 1 \in 1 .. Len(s)
        BY <1>2
      <4> QED BY <4>1, <1>2, <1>5, <2>1
    <3> QED BY <1>1, <1>2, <1>5, <2>1, <3>1, LandingIs
  <2>2. ASSUME NEW m \in 1 .. Len(s), s[m].op = "catch", \A i \in 1 .. m - 1 : s[i].op # "catch"
        PROVE  Landing(c) = Landing(s)
    <3>1. m + 1 \in 1 .. Len(c) /\ c[m + 1] = s[m]
      BY <1>2
    <3>2. ASSUME NEW i \in 1 .. (m + 1) - 1 PROVE c[i].op # "catch"
      <4>1. i # 1 => i \in 2 .. Len(s) + 1 /\ i - 1 \in 1 .. m - 1
        BY <1>2, <2>2
      <4> QED BY <4>1, <1>2, <1>5, <2>2
    <3>3. Landing(c) = c[m + 1].h \o SubSeq(c, (m + 1) + 1, Len(c))
      BY <1>2, <2>2, <3>1, <3>2, LandingIs
    <3>4. SubSeq(c, (m + 1) + 1, Len(c)) = SubSeq(s, m + 1, Len(s))
      <4>1. m + 1 \in 1 .. Len(s) + 1
        BY <1>2
      <4> QED BY <4>1, <1>3
    <3>5. Landing(s) = s[m].h \o SubSeq(s, m + 1, Len(s))
      BY <2>2, LandingIs
    <3> QED BY <3>1, <3>3, <3>4, <3>5
  <2> QED BY <1>1, <1>5, <2>1, <2>2, FirstBranch
<1> QED BY <1>4, <1>5

-----------------------------------------------------------------------------
(* What is good, by the first operation.                                   *)

LEMMA GoodUnfold ==
  ASSUME NEW s \in Seq(AnyOp), s # <<>>, NEW S \in World, Good(s, S), NEW o, o = Head(s), NEW r, r = Tail(s)
  PROVE  /\ o.op = "return" => Good(<<>>, S)
         /\ o.op = "catch" => Good(r, S)
         /\ o.op \in Tests => Good(IF Holds(o, S) THEN o.h \o r ELSE r, S)
         /\ o.op \notin Jumping =>
              /\ Pre(o, S)
              /\ \A T \in World : After(o, S, T) => Good(r, T)
              /\ \A T \in World : Fail(o, S, T) => Good(Landing(r), T)
<1>1. Goes(GoodPairs, s, S)
  <2>1. Drifts(S, S)
    BY DEF Drifts
  <2> QED BY <2>1, GoodGoes
<1>2. r \in Seq(AnyOp) /\ o \in AnyOp
  BY ConsOf
<1>3. o.h \in Seq(AnyOp)
  BY <1>2, OpFacts, Levels
<1>9. <<>> \in Seq(AnyOp)
  OBVIOUS
<1>4. o.h \o r \in Seq(AnyOp) /\ Landing(r) \in Seq(AnyOp) /\ <<>> \in Seq(AnyOp)
  BY <1>2, <1>3, <1>9, LandingType, ConcatProperties
<1>5. o.op = "return" => Good(<<>>, S)
  BY <1>1, <1>4, PairGood DEF Goes
<1>6. o.op = "catch" => Good(r, S)
  BY <1>1, <1>2, PairGood DEF Goes
<1>7. o.op \in Tests => Good(IF Holds(o, S) THEN o.h \o r ELSE r, S)
  BY <1>1, <1>2, <1>4, PairGood DEF Goes
<1>8. ASSUME o.op \notin Jumping
      PROVE  /\ Pre(o, S)
             /\ \A T \in World : After(o, S, T) => Good(r, T)
             /\ \A T \in World : Fail(o, S, T) => Good(Landing(r), T)
  <2>1. /\ Pre(o, S)
        /\ \A T \in World : After(o, S, T) => <<r, T>> \in GoodPairs
        /\ \A T \in World : Fail(o, S, T) => <<Landing(r), T>> \in GoodPairs
    BY <1>1, <1>8, Zenon DEF Goes
  <2> QED BY <2>1, <1>2, <1>4, PairGood
<1> QED BY <1>5, <1>6, <1>7, <1>8

\* The end of a handler.
LEMMA DoEnd ==
  ASSUME NEW S \in World, Final(S)
  PROVE  Good(<<>>, S)
<1>1. ASSUME NEW T \in World, Drifts(S, T) PROVE Goes(GoodPairs, <<>>, T)
  <2>1. Final(T)
    <3>1. CASE T = S
      BY <3>1
    <3>2. CASE Vfs(S, T) /\ T.fa = S.fa /\ T.ff = S.ff /\ Ready(T)
      BY <3>2 DEF Final, Settled, OkVf, Vfs
    <3> QED BY <1>1, <3>1, <3>2 DEF Drifts
  <2> QED BY <2>1 DEF Goes
<1>2. <<>> \in Seq(AnyOp)
  OBVIOUS
<1> QED BY <1>1, <1>2, GoesGood

LEMMA DoReturn ==
  ASSUME NEW S \in World, Final(S), NEW s \in Seq(AnyOp), Return \in AnyOp
  PROVE  Good(Cons(Return, s), S)
<1>0. Return.op = "return"
  BY DEF Return, Op
<1>9. <<>> \in Seq(AnyOp) /\ Good(<<>>, S)
  BY DoEnd
<1>1. ASSUME NEW T \in World, Drifts(S, T) PROVE Goes(GoodPairs, Cons(Return, s), T)
  <2>1. Good(<<>>, T)
    BY <1>1, <1>9, GoodDrifts
  <2>2. <<<<>>, T>> \in GoodPairs
    BY <1>9, <2>1, PairGood
  <2> QED BY <1>0, <2>2, ConsHead DEF Goes, Jumping, Tests
<1> QED BY <1>1, GoesGood, ConsHead

LEMMA DoCatch ==
  ASSUME NEW S \in World, NEW s \in Seq(AnyOp), NEW o \in AnyOp, o.op = "catch", Good(s, S)
  PROVE  Good(Cons(o, s), S)
<1>1. ASSUME NEW T \in World, Drifts(S, T) PROVE Goes(GoodPairs, Cons(o, s), T)
  <2>1. Good(s, T)
    BY <1>1, GoodDrifts
  <2>2. <<s, T>> \in GoodPairs
    BY <2>1, PairGood
  <2> QED BY <2>2, ConsHead DEF Goes, Jumping, Tests
<1> QED BY <1>1, GoesGood, ConsHead

LEMMA DoTest ==
  ASSUME NEW S \in World, NEW s \in Seq(AnyOp), NEW o \in AnyOp, o.op \in Tests,
         S.run = "off" \/ o.op = "ifactive",
         Holds(o, S) => Good(o.h \o s, S), ~Holds(o, S) => Good(s, S)
  PROVE  Good(Cons(o, s), S)
<1>0. o.h \o s \in Seq(AnyOp)
  <2>1. o.h \in Seq(AnyOp)
    BY OpFacts, Levels
  <2> QED BY <2>1, ConcatProperties
<1>1. ASSUME NEW T \in World, Drifts(S, T) PROVE Goes(GoodPairs, Cons(o, s), T)
  <2>1. Holds(o, T) <=> Holds(o, S)
    <3>1. CASE S.run = "off"
      BY <3>1, <1>1, StoppedStays
    <3>2. CASE o.op = "ifactive"
      BY <3>2, <1>1 DEF Drifts, Vfs, Holds
    <3> QED BY <3>1, <3>2
  <2>2. CASE Holds(o, S)
    <3>1. Good(o.h \o s, T)
      BY <1>0, <1>1, <2>2, GoodDrifts
    <3>2. <<o.h \o s, T>> \in GoodPairs
      BY <1>0, <3>1, PairGood
    <3> QED BY <2>1, <2>2, <3>2, ConsHead DEF Goes, Jumping, Tests
  <2>3. CASE ~Holds(o, S)
    <3>1. Good(s, T)
      BY <1>1, <2>3, GoodDrifts
    <3>2. <<s, T>> \in GoodPairs
      BY <3>1, PairGood
    <3> QED BY <2>1, <2>3, <3>2, ConsHead DEF Goes, Jumping, Tests
  <2> QED BY <2>2, <2>3
<1> QED BY <1>1, GoesGood, ConsHead

\* Operations that allow for the switching thread.
Patient == NopOps \union SetOps \union {"stop", "start", "add", "remove"}
LEMMA PatientDrift ==
  ASSUME NEW o, o.op \in Patient, NEW S \in World, NEW R \in World, Drifts(S, R), Pre(o, S)
  PROVE  /\ Pre(o, R)
         /\ \A T \in World : After(o, R, T) => After(o, S, T)
         /\ \A T : ~Fail(o, R, T)
<1>1. CASE R = S
  <2>1. o.op \notin Raising
    BY DEF Patient, NopOps, SetOps, Raising
  <2> QED BY <1>1, <2>1 DEF Fail
<1>2. CASE R # S
  <2>0. /\ S.run = "on" /\ Vfs(S, R) /\ R.fa = S.fa /\ R.ff = S.ff /\ (Clean(R) => Clean(S)) /\ Ready(R)
        /\ S.run # "off"
    BY <1>2 DEF Drifts
  <2>1. \A T : ~Fail(o, R, T)
    BY DEF Fail, Patient, NopOps, SetOps, Raising
  <2>2. Pre(o, R)
    BY <2>0 DEF Pre, Patient, NopOps, SetOps, Vfs
  <2>3. ASSUME NEW T \in World, After(o, R, T) PROVE After(o, S, T)
    <3>1. CASE o.op \in NopOps
      <4>1. AfterNop(R, T)
        BY <2>3, <3>1 DEF After
      <4>2. AfterNop(S, T)
        BY <4>1, <2>0 DEF AfterNop, Held, Stays, Vfs, Engines
      <4> QED BY <3>1, <4>2 DEF After, NopOps, SetOps
    <3>2. CASE o.op \in SetOps
      <4>1. AfterSet(R, T, o.f, o.op)
        BY <2>3, <3>2 DEF After
      <4>2. AfterSet(S, T, o.f, o.op)
        BY <4>1, <2>0 DEF AfterSet, Held, Stays, Vfs, Engines
      <4> QED BY <3>2, <4>2 DEF After, NopOps, SetOps
    <3>3. CASE o.op = "stop"
      <4>1. AfterStop(R, T)
        BY <2>3, <3>3 DEF After
      <4>2. AfterStop(S, T)
        BY <4>1, <2>0 DEF AfterStop, Held, Stays, Vfs
      <4> QED BY <3>3, <4>2 DEF After, NopOps, SetOps
    <3>4. CASE o.op = "start"
      <4>1. AfterStart(R, T)
        BY <2>3, <3>4 DEF After
      <4>2. AfterStart(S, T)
        BY <4>1, <2>0 DEF AfterStart, Vfs
      <4> QED BY <3>4, <4>2 DEF After, NopOps, SetOps
    <3>5. CASE o.op = "add"
      <4>1. AfterAdd(R, T, o.f)
        BY <2>3, <3>5 DEF After
      <4>2. AfterAdd(S, T, o.f)
        BY <4>1, <2>0 DEF AfterAdd, Held, Stays, Vfs, Engines
      <4> QED BY <3>5, <4>2 DEF After, NopOps, SetOps
    <3>6. CASE o.op = "remove"
      <4>1. AfterRemove(R, T, o.f)
        BY <2>3, <3>6 DEF After
      <4>2. AfterRemove(S, T, o.f)
        BY <4>1, <2>0 DEF AfterRemove, Held, Stays, Vfs
      <4> QED BY <3>6, <4>2 DEF After, NopOps, SetOps
    <3> QED BY <3>1, <3>2, <3>3, <3>4, <3>5, <3>6 DEF Patient
  <2> QED BY <2>1, <2>2, <2>3
<1> QED BY <1>1, <1>2

LEMMA DoOp ==
  ASSUME NEW S \in World, NEW s \in Seq(AnyOp), NEW o \in AnyOp, o.op \notin Jumping,
         S.run = "off" \/ o.op \in Patient, Pre(o, S),
         \A T \in World : After(o, S, T) => Good(s, T),
         \A T \in World : Fail(o, S, T) => Good(Landing(s), T)
  PROVE  Good(Cons(o, s), S)
<1>1. ASSUME NEW R \in World, Drifts(S, R) PROVE Goes(GoodPairs, Cons(o, s), R)
  <2>1. /\ Pre(o, R)
        /\ \A T \in World : After(o, R, T) => Good(s, T)
        /\ \A T \in World : Fail(o, R, T) => Good(Landing(s), T)
    <3>1. CASE S.run = "off"
      BY <3>1, <1>1, StoppedStays
    <3>2. CASE o.op \in Patient
      BY <3>2, <1>1, PatientDrift
    <3> QED BY <3>1, <3>2
  <2>2. /\ \A T \in World : After(o, R, T) => <<s, T>> \in GoodPairs
        /\ \A T \in World : Fail(o, R, T) => <<Landing(s), T>> \in GoodPairs
    BY <2>1, LandingType, PairGood
  <2>3. o.op # "return" /\ o.op # "catch" /\ o.op \notin Tests
    BY DEF Jumping
  <2>4. Cons(o, s) # <<>> /\ Head(Cons(o, s)) = o /\ Tail(Cons(o, s)) = s
    BY ConsHead
  <2> QED BY <2>1, <2>2, <2>3, <2>4 DEF Goes
<1> QED BY <1>1, GoesGood, ConsHead

-----------------------------------------------------------------------------
(* One rule for each operation.                                            *)

LEMMA Known ==
  /\ \A x \in {"stop", "wgr", "gpureset", "lock", "unlock", "idle", "endfa", "save", "loop", "auto", "start"} :
       Op(x, None) \in AnyOp
  /\ \A x \in OfVf \ {"ifhung", "ifactive"}, v \in VF : Op(x, v) \in AnyOp
  /\ \A x \in OfFn, g \in Fn : Op(x, g) \in AnyOp
  /\ Return \in AnyOp /\ Ignore \in AnyOp /\ EndFa \in AnyOp
<1>1. {"stop", "wgr", "gpureset", "lock", "unlock", "idle", "endfa", "save", "loop", "auto"}
        \subseteq Inner \ (OfVf \union OfFn)
  BY DEF Inner, Steady, Raising, OfVf, OfFn, Grants
<1>2. OfVf \ {"ifhung", "ifactive"} \subseteq (Inner \ OfFn) \union {"timeout"} \union Grants
  BY DEF Inner, Steady, Raising, OfVf, OfFn, Grants
<1>3. Ops0 \subseteq AnyOp
  BY Levels
<1>4. Op("start", None) \in AnyOp
  BY FnFacts DEF AnyOp, OpsOuter, Op, Outer, ArgOk, OfVf, OfFn, Grants
<1>5. ASSUME NEW x \in {"timeout"} \union Grants, NEW v \in VF PROVE Op(x, v) \in AnyOp
  BY FnFacts DEF AnyOp, OpsOuter, Op, Outer, ArgOk, OfVf, OfFn, Grants
<1>6. \A x \in {"stop", "wgr", "gpureset", "lock", "unlock", "idle", "endfa", "save", "loop", "auto", "start"} :
        Op(x, None) \in AnyOp
  BY <1>1, <1>3, <1>4, PlainOps
<1>7. \A x \in OfVf \ {"ifhung", "ifactive"}, v \in VF : Op(x, v) \in AnyOp
  BY <1>2, <1>3, <1>5, PlainOps
<1>8. \A x \in OfFn, g \in Fn : Op(x, g) \in AnyOp
  BY <1>3, PlainOps
<1>9. Return \in AnyOp /\ Ignore \in AnyOp /\ EndFa \in AnyOp
  BY <1>3, PlainOps, Branches
<1> QED BY <1>6, <1>7, <1>8, <1>9

LEMMA DoStop ==
  ASSUME NEW S \in World, NEW s \in Seq(AnyOp), Ready(S),
         \A T \in World : AfterStop(S, T) => Good(s, T)
  PROVE  Good(Cons(Op("stop", None), s), S)
<1>1. PICK o : o = Op("stop", None)
  OBVIOUS
<1>2. o \in AnyOp /\ o.op = "stop" /\ o.f = None
  BY <1>1, Known DEF Op
<1>3. Pre(o, S) /\ o.op \notin Jumping /\ o.op \in Patient
  BY <1>2 DEF Pre, Jumping, Tests, NopOps, SetOps, Patient
<1>4. \A T \in World : After(o, S, T) => AfterStop(S, T)
  BY <1>2 DEF After, NopOps, SetOps
<1>5. \A T \in World : ~Fail(o, S, T)
  BY <1>2 DEF Fail, Raising, NopOps, SetOps
<1> QED BY <1>1, <1>2, <1>3, <1>4, <1>5, DoOp

LEMMA DoStart ==
  ASSUME NEW S \in World, NEW s \in Seq(AnyOp), Ready(S),
         \A T \in World : AfterStart(S, T) => Good(s, T)
  PROVE  Good(Cons(Op("start", None), s), S)
<1>1. PICK o : o = Op("start", None)
  OBVIOUS
<1>2. o \in AnyOp /\ o.op = "start" /\ o.f = None
  BY <1>1, Known DEF Op
<1>3. Pre(o, S) /\ o.op \notin Jumping /\ o.op \in Patient
  BY <1>2 DEF Pre, Jumping, Tests, NopOps, SetOps, Patient
<1>4. \A T \in World : After(o, S, T) => AfterStart(S, T)
  BY <1>2 DEF After, NopOps, SetOps
<1>5. \A T \in World : ~Fail(o, S, T)
  BY <1>2 DEF Fail, Raising, NopOps, SetOps
<1> QED BY <1>1, <1>2, <1>3, <1>4, <1>5, DoOp

LEMMA DoNop ==
  ASSUME NEW S \in World, NEW s \in Seq(AnyOp), NEW v \in VF, NEW x \in {"shutdown", "shut", "crash"},
         \A T \in World : AfterNop(S, T) => Good(s, T)
  PROVE  Good(Cons(Op(x, v), s), S)
<1>1. PICK o : o = Op(x, v)
  OBVIOUS
<1>2. o \in AnyOp /\ o.op = x /\ o.f = v
  BY <1>1, Known DEF Op, OfVf
<1>3. Pre(o, S) /\ o.op \notin Jumping /\ o.op \in Patient
  BY <1>2 DEF Pre, Jumping, Tests, NopOps, SetOps, Patient
<1>4. \A T \in World : After(o, S, T) => AfterNop(S, T)
  BY <1>2 DEF After, NopOps, SetOps
<1>5. \A T \in World : ~Fail(o, S, T)
  BY <1>2 DEF Fail, Raising, NopOps, SetOps
<1> QED BY <1>1, <1>2, <1>3, <1>4, <1>5, DoOp

LEMMA DoFlag ==
  ASSUME NEW S \in World, NEW s \in Seq(AnyOp), NEW x \in {"lock", "unlock", "idle"},
         \A T \in World : AfterNop(S, T) => Good(s, T)
  PROVE  Good(Cons(Op(x, None), s), S)
<1>1. PICK o : o = Op(x, None)
  OBVIOUS
<1>2. o \in AnyOp /\ o.op = x /\ o.f = None
  BY <1>1, Known DEF Op
<1>3. Pre(o, S) /\ o.op \notin Jumping /\ o.op \in Patient
  BY <1>2 DEF Pre, Jumping, Tests, NopOps, SetOps, Patient
<1>4. \A T \in World : After(o, S, T) => AfterNop(S, T)
  BY <1>2 DEF After, NopOps, SetOps
<1>5. \A T \in World : ~Fail(o, S, T)
  BY <1>2 DEF Fail, Raising, NopOps, SetOps
<1> QED BY <1>1, <1>2, <1>3, <1>4, <1>5, DoOp

LEMMA DoSet ==
  ASSUME NEW S \in World, NEW s \in Seq(AnyOp), NEW v \in VF, NEW x \in {"AVAIL", "SUSPEND", "UNAVAIL"},
         \A T \in World : AfterSet(S, T, v, x) => Good(s, T)
  PROVE  Good(Cons(Op(x, v), s), S)
<1>1. PICK o : o = Op(x, v)
  OBVIOUS
<1>2. o \in AnyOp /\ o.op = x /\ o.f = v
  BY <1>1, Known DEF Op, OfVf
<1>3. Pre(o, S) /\ o.op \notin Jumping /\ o.op \in Patient
  BY <1>2 DEF Pre, Jumping, Tests, NopOps, SetOps, Patient
<1>4. \A T \in World : After(o, S, T) => AfterSet(S, T, v, x)
  BY <1>2 DEF After, NopOps, SetOps
<1>5. \A T \in World : ~Fail(o, S, T)
  BY <1>2 DEF Fail, Raising, NopOps, SetOps
<1> QED BY <1>1, <1>2, <1>3, <1>4, <1>5, DoOp

LEMMA DoAdd ==
  ASSUME NEW S \in World, NEW s \in Seq(AnyOp), NEW v \in VF, v \notin S.ent,
         \A T \in World : AfterAdd(S, T, v) => Good(s, T)
  PROVE  Good(Cons(Op("add", v), s), S)
<1>1. PICK o : o = Op("add", v)
  OBVIOUS
<1>2. o \in AnyOp /\ o.op = "add" /\ o.f = v
  BY <1>1, Known DEF Op, OfVf
<1>3. Pre(o, S) /\ o.op \notin Jumping /\ o.op \in Patient
  BY <1>2 DEF Pre, Jumping, Tests, NopOps, SetOps, Patient
<1>4. \A T \in World : After(o, S, T) => AfterAdd(S, T, v)
  BY <1>2 DEF After, NopOps, SetOps
<1>5. \A T \in World : ~Fail(o, S, T)
  BY <1>2 DEF Fail, Raising, NopOps, SetOps
<1> QED BY <1>1, <1>2, <1>3, <1>4, <1>5, DoOp

LEMMA DoRemove ==
  ASSUME NEW S \in World, NEW s \in Seq(AnyOp), NEW v \in VF,
         \A T \in World : AfterRemove(S, T, v) => Good(s, T)
  PROVE  Good(Cons(Op("remove", v), s), S)
<1>1. PICK o : o = Op("remove", v)
  OBVIOUS
<1>2. o \in AnyOp /\ o.op = "remove" /\ o.f = v
  BY <1>1, Known DEF Op, OfVf
<1>3. Pre(o, S) /\ o.op \notin Jumping /\ o.op \in Patient
  BY <1>2 DEF Pre, Jumping, Tests, NopOps, SetOps, Patient
<1>4. \A T \in World : After(o, S, T) => AfterRemove(S, T, v)
  BY <1>2 DEF After, NopOps, SetOps
<1>5. \A T \in World : ~Fail(o, S, T)
  BY <1>2 DEF Fail, Raising, NopOps, SetOps
<1> QED BY <1>1, <1>2, <1>3, <1>4, <1>5, DoOp

LEMMA DoSave ==
  ASSUME NEW S \in World, NEW s \in Seq(AnyOp), S.run = "off", Clean(S) => S.st \in {"LOADED", "CLEAR"},
         \A T \in World : AfterSave(S, T) => Good(s, T),
         \A T \in World : FailSave(S, T) => Good(Landing(s), T)
  PROVE  Good(Cons(Op("save", None), s), S)
<1>1. PICK o : o = Op("save", None)
  OBVIOUS
<1>2. o \in AnyOp /\ o.op = "save" /\ o.f = None
  BY <1>1, Known DEF Op
<1>3. Pre(o, S) /\ o.op \notin Jumping
  BY <1>2 DEF Pre, Jumping, Tests, On
<1>4. \A T \in World : After(o, S, T) => AfterSave(S, T)
  BY <1>2 DEF After, NopOps, SetOps
<1>5. \A T \in World : Fail(o, S, T) => FailSave(S, T)
  BY <1>2 DEF Fail
<1> QED BY <1>1, <1>2, <1>3, <1>4, <1>5, DoOp

LEMMA DoLoad ==
  ASSUME NEW S \in World, NEW s \in Seq(AnyOp), NEW g \in Fn, S.run = "off", Down(S),
         \A T \in World : AfterLoad(S, T, g) => Good(s, T),
         \A T \in World : FailLoad(S, T, g) => Good(Landing(s), T)
  PROVE  Good(Cons(Op("load", g), s), S)
<1>1. PICK o : o = Op("load", g)
  OBVIOUS
<1>2. o \in AnyOp /\ o.op = "load" /\ o.f = g
  BY <1>1, Known DEF Op, OfFn
<1>3. Pre(o, S) /\ o.op \notin Jumping
  BY <1>2 DEF Pre, Jumping, Tests, On
<1>4. \A T \in World : After(o, S, T) => AfterLoad(S, T, g)
  BY <1>2 DEF After, NopOps, SetOps
<1>5. \A T \in World : Fail(o, S, T) => FailLoad(S, T, g)
  BY <1>2 DEF Fail
<1> QED BY <1>1, <1>2, <1>3, <1>4, <1>5, DoOp

LEMMA DoInit ==
  ASSUME NEW S \in World, NEW s \in Seq(AnyOp), NEW g \in Fn, S.run = "off", Down(S),
         \A T \in World : AfterInit(S, T, g) => Good(s, T),
         \A T \in World : FailInit(S, T, g) => Good(Landing(s), T)
  PROVE  Good(Cons(Op("init", g), s), S)
<1>1. PICK o : o = Op("init", g)
  OBVIOUS
<1>2. o \in AnyOp /\ o.op = "init" /\ o.f = g
  BY <1>1, Known DEF Op, OfFn
<1>3. Pre(o, S) /\ o.op \notin Jumping
  BY <1>2 DEF Pre, Jumping, Tests, On
<1>4. \A T \in World : After(o, S, T) => AfterInit(S, T, g)
  BY <1>2 DEF After, NopOps, SetOps
<1>5. \A T \in World : Fail(o, S, T) => FailInit(S, T, g)
  BY <1>2 DEF Fail
<1> QED BY <1>1, <1>2, <1>3, <1>4, <1>5, DoOp

LEMMA DoWgr ==
  ASSUME NEW S \in World, NEW s \in Seq(AnyOp), S.run = "off", Tame(S), Ready(S),
         \A T \in World : AfterWgr(S, T) => Good(s, T)
  PROVE  Good(Cons(Op("wgr", None), s), S)
<1>1. PICK o : o = Op("wgr", None)
  OBVIOUS
<1>2. o \in AnyOp /\ o.op = "wgr" /\ o.f = None
  BY <1>1, Known DEF Op
<1>3. Pre(o, S) /\ o.op \notin Jumping
  BY <1>2 DEF Pre, Jumping, Tests, On
<1>4. \A T \in World : After(o, S, T) => AfterWgr(S, T)
  BY <1>2 DEF After, NopOps, SetOps
<1>5. \A T \in World : ~Fail(o, S, T)
  BY <1>2 DEF Fail, Raising, NopOps, SetOps
<1> QED BY <1>1, <1>2, <1>3, <1>4, <1>5, DoOp

LEMMA DoGpuReset ==
  ASSUME NEW S \in World, NEW s \in Seq(AnyOp), S.run = "off", Tame(S),
         \A T \in World : AfterWgr(S, T) => Good(s, T)
  PROVE  Good(Cons(Op("gpureset", None), s), S)
<1>1. PICK o : o = Op("gpureset", None)
  OBVIOUS
<1>2. o \in AnyOp /\ o.op = "gpureset" /\ o.f = None
  BY <1>1, Known DEF Op
<1>3. Pre(o, S) /\ o.op \notin Jumping
  BY <1>2 DEF Pre, Jumping, Tests, On
<1>4. \A T \in World : After(o, S, T) => AfterWgr(S, T)
  BY <1>2 DEF After, NopOps, SetOps
<1>5. \A T \in World : ~Fail(o, S, T)
  BY <1>2 DEF Fail, Raising, NopOps, SetOps
<1> QED BY <1>1, <1>2, <1>3, <1>4, <1>5, DoOp

LEMMA DoExpel ==
  ASSUME NEW S \in World, NEW s \in Seq(AnyOp), NEW v \in VF, S.run = "off", Tame(S),
         On(S, PF, "SAVED"), \A u \in VF : u < v => Gone(S, u),
         \A T \in World : AfterWgr(S, T) => Good(s, T)
  PROVE  Good(Cons(Op("expel", v), s), S)
<1>1. PICK o : o = Op("expel", v)
  OBVIOUS
<1>2. o \in AnyOp /\ o.op = "expel" /\ o.f = v
  BY <1>1, Known DEF Op, OfVf
<1>3. Pre(o, S) /\ o.op \notin Jumping
  BY <1>2 DEF Pre, Jumping, Tests, On
<1>4. \A T \in World : After(o, S, T) => AfterWgr(S, T)
  BY <1>2 DEF After, NopOps, SetOps
<1>5. \A T \in World : ~Fail(o, S, T)
  BY <1>2 DEF Fail, Raising, NopOps, SetOps
<1> QED BY <1>1, <1>2, <1>3, <1>4, <1>5, DoOp

LEMMA DoReset ==
  ASSUME NEW S \in World, NEW s \in Seq(AnyOp), NEW v \in VF, S.run = "off", Tame(S),
         \A T \in World : AfterReset(S, T) => Good(s, T),
         \A T \in World : FailReset(S, T) => Good(Landing(s), T)
  PROVE  Good(Cons(Op("resetvf", v), s), S)
<1>1. PICK o : o = Op("resetvf", v)
  OBVIOUS
<1>2. o \in AnyOp /\ o.op = "resetvf" /\ o.f = v
  BY <1>1, Known DEF Op, OfVf
<1>3. Pre(o, S) /\ o.op \notin Jumping
  BY <1>2 DEF Pre, Jumping, Tests, On
<1>4. \A T \in World : After(o, S, T) => AfterReset(S, T)
  BY <1>2 DEF After, NopOps, SetOps
<1>5. \A T \in World : Fail(o, S, T) => FailReset(S, T)
  BY <1>2 DEF Fail
<1> QED BY <1>1, <1>2, <1>3, <1>4, <1>5, DoOp

LEMMA DoAuto ==
  ASSUME NEW S \in World, NEW s \in Seq(AnyOp), S.run = "off", AutoPre(S),
         \A T \in World : AfterAuto(S, T) => Good(s, T),
         \A T \in World : FailAuto(S, T) => Good(Landing(s), T)
  PROVE  Good(Cons(Op("auto", None), s), S)
<1>1. PICK o : o = Op("auto", None)
  OBVIOUS
<1>2. o \in AnyOp /\ o.op = "auto" /\ o.f = None
  BY <1>1, Known DEF Op
<1>3. Pre(o, S) /\ o.op \notin Jumping
  BY <1>2 DEF Pre, Jumping, Tests, On
<1>4. \A T \in World : After(o, S, T) => AfterAuto(S, T)
  BY <1>2 DEF After, NopOps, SetOps
<1>5. \A T \in World : Fail(o, S, T) => FailAuto(S, T)
  BY <1>2 DEF Fail
<1> QED BY <1>1, <1>2, <1>3, <1>4, <1>5, DoOp

LEMMA DoSwitch ==
  ASSUME NEW S \in World, NEW s \in Seq(AnyOp), NEW g \in Fn, S.run = "off", Clean(S) => S.st # "ABNORMAL",
         \A T \in World : AfterSwitch(S, T, g) => Good(s, T),
         \A T \in World : FailSwitch(S, T, g) => Good(Landing(s), T)
  PROVE  Good(Cons(Op("switch", g), s), S)
<1>1. PICK o : o = Op("switch", g)
  OBVIOUS
<1>2. o \in AnyOp /\ o.op = "switch" /\ o.f = g
  BY <1>1, Known DEF Op, OfFn
<1>3. Pre(o, S) /\ o.op \notin Jumping
  BY <1>2 DEF Pre, Jumping, Tests, On
<1>4. \A T \in World : After(o, S, T) => AfterSwitch(S, T, g)
  BY <1>2 DEF After, NopOps, SetOps
<1>5. \A T \in World : Fail(o, S, T) => FailSwitch(S, T, g)
  BY <1>2 DEF Fail
<1> QED BY <1>1, <1>2, <1>3, <1>4, <1>5, DoOp

LEMMA DoSaved ==
  ASSUME NEW S \in World, NEW s \in Seq(AnyOp), NEW v \in VF, S.run = "off", Down(S),
         \A T \in World : AfterSaved(S, T, v) => Good(s, T),
         \A T \in World : FailSaved(S, T, v) => Good(Landing(s), T)
  PROVE  Good(Cons(Op("saved", v), s), S)
<1>1. PICK o : o = Op("saved", v)
  OBVIOUS
<1>2. o \in AnyOp /\ o.op = "saved" /\ o.f = v
  BY <1>1, Known DEF Op, OfVf
<1>3. Pre(o, S) /\ o.op \notin Jumping
  BY <1>2 DEF Pre, Jumping, Tests, On
<1>4. \A T \in World : After(o, S, T) => AfterSaved(S, T, v)
  BY <1>2 DEF After, NopOps, SetOps
<1>5. \A T \in World : Fail(o, S, T) => FailSaved(S, T, v)
  BY <1>2 DEF Fail
<1> QED BY <1>1, <1>2, <1>3, <1>4, <1>5, DoOp

LEMMA DoTurn ==
  ASSUME NEW S \in World, NEW s \in Seq(AnyOp), NEW v \in VF, S.run = "off", Down(S),
         \A T \in World : AfterTurn(S, T) => Good(s, T),
         \A T \in World : FailTurn(S, T) => Good(Landing(s), T)
  PROVE  Good(Cons(Op("turn", v), s), S)
<1>1. PICK o : o = Op("turn", v)
  OBVIOUS
<1>2. o \in AnyOp /\ o.op = "turn" /\ o.f = v
  BY <1>1, Known DEF Op, OfVf
<1>3. Pre(o, S) /\ o.op \notin Jumping
  BY <1>2 DEF Pre, Jumping, Tests, On
<1>4. \A T \in World : After(o, S, T) => AfterTurn(S, T)
  BY <1>2 DEF After, NopOps, SetOps
<1>5. \A T \in World : Fail(o, S, T) => FailTurn(S, T)
  BY <1>2 DEF Fail
<1> QED BY <1>1, <1>2, <1>3, <1>4, <1>5, DoOp

LEMMA DoLoop ==
  ASSUME NEW S \in World, NEW s \in Seq(AnyOp), S.run = "off", OkAll(S), Down(S),
         \A T \in World : AfterLoop(S, T) => Good(s, T),
         \A T \in World : FailLoop(S, T) => Good(Landing(s), T)
  PROVE  Good(Cons(Op("loop", None), s), S)
<1>1. PICK o : o = Op("loop", None)
  OBVIOUS
<1>2. o \in AnyOp /\ o.op = "loop" /\ o.f = None
  BY <1>1, Known DEF Op
<1>3. Pre(o, S) /\ o.op \notin Jumping
  BY <1>2 DEF Pre, Jumping, Tests, On
<1>4. \A T \in World : After(o, S, T) => AfterLoop(S, T)
  BY <1>2 DEF After, NopOps, SetOps
<1>5. \A T \in World : Fail(o, S, T) => FailLoop(S, T)
  BY <1>2 DEF Fail
<1> QED BY <1>1, <1>2, <1>3, <1>4, <1>5, DoOp

LEMMA DoOrphan ==
  ASSUME NEW S \in World, NEW s \in Seq(AnyOp), NEW v \in VF, S.run = "off", OrphanPre(S, v),
         \A T \in World : AfterOrphan(S, T, v) => Good(s, T),
         \A T \in World : FailOrphan(S, T, v) => Good(Landing(s), T)
  PROVE  Good(Cons(Op("orphan", v), s), S)
<1>1. PICK o : o = Op("orphan", v)
  OBVIOUS
<1>2. o \in AnyOp /\ o.op = "orphan" /\ o.f = v
  BY <1>1, Known DEF Op, OfVf
<1>3. Pre(o, S) /\ o.op \notin Jumping
  BY <1>2 DEF Pre, Jumping, Tests, On
<1>4. \A T \in World : After(o, S, T) => AfterOrphan(S, T, v)
  BY <1>2 DEF After, NopOps, SetOps
<1>5. \A T \in World : Fail(o, S, T) => FailOrphan(S, T, v)
  BY <1>2 DEF Fail
<1> QED BY <1>1, <1>2, <1>3, <1>4, <1>5, DoOp

LEMMA DoFini ==
  ASSUME NEW S \in World, NEW s \in Seq(AnyOp), NEW v \in VF, S.run = "off", OkAll(S), Down(S),
         \A T \in World : AfterFini(S, T, v) => Good(s, T),
         \A T \in World : FailFini(S, T) => Good(Landing(s), T)
  PROVE  Good(Cons(Op("fini", v), s), S)
<1>1. PICK o : o = Op("fini", v)
  OBVIOUS
<1>2. o \in AnyOp /\ o.op = "fini" /\ o.f = v
  BY <1>1, Known DEF Op, OfVf
<1>3. Pre(o, S) /\ o.op \notin Jumping
  BY <1>2 DEF Pre, Jumping, Tests, On
<1>4. \A T \in World : After(o, S, T) => AfterFini(S, T, v)
  BY <1>2 DEF After, NopOps, SetOps
<1>5. \A T \in World : Fail(o, S, T) => FailFini(S, T)
  BY <1>2 DEF Fail
<1> QED BY <1>1, <1>2, <1>3, <1>4, <1>5, DoOp

LEMMA DoGrantInit ==
  ASSUME NEW S \in World, NEW s \in Seq(AnyOp), NEW v \in VF, S.run = "off",
         \A T \in World : AfterGrant(S, T, v, "init") => Good(s, T)
  PROVE  Good(Cons(Op("grantinit", v), s), S)
<1>1. PICK o : o = Op("grantinit", v)
  OBVIOUS
<1>2. o \in AnyOp /\ o.op = "grantinit" /\ o.f = v
  BY <1>1, Known DEF Op, OfVf, Grants
<1>3. Pre(o, S) /\ o.op \notin Jumping
  BY <1>2 DEF Pre, Jumping, Tests, On
<1>4. \A T \in World : After(o, S, T) => AfterGrant(S, T, v, "init")
  BY <1>2 DEF After, NopOps, SetOps
<1>5. \A T \in World : ~Fail(o, S, T)
  BY <1>2 DEF Fail, Raising, NopOps, SetOps
<1> QED BY <1>1, <1>2, <1>3, <1>4, <1>5, DoOp

LEMMA DoGrantFini ==
  ASSUME NEW S \in World, NEW s \in Seq(AnyOp), NEW v \in VF, S.run = "off",
         \A T \in World : AfterGrant(S, T, v, "fini") => Good(s, T)
  PROVE  Good(Cons(Op("grantfini", v), s), S)
<1>1. PICK o : o = Op("grantfini", v)
  OBVIOUS
<1>2. o \in AnyOp /\ o.op = "grantfini" /\ o.f = v
  BY <1>1, Known DEF Op, OfVf, Grants
<1>3. Pre(o, S) /\ o.op \notin Jumping
  BY <1>2 DEF Pre, Jumping, Tests, On
<1>4. \A T \in World : After(o, S, T) => AfterGrant(S, T, v, "fini")
  BY <1>2 DEF After, NopOps, SetOps
<1>5. \A T \in World : ~Fail(o, S, T)
  BY <1>2 DEF Fail, Raising, NopOps, SetOps
<1> QED BY <1>1, <1>2, <1>3, <1>4, <1>5, DoOp

LEMMA DoEndFa ==
  ASSUME NEW S \in World, NEW s \in Seq(AnyOp), S.run = "off",
         \A T \in World : AfterEnd(S, T) => Good(s, T)
  PROVE  Good(Cons(Op("endfa", None), s), S)
<1>1. PICK o : o = Op("endfa", None)
  OBVIOUS
<1>2. o \in AnyOp /\ o.op = "endfa" /\ o.f = None
  BY <1>1, Known DEF Op
<1>3. Pre(o, S) /\ o.op \notin Jumping
  BY <1>2 DEF Pre, Jumping, Tests, On
<1>4. \A T \in World : After(o, S, T) => AfterEnd(S, T)
  BY <1>2 DEF After, NopOps, SetOps
<1>5. \A T \in World : ~Fail(o, S, T)
  BY <1>2 DEF Fail, Raising, NopOps, SetOps
<1> QED BY <1>1, <1>2, <1>3, <1>4, <1>5, DoOp

LEMMA DoTimeout ==
  ASSUME NEW S \in World, NEW s \in Seq(AnyOp), NEW v \in VF, S.run = "off",
         S.fa = v, S.cur = v, v \notin S.ent, OkBut(S, v),
         \A T \in World : AfterTimeout(S, T) => Good(s, T)
  PROVE  Good(Cons(Op("timeout", v), s), S)
<1>1. PICK o : o = Op("timeout", v)
  OBVIOUS
<1>2. o \in AnyOp /\ o.op = "timeout" /\ o.f = v
  BY <1>1, Known DEF Op, OfVf
<1>3. Pre(o, S) /\ o.op \notin Jumping
  BY <1>2 DEF Pre, Jumping, Tests, On
<1>4. \A T \in World : After(o, S, T) => AfterTimeout(S, T)
  BY <1>2 DEF After, NopOps, SetOps
<1>5. \A T \in World : ~Fail(o, S, T)
  BY <1>2 DEF Fail, Raising, NopOps, SetOps
<1> QED BY <1>1, <1>2, <1>3, <1>4, <1>5, DoOp

-----------------------------------------------------------------------------
(* What an operation calls does what the operation promises.               *)

LEMMA OkTame ==
  ASSUME NEW S \in World, OkAll(S)
  PROVE  Tame(S) /\ \A v \in VF : OkBut(S, v)
BY DEF OkAll, OkBut, OkVf, Tame

\* The load and the save that a function gets.
LEMMA LoadSave ==
  ASSUME NEW S \in World, NEW s \in Seq(AnyOp), NEW g \in Fn, S.run = "off", Down(S),
         \A T \in World : Held(S, T) /\ Vfs(S, T) /\ On(T, g, "SAVED") => Good(s, T),
         \A T \in World : FailLoad(S, T, g) => Good(Landing(s), T)
  PROVE  Good(Cons(Op("load", g), Cons(Op("save", None), s)), S)
<1>1. PICK o : o = Op("save", None)
  OBVIOUS
<1>2. o \in AnyOp /\ o.op = "save"
  BY <1>1, Known DEF Op
<1>3. ASSUME NEW T \in World, AfterLoad(S, T, g) PROVE Good(Cons(o, s), T)
  <2>1. T.run = "off" /\ (Clean(T) => T.st \in {"LOADED", "CLEAR"})
    BY <1>3 DEF AfterLoad, Held, Stays, On
  <2>2. ASSUME NEW U \in World, AfterSave(T, U) PROVE Good(s, U)
    BY <1>3, <2>2 DEF AfterLoad, AfterSave, Held, Stays, Vfs, On
  <2>3. ASSUME NEW U \in World, FailSave(T, U) PROVE Good(Landing(s), U)
    BY <1>3, <2>3 DEF AfterLoad, FailSave, FailLoad, Failed, Held, Stays, Vfs, On
  <2> QED BY <1>1, <2>1, <2>2, <2>3, DoSave
<1>4. Cons(o, s) \in Seq(AnyOp) /\ Landing(Cons(o, s)) = Landing(s)
  BY <1>2, ConsHead, LandingCons
<1> QED BY <1>1, <1>3, <1>4, DoLoad

LEMMA WgrBody ==
  ASSUME NEW S \in World, NEW s \in Seq(AnyOp), Tame(S), Ready(S),
         \A T \in World : AfterWgr(S, T) => Good(s, T)
  PROVE  Good(Cons(Op("stop", None), Cons(Op("gpureset", None), s)), S)
<1>1. ASSUME NEW T \in World, AfterStop(S, T) PROVE Good(Cons(Op("gpureset", None), s), T)
  <2>1. T.run = "off" /\ Tame(T)
    BY <1>1 DEF AfterStop, Tame, Vfs
  <2>2. ASSUME NEW U \in World, AfterWgr(T, U) PROVE Good(s, U)
    BY <1>1, <2>2 DEF AfterStop, AfterWgr, Held, Stays
  <2> QED BY <2>1, <2>2, DoGpuReset
<1>2. Cons(Op("gpureset", None), s) \in Seq(AnyOp)
  BY Known, ConsHead
<1> QED BY <1>1, <1>2, DoStop

\* The VFs leave one by one.
LEMMA ExpelBody ==
  ASSUME NEW S \in World, NEW s \in Seq(AnyOp), NEW v \in VF, S.run = "off",
         Tame(S), On(S, PF, "SAVED"), \A u \in VF : u < v => Gone(S, u),
         \A T \in World : AfterWgr(S, T) => Good(s, T),
         NEW e, e = IF v + 1 < NumVF THEN Cons(Op("expel", v + 1), s) ELSE s
  PROVE  /\ S.stat[v] = "ACTIVE" =>
              Good(Cons(Op("remove", v), Cons(Op("AVAIL", v), e)), S)
         /\ S.stat[v] = "SUSPEND" => Good(Cons(Op("AVAIL", v), e), S)
         /\ Gone(S, v) => Good(e, S)
<1>0. e \in Seq(AnyOp)
  <2>1. v + 1 < NumVF => Op("expel", v + 1) \in AnyOp
    BY NextVf, Known DEF OfVf
  <2> QED BY <2>1, ConsHead
<1>1. ASSUME NEW T \in World, Held(S, T), T.run = "off", Tame(T), On(T, PF, "SAVED"),
             \A u \in VF : u < v + 1 => Gone(T, u)
      PROVE  Good(e, T)
  <2>1. CASE v + 1 < NumVF
    <3>1. v + 1 \in VF
      BY <2>1, NextVf
    <3>2. ASSUME NEW U \in World, AfterWgr(T, U) PROVE Good(s, U)
      BY <1>1, <3>2 DEF AfterWgr, Held, Stays
    <3>3. Good(Cons(Op("expel", v + 1), s), T)
      BY <1>1, <3>1, <3>2, DoExpel
    <3> QED BY <2>1, <3>3
  <2>2. CASE ~(v + 1 < NumVF)
    <3>1. \A u \in VF : u < v + 1
      BY <2>2, FnFacts DEF VF
    <3>2. Wiped(T)
      BY <1>1, <3>1 DEF Wiped, Gone, Tame, On
    <3> QED BY <1>1, <2>2, <3>2 DEF AfterWgr
  <2> QED BY <2>1, <2>2
<1>2. \A u \in VF : u < v + 1 <=> u < v \/ u = v
  BY FnFacts DEF VF
<1>3. ASSUME Gone(S, v) PROVE Good(e, S)
  <2>1. Held(S, S)
    BY DEF Held, Stays
  <2> QED BY <1>1, <1>2, <1>3, <2>1
<1>4. ASSUME NEW T \in World, Held(S, T), T.run = "off", On(T, PF, "SAVED"),
             T.stat = S.stat, T.ent = S.ent \ {v}
      PROVE  Good(Cons(Op("AVAIL", v), e), T)
  <2>1. ASSUME NEW U \in World, AfterSet(T, U, v, "AVAIL") PROVE Good(e, U)
    <3>1. Held(S, U) /\ U.run = "off" /\ On(U, PF, "SAVED") /\ U.ent = S.ent \ {v}
      BY <1>4, <2>1 DEF AfterSet, Held, Stays, Engines, On
    <3>2. /\ U.stat = [S.stat EXCEPT ![v] = "AVAIL"]
          /\ S.stat \in [VF -> {"UNAVAIL", "AVAIL", "ACTIVE", "SUSPEND"}]
      BY <1>4, <2>1 DEF AfterSet, World
    <3>3. \A u \in VF : U.stat[u] = IF u = v THEN "AVAIL" ELSE S.stat[u]
      BY <3>2
    <3>4. Tame(U) /\ \A u \in VF : u < v + 1 => Gone(U, u)
      BY <1>2, <3>1, <3>3 DEF Tame, Gone
    <3> QED BY <1>1, <3>1, <3>4
  <2> QED BY <1>0, <2>1, DoSet
<1>5. ASSUME S.stat[v] = "SUSPEND" PROVE Good(Cons(Op("AVAIL", v), e), S)
  <2>1. S.ent = S.ent \ {v}
    BY <1>5 DEF Tame
  <2>2. Held(S, S)
    BY DEF Held, Stays
  <2> QED BY <1>4, <2>1, <2>2
<1>6. ASSUME S.stat[v] = "ACTIVE" PROVE Good(Cons(Op("remove", v), Cons(Op("AVAIL", v), e)), S)
  <2>1. Cons(Op("AVAIL", v), e) \in Seq(AnyOp)
    BY <1>0, Known, ConsHead DEF OfVf
  <2>2. ASSUME NEW T \in World, AfterRemove(S, T, v) PROVE Good(Cons(Op("AVAIL", v), e), T)
    <3>1. Held(S, T) /\ T.run = "off" /\ On(T, PF, "SAVED") /\ T.stat = S.stat /\ T.ent = S.ent \ {v}
      BY <2>2 DEF AfterRemove, Held, Stays, On
    <3> QED BY <1>4, <3>1
  <2> QED BY <2>1, <2>2, DoRemove
<1> QED BY <1>3, <1>5, <1>6

\* A function-level reset has worked, or it has not.
Flr(S, T) ==
  /\ Held(S, T) /\ T.run = "off" /\ On(T, S.cur, "CLEAR")
  /\ T.ent = S.ent /\ T.stat = S.stat /\ T.ini = S.ini \ {S.cur}
NoFlr(S, T) == Held(S, T) /\ T.run = "off" /\ ~Clean(T) /\ Vfs(S, T)

LEMMA ResetBody ==
  ASSUME NEW S \in World, NEW T \in World, NEW s \in Seq(AnyOp), Tame(S),
         \A U \in World : AfterReset(S, U) => Good(s, U),
         \A U \in World : FailReset(S, U) => Good(Landing(s), U)
  PROVE  /\ NoFlr(S, T) => Good(Cons(Op("wgr", None), s), T)
         /\ Flr(S, T) => Good(Cons(Op("load", PF), Cons(Op("save", None), s)), T)
<1>1. ASSUME NoFlr(S, T) PROVE Good(Cons(Op("wgr", None), s), T)
  <2>1. T.run = "off" /\ Tame(T) /\ Ready(T)
    BY <1>1 DEF NoFlr, Vfs, Tame, Ready
  <2>2. ASSUME NEW U \in World, AfterWgr(T, U) PROVE Good(s, U)
    BY <1>1, <2>2 DEF NoFlr, AfterWgr, AfterReset, Held, Stays
  <2> QED BY <2>1, <2>2, DoWgr
<1>2. ASSUME Flr(S, T) PROVE Good(Cons(Op("load", PF), Cons(Op("save", None), s)), T)
  <2>1. T.run = "off" /\ Down(T) /\ PF \in Fn
    BY <1>2, FnFacts DEF Flr, On, Down, Off
  <2>2. ASSUME NEW U \in World, Held(T, U) /\ Vfs(T, U) /\ On(U, PF, "SAVED") PROVE Good(s, U)
    BY <1>2, <2>2 DEF Flr, AfterReset, Cycled, Held, Stays, Vfs, On
  <2>3. ASSUME NEW U \in World, FailLoad(T, U, PF) PROVE Good(Landing(s), U)
    BY <1>2, <2>3 DEF Flr, FailReset, Cycled, FailLoad, Failed, Held, Stays, Vfs
  <2> QED BY <2>1, <2>2, <2>3, LoadSave
<1> QED BY <1>1, <1>2

LEMMA AutoBody ==
  ASSUME NEW S \in World, NEW T \in World, NEW s \in Seq(AnyOp), AutoPre(S), S.st = "ABNORMAL",
         \A U \in World : AfterAuto(S, U) => Good(s, U),
         \A U \in World : FailAuto(S, U) => Good(Landing(s), U),
         NEW e, e = Cons(Op("AVAIL", S.cur), Cons(Op("load", PF), Cons(Op("save", None), s)))
  PROVE  /\ NoFlr(S, T) => Good(Cons(Op("wgr", None), s), T)
         /\ Flr(S, T) /\ S.cur # PF /\ S.stat[S.cur] = "ACTIVE" => Good(Cons(Op("remove", S.cur), e), T)
         /\ Flr(S, T) /\ S.cur # PF /\ S.stat[S.cur] # "ACTIVE" => Good(e, T)
<1>0. ~Clean(S)
  BY DEF AutoPre, Down, Off
<1>1. ASSUME NoFlr(S, T) PROVE Good(Cons(Op("wgr", None), s), T)
  <2>1. T.run = "off" /\ Tame(T) /\ Ready(T)
    BY <1>1 DEF NoFlr, Vfs, Tame, Ready, AutoPre
  <2>2. ASSUME NEW U \in World, AfterWgr(T, U) PROVE Good(s, U)
    <3>1. OkAll(U) /\ On(U, PF, "SAVED")
      BY <2>2 DEF AfterWgr, Wiped, OkAll, OkVf, Gone, On
    <3> QED BY <1>0, <1>1, <2>2, <3>1 DEF NoFlr, AfterWgr, AfterAuto, Held, Stays
  <2> QED BY <2>1, <2>2, DoWgr
<1>2. ASSUME Flr(S, T), S.cur # PF
      PROVE  /\ S.stat[S.cur] = "ACTIVE" => Good(Cons(Op("remove", S.cur), e), T)
             /\ S.stat[S.cur] # "ACTIVE" => Good(e, T)
  <2> DEFINE v == S.cur
             r == Cons(Op("load", PF), Cons(Op("save", None), s))
  <2>1. v \in VF /\ PF \in Fn
    BY <1>2, FnFacts DEF World
  <2>2. r \in Seq(AnyOp) /\ Op("AVAIL", v) \in AnyOp
    BY <2>1, Known, ConsHead DEF OfFn, OfVf
  <2>3. e \in Seq(AnyOp)
    BY <2>2, ConsHead
  <2>4. ASSUME NEW U \in World, Held(S, U), U.run = "off", U.st = "CLEAR", OkAll(U)
        PROVE  Good(r, U)
    <3>1. Down(U)
      BY <2>4 DEF Down, Off
    <3>2. ASSUME NEW X \in World, Held(U, X) /\ Vfs(U, X) /\ On(X, PF, "SAVED") PROVE Good(s, X)
      <4>1. Held(S, X) /\ OkAll(X) /\ On(X, PF, "SAVED") /\ ~Clean(X)
        BY <1>0, <2>4, <3>2 DEF Held, Stays, Vfs, OkAll, OkVf
      <4> QED BY <4>1 DEF AfterAuto
    <3>3. ASSUME NEW X \in World, FailLoad(U, X, PF) PROVE Good(Landing(s), X)
      <4>1. Failed(S, X) /\ OkAll(X) /\ X.cur = PF
        BY <2>4, <3>3 DEF FailLoad, Failed, Held, Stays, Vfs, OkAll, OkVf
      <4> QED BY <4>1 DEF FailAuto
    <3> QED BY <2>1, <2>4, <3>1, <3>2, <3>3, LoadSave
  <2>5. ASSUME NEW U \in World, Held(S, U), U.run = "off", On(U, v, "CLEAR"), U.stat = S.stat,
               U.ent = S.ent \ {v}, U.ini = S.ini \ {v}
        PROVE  Good(e, U)
    <3>1. ASSUME NEW X \in World, AfterSet(U, X, v, "AVAIL") PROVE Good(r, X)
      <4>1. Held(S, X) /\ X.run = "off" /\ X.st = "CLEAR" /\ X.ent = S.ent \ {v} /\ X.ini = S.ini \ {v}
        BY <2>5, <3>1 DEF AfterSet, Held, Stays, Engines, On
      <4>2. /\ X.stat = [S.stat EXCEPT ![v] = "AVAIL"]
            /\ S.stat \in [VF -> {"UNAVAIL", "AVAIL", "ACTIVE", "SUSPEND"}]
        BY <2>5, <3>1 DEF AfterSet, World
      <4>3. \A u \in VF : X.stat[u] = IF u = v THEN "AVAIL" ELSE S.stat[u]
        BY <4>2
      <4>4. \A u \in VF : u # v => OkVf(S, u)
        BY DEF AutoPre
      <4>5. OkAll(X)
        BY <4>1, <4>3, <4>4 DEF OkAll, OkVf
      <4> QED BY <2>4, <4>1, <4>5
    <3> HIDE DEF r
    <3>2. Good(Cons(Op("AVAIL", v), r), U)
      BY <2>1, <2>2, <3>1, DoSet
    <3> QED BY <3>2 DEF r
  <2>6. ASSUME S.stat[v] # "ACTIVE" PROVE Good(e, T)
    <3>1. v \notin S.ent
      BY <2>1, <2>6 DEF AutoPre, Tame
    <3>2. T.ent = S.ent \ {v}
      BY <1>2, <3>1 DEF Flr
    <3> QED BY <1>2, <2>5, <3>2 DEF Flr
  <2>7. ASSUME S.stat[v] = "ACTIVE" PROVE Good(Cons(Op("remove", v), e), T)
    <3>1. ASSUME NEW U \in World, AfterRemove(T, U, v) PROVE Good(e, U)
      <4>1. Held(S, U) /\ U.run = "off" /\ On(U, v, "CLEAR")
        BY <1>2, <3>1 DEF Flr, AfterRemove, Held, Stays, On
      <4>2. U.stat = S.stat /\ U.ent = S.ent \ {v} /\ U.ini = S.ini \ {v}
        BY <1>2, <3>1 DEF Flr, AfterRemove
      <4> QED BY <2>5, <4>1, <4>2
    <3> QED BY <2>1, <2>3, <3>1, DoRemove
  <2> QED BY <2>6, <2>7
<1> QED BY <1>1, <1>2

\* A failure that is ignored.
LEMMA Ignored ==
  ASSUME NEW s \in Seq(AnyOp)
  PROVE  /\ Ignore \in AnyOp /\ Ignore.op = "catch" /\ Cons(Ignore, s) \in Seq(AnyOp)
         /\ Landing(Cons(Ignore, s)) = s
         /\ \A S \in World : Good(s, S) => Good(Cons(Ignore, s), S)
<1>1. Ignore \in AnyOp /\ Ignore.op = "catch" /\ Ignore.h = <<>>
  BY Known DEF Ignore, Catch
<1>2. Cons(Ignore, s) \in Seq(AnyOp) /\ Landing(Cons(Ignore, s)) = Ignore.h \o s
  BY <1>1, ConsHead, LandingCons
<1>3. <<>> \o s = s
  BY <1>1, ConsCat
<1>4. Landing(Cons(Ignore, s)) = s
  BY <1>1, <1>2, <1>3
<1>5. \A S \in World : Good(s, S) => Good(Cons(Ignore, s), S)
  BY <1>1, DoCatch
<1> QED BY <1>1, <1>2, <1>4, <1>5

\* The branch that resets who hangs the engines, whether that works or not.
LEMMA AutoBranch ==
  ASSUME NEW S \in World, NEW s \in Seq(AnyOp), S.run = "off", AutoPre(S),
         \A T \in World : AfterAuto(S, T) \/ FailAuto(S, T) => Good(s, T)
  PROVE  Good(Cons(Op("auto", None), Cons(Ignore, s)), S)
<1>1. Cons(Ignore, s) \in Seq(AnyOp) /\ Landing(Cons(Ignore, s)) = s
  BY Ignored
<1>2. ASSUME NEW T \in World, AfterAuto(S, T) PROVE Good(Cons(Ignore, s), T)
  BY <1>2, Ignored
<1> QED BY <1>1, <1>2, DoAuto

LEMMA SwitchBody ==
  ASSUME NEW S \in World, NEW s \in Seq(AnyOp), NEW g \in Fn, S.run = "off",
         Clean(S) => S.st # "ABNORMAL",
         \A T \in World : AfterSwitch(S, T, g) => Good(s, T),
         \A T \in World : FailSwitch(S, T, g) => Good(Landing(s), T),
         NEW x \in {"load", "init"}
  PROVE  /\ S.st = "ABNORMAL" => Good(Landing(s), S)
         /\ S.st = "LOADED" /\ S.cur = g => Good(s, S)
         /\ S.st = "LOADED" => Good(Cons(Op("save", None), Cons(Op(x, g), s)), S)
         /\ Off(S) => Good(Cons(Op(x, g), s), S)
<1>1. Held(S, S) /\ Vfs(S, S)
  BY DEF Held, Stays, Vfs
<1>2. ASSUME S.st = "ABNORMAL" PROVE Good(Landing(s), S)
  <2>1. FailSwitch(S, S, g)
    BY <1>1, <1>2 DEF FailSwitch, Failed, Switched, Off
  <2> QED BY <2>1
<1>3. ASSUME S.st = "LOADED", S.cur = g PROVE Good(s, S)
  <2>1. AfterSwitch(S, S, g)
    BY <1>1, <1>3 DEF AfterSwitch, Switched, On
  <2> QED BY <2>1
<1>4. ASSUME NEW T \in World, T.run = "off", Held(S, T), Vfs(S, T), Off(T) PROVE Good(Cons(Op(x, g), s), T)
  <2>1. Down(T)
    BY <1>4 DEF Down
  <2>2. CASE x = "load"
    <3>1. ASSUME NEW U \in World, AfterLoad(T, U, g) PROVE Good(s, U)
      BY <1>4, <3>1 DEF AfterLoad, AfterSwitch, Switched, Held, Stays, Vfs
    <3>2. ASSUME NEW U \in World, FailLoad(T, U, g) PROVE Good(Landing(s), U)
      BY <1>4, <3>2 DEF FailLoad, FailSwitch, Switched, Failed, Held, Stays, Vfs
    <3> QED BY <1>4, <2>1, <2>2, <3>1, <3>2, DoLoad
  <2>3. CASE x = "init"
    <3>1. ASSUME NEW U \in World, AfterInit(T, U, g) PROVE Good(s, U)
      BY <1>4, <3>1 DEF AfterInit, Inits, AfterSwitch, Switched, Held, Stays, Vfs
    <3>2. ASSUME NEW U \in World, FailInit(T, U, g) PROVE Good(Landing(s), U)
      BY <1>4, <3>2 DEF FailInit, Inits, FailSwitch, Switched, Failed, Held, Stays, Vfs
    <3> QED BY <1>4, <2>1, <2>3, <3>1, <3>2, DoInit
  <2> QED BY <2>2, <2>3
<1>5. ASSUME Off(S) PROVE Good(Cons(Op(x, g), s), S)
  BY <1>1, <1>4, <1>5
<1>6. ASSUME S.st = "LOADED" PROVE Good(Cons(Op("save", None), Cons(Op(x, g), s)), S)
  <2>1. Op(x, g) \in AnyOp /\ Op(x, g).op # "catch"
    BY Known DEF OfFn, Op
  <2>2. Cons(Op(x, g), s) \in Seq(AnyOp) /\ Landing(Cons(Op(x, g), s)) = Landing(s)
    BY <2>1, ConsHead, LandingCons
  <2>3. ASSUME NEW T \in World, AfterSave(S, T) PROVE Good(Cons(Op(x, g), s), T)
    <3>1. T.run = "off" /\ Held(S, T) /\ Vfs(S, T) /\ Off(T)
      BY <1>6, <2>3 DEF AfterSave, Held, Stays, On, Off
    <3> QED BY <1>4, <3>1
  <2>4. ASSUME NEW T \in World, FailSave(S, T) PROVE Good(Landing(s), T)
    <3>1. FailSwitch(S, T, g)
      BY <1>6, <2>4 DEF FailSave, FailSwitch, Switched, Vfs, Off
    <3> QED BY <3>1
  <2> QED BY <1>6, <2>2, <2>3, <2>4, DoSave
<1> QED BY <1>2, <1>3, <1>5, <1>6

LEMMA SavedBody ==
  ASSUME NEW S \in World, NEW s \in Seq(AnyOp), NEW v \in VF, S.run = "off", Down(S),
         \A T \in World : AfterSaved(S, T, v) => Good(s, T),
         \A T \in World : FailSaved(S, T, v) => Good(Landing(s), T)
  PROVE  /\ S.stat[v] # "ACTIVE" \/ v \notin S.ini \/ On(S, v, "SAVED") => Good(s, S)
         /\ Good(Cons(Op("load", v), Cons(Op("save", None), s)), S)
<1>1. ASSUME S.stat[v] # "ACTIVE" \/ v \notin S.ini \/ On(S, v, "SAVED") PROVE Good(s, S)
  <2>1. AfterSaved(S, S, v)
    BY <1>1 DEF AfterSaved, Held, Stays, Vfs, On
  <2> QED BY <2>1
<1>2. v \in Fn
  BY FnFacts
<1>3. ASSUME NEW T \in World, Held(S, T) /\ Vfs(S, T) /\ On(T, v, "SAVED") PROVE Good(s, T)
  BY <1>3 DEF AfterSaved
<1>4. ASSUME NEW T \in World, FailLoad(S, T, v) PROVE Good(Landing(s), T)
  BY <1>4 DEF FailLoad, FailSaved
<1> QED BY <1>1, <1>2, <1>3, <1>4, LoadSave

\* The active VFs run once, one after the other.
LEMMA TurnBody ==
  ASSUME NEW S \in World, NEW s \in Seq(AnyOp), NEW v \in VF, S.run = "off", Down(S),
         \A T \in World : AfterTurn(S, T) => Good(s, T),
         \A T \in World : FailTurn(S, T) => Good(Landing(s), T),
         NEW e, e = IF v + 1 < NumVF THEN Cons(Op("turn", v + 1), s) ELSE s
  PROVE  Good(e, S) /\ Good(Cons(Op("load", v), Cons(Op("save", None), e)), S)
<1>0. e \in Seq(AnyOp) /\ Landing(e) = Landing(s)
  <2>1. v + 1 < NumVF => Op("turn", v + 1) \in AnyOp /\ Op("turn", v + 1).op # "catch"
    BY NextVf, Known DEF OfVf, Op
  <2> QED BY <2>1, ConsHead, LandingCons
<1>1. ASSUME NEW T \in World, T.run = "off", AfterTurn(S, T) PROVE Good(e, T)
  <2>1. CASE v + 1 < NumVF
    <3>1. v + 1 \in VF /\ Down(T)
      BY <1>1, <2>1, NextVf DEF AfterTurn
    <3>2. ASSUME NEW U \in World, AfterTurn(T, U) PROVE Good(s, U)
      BY <1>1, <3>2 DEF AfterTurn, Held, Stays, Vfs
    <3>3. ASSUME NEW U \in World, FailTurn(T, U) PROVE Good(Landing(s), U)
      BY <1>1, <3>3 DEF AfterTurn, FailTurn, Failed, Held, Stays, Vfs
    <3>4. Good(Cons(Op("turn", v + 1), s), T)
      BY <1>1, <3>1, <3>2, <3>3, DoTurn
    <3> QED BY <2>1, <3>4
  <2>2. CASE ~(v + 1 < NumVF)
    BY <1>1, <2>2
  <2> QED BY <2>1, <2>2
<1>2. AfterTurn(S, S)
  BY DEF AfterTurn, Held, Stays, Vfs
<1>3. v \in Fn
  BY FnFacts
<1>4. ASSUME NEW T \in World, Held(S, T) /\ Vfs(S, T) /\ On(T, v, "SAVED") PROVE Good(e, T)
  <2>1. AfterTurn(S, T) /\ T.run = "off"
    BY <1>4 DEF AfterTurn, Down, Off, On, Held, Stays
  <2> QED BY <1>1, <2>1
<1>5. ASSUME NEW T \in World, FailLoad(S, T, v) PROVE Good(Landing(e), T)
  BY <1>0, <1>5 DEF FailLoad, FailTurn
<1> QED BY <1>0, <1>1, <1>2, <1>3, <1>4, <1>5, LoadSave

LEMMA LoopBody ==
  ASSUME NEW S \in World, NEW s \in Seq(AnyOp), S.run = "off", OkAll(S), Down(S),
         \A T \in World : AfterLoop(S, T) => Good(s, T),
         \A T \in World : FailLoop(S, T) => Good(Landing(s), T)
  PROVE  /\ Good(s, S)
         /\ Good(Cons(Op("turn", 0), Cons(Catch(<<Op("auto", None)>>), s)), S)
<1>1. AfterLoop(S, S)
  BY DEF AfterLoop, Held, Stays
<1>2. PICK c : c = Catch(<<Op("auto", None)>>)
  OBVIOUS
<1>3. c \in AnyOp /\ c.op = "catch" /\ c.h = <<Op("auto", None)>>
  BY <1>2, BodyOps, Levels DEF Catch
<1>4. Op("auto", None) \in AnyOp
  BY Known
<1>5. Cons(c, s) \in Seq(AnyOp) /\ Landing(Cons(c, s)) = Cons(Op("auto", None), s)
  <2>1. Cons(c, s) \in Seq(AnyOp) /\ Landing(Cons(c, s)) = <<Op("auto", None)>> \o s
    BY <1>3, ConsHead, LandingCons
  <2>2. <<Op("auto", None)>> \o s = Cons(Op("auto", None), s)
    BY DEF Cons
  <2> QED BY <2>1, <2>2
<1>6. ASSUME NEW T \in World, AfterTurn(S, T) PROVE Good(Cons(c, s), T)
  <2>1. AfterLoop(S, T)
    BY <1>6 DEF AfterTurn, AfterLoop, OkAll, OkVf, Vfs
  <2> QED BY <1>3, <2>1, DoCatch
<1>7. ASSUME NEW T \in World, FailTurn(S, T) PROVE Good(Cons(Op("auto", None), s), T)
  <2>1. OkAll(T) /\ T.run = "off" /\ ~Clean(T) /\ T.st = "ABNORMAL"
    BY <1>7 DEF FailTurn, Failed, Held, Stays, OkAll, OkVf, Vfs
  <2>2. AutoPre(T)
    BY <2>1, OkTame DEF AutoPre, Down, OkAll
  <2>3. ASSUME NEW U \in World, AfterAuto(T, U) PROVE Good(s, U)
    <3>1. AfterLoop(S, U)
      BY <1>7, <2>1, <2>3 DEF AfterAuto, AfterLoop, FailTurn, Failed, Held, Stays, Down
    <3> QED BY <3>1
  <2>4. ASSUME NEW U \in World, FailAuto(T, U) PROVE Good(Landing(s), U)
    <3>1. FailLoop(S, U)
      BY <1>7, <2>4 DEF FailAuto, FailLoop, FailTurn, Failed, Held, Stays
    <3> QED BY <3>1
  <2> QED BY <2>1, <2>2, <2>3, <2>4, DoAuto
<1>8. 0 \in VF
  BY FnFacts
<1>9. Good(Cons(Op("turn", 0), Cons(c, s)), S)
  BY <1>5, <1>6, <1>7, <1>8, DoTurn
<1> QED BY <1>1, <1>2, <1>9

LEMMA OrphanBody ==
  ASSUME NEW S \in World, NEW s \in Seq(AnyOp), NEW v \in VF, S.run = "off", OrphanPre(S, v),
         \A T \in World : AfterOrphan(S, T, v) => Good(s, T),
         \A T \in World : FailOrphan(S, T, v) => Good(Landing(s), T)
  PROVE  /\ S.stat[v] # "ACTIVE" => Good(s, S)
         /\ S.stat[v] = "ACTIVE" =>
              Good(Cons(Op("remove", v), Cons(Op("switch", v), Cons(Ignore,
                   Cons(Op("AVAIL", v), Cons(Op("resetvf", v), s))))), S)
<1>1. ASSUME S.stat[v] # "ACTIVE" PROVE Good(s, S)
  <2>1. OkAll(S)
    BY <1>1 DEF OrphanPre, OkBut, OkAll
  <2>2. AfterOrphan(S, S, v)
    BY <1>1, <2>1 DEF AfterOrphan, Held, Stays, OrphanPre
  <2> QED BY <2>2
<1>2. ASSUME S.stat[v] = "ACTIVE"
      PROVE  Good(Cons(Op("remove", v), Cons(Op("switch", v), Cons(Ignore,
                  Cons(Op("AVAIL", v), Cons(Op("resetvf", v), s))))), S)
  <2>0. v \in Fn
    BY FnFacts
  <2>1. PICK a : a = Cons(Op("resetvf", v), s)
    OBVIOUS
  <2>2. PICK b : b = Cons(Op("AVAIL", v), a)
    OBVIOUS
  <2>3. PICK c : c = Cons(Op("switch", v), Cons(Ignore, b))
    OBVIOUS
  <2>4. a \in Seq(AnyOp) /\ b \in Seq(AnyOp)
    BY <2>1, <2>2, Known, ConsHead DEF OfVf
  <2>5. c \in Seq(AnyOp) /\ Cons(Ignore, b) \in Seq(AnyOp)
    BY <2>0, <2>3, <2>4, Known, ConsHead DEF OfFn
  <2>6. ASSUME NEW T \in World, Held(S, T), T.run = "off", OkBut(T, v), v \notin T.ent,
               T.stat[v] = "AVAIL", T.cur \in {PF, v}
        PROVE  Good(a, T)
    <3>1. Tame(T)
      BY <2>6 DEF Tame, OkBut, OkVf
    <3>2. ASSUME NEW U \in World, AfterReset(T, U) PROVE Good(s, U)
      <4>1. CASE Wiped(U)
        <5>1. OkAll(U) /\ U.stat[v] # "ACTIVE" /\ Down(U)
          BY <4>1 DEF Wiped, OkAll, OkVf, Gone, Down, Off
        <5> QED BY <2>6, <3>2, <5>1 DEF AfterReset, AfterOrphan, Held, Stays
      <4>2. CASE Cycled(T, U) /\ U.st = "SAVED"
        <5>1. OkAll(U) /\ U.stat[v] # "ACTIVE"
          BY <2>6, <4>2, FnFacts DEF Cycled, OkAll, OkBut, OkVf
        <5>2. Down(U)
          BY <4>2 DEF Down, Off
        <5> QED BY <2>6, <3>2, <5>1, <5>2 DEF AfterReset, AfterOrphan, Held, Stays
      <4> QED BY <3>2, <4>1, <4>2 DEF AfterReset
    <3>3. ASSUME NEW U \in World, FailReset(T, U) PROVE Good(Landing(s), U)
      <4>1. OkAll(U) /\ U.stat[v] # "ACTIVE"
        BY <2>6, <3>3, FnFacts DEF FailReset, Cycled, OkAll, OkBut, OkVf
      <4> QED BY <2>6, <3>3, <4>1 DEF FailReset, FailOrphan, Failed, Held, Stays
    <3> QED BY <2>1, <2>6, <3>1, <3>2, <3>3, DoReset
  <2>7. ASSUME NEW T \in World, Held(S, T), T.run = "off", OkBut(T, v), v \notin T.ent,
               T.cur \in {PF, v}
        PROVE  Good(b, T)
    <3>1. ASSUME NEW U \in World, AfterSet(T, U, v, "AVAIL") PROVE Good(a, U)
      <4>1. Held(S, U) /\ U.run = "off" /\ v \notin U.ent /\ U.cur \in {PF, v} /\ U.ent = T.ent /\ U.ini = T.ini
        BY <2>7, <3>1 DEF AfterSet, Held, Stays, Engines
      <4>2. /\ U.stat = [T.stat EXCEPT ![v] = "AVAIL"]
            /\ T.stat \in [VF -> {"UNAVAIL", "AVAIL", "ACTIVE", "SUSPEND"}]
        BY <3>1 DEF AfterSet, World
      <4>3. \A u \in VF : U.stat[u] = IF u = v THEN "AVAIL" ELSE T.stat[u]
        BY <4>2
      <4>4. OkBut(U, v)
        BY <2>7, <4>1, <4>3 DEF OkBut, OkVf
      <4> QED BY <2>6, <4>1, <4>3, <4>4
    <3> QED BY <2>2, <2>4, <3>1, DoSet
  <2>8. ASSUME NEW T \in World, AfterRemove(S, T, v) PROVE Good(c, T)
    <3>1. Held(S, T) /\ T.run = "off" /\ T.cur = S.cur /\ v \notin T.ent
      BY <2>8 DEF AfterRemove, Held, Stays
    <3>2. OkBut(T, v)
      BY <2>8 DEF AfterRemove, OkBut, OkVf, OrphanPre
    <3>3. T.st = S.st \/ T.st = "SAVED" \/ (S.cur = v /\ ~Clean(T))
      BY <2>8 DEF AfterRemove, Failed
    <3>4. Clean(T) => T.st # "ABNORMAL"
      BY <3>1, <3>3 DEF OrphanPre, Down, Off, Held, Stays
    <3>5. ASSUME NEW U \in World, AfterSwitch(T, U, v) PROVE Good(Cons(Ignore, b), U)
      <4>1. Held(S, U) /\ U.run = "off" /\ U.cur \in {PF, v} /\ v \notin U.ent
        BY <3>1, <3>5 DEF AfterSwitch, Switched, Held, Stays, On
      <4>2. OkBut(U, v)
        BY <3>2, <3>5 DEF AfterSwitch, Switched, OkBut, OkVf
      <4> QED BY <2>4, <2>7, <4>1, <4>2, Ignored
    <3>6. ASSUME NEW U \in World, FailSwitch(T, U, v) PROVE Good(Landing(Cons(Ignore, b)), U)
      <4>1. Held(S, U) /\ U.run = "off" /\ v \notin U.ent
        BY <3>1, <3>6 DEF FailSwitch, Failed, Switched, Held, Stays
      <4>2. OkBut(U, v)
        BY <3>2, <3>6 DEF FailSwitch, Switched, OkBut, OkVf
      <4>3. U.cur \in {PF, v}
        <5>1. CASE U.cur = v
          BY <5>1
        <5>2. CASE U.cur = T.cur /\ ~Off(T)
          BY <5>2, <1>2, <3>1, <3>3 DEF OrphanPre, Off
        <5> QED BY <3>6, <5>1, <5>2 DEF FailSwitch
      <4> QED BY <2>4, <2>7, <4>1, <4>2, <4>3, Ignored
    <3> QED BY <2>0, <2>3, <2>5, <3>1, <3>4, <3>5, <3>6, DoSwitch
  <2> QED BY <2>1, <2>2, <2>3, <2>5, <2>8, DoRemove
<1> QED BY <1>1, <1>2

LEMMA FiniBody ==
  ASSUME NEW S \in World, NEW s \in Seq(AnyOp), NEW v \in VF, S.run = "off", OkAll(S), Down(S),
         \A T \in World : AfterFini(S, T, v) => Good(s, T),
         \A T \in World : FailFini(S, T) => Good(Landing(s), T)
  PROVE  /\ Good(Landing(s), S)
         /\ Good(Cons(Op("remove", v), Cons(Op("load", v), s)), S)
<1>1. FailFini(S, S)
  BY OkTame DEF FailFini, Held, Stays, AutoPre, OkAll
<1>2. v \in Fn
  BY FnFacts
<1>3. Cons(Op("load", v), s) \in Seq(AnyOp)
  BY <1>2, Known, ConsHead DEF OfFn
<1>4. ASSUME NEW T \in World, AfterRemove(S, T, v) PROVE Good(Cons(Op("load", v), s), T)
  <2>1. Held(S, T) /\ T.run = "off" /\ v \notin T.ent
    BY <1>4 DEF AfterRemove, Held, Stays
  <2>2. OkBut(T, v)
    BY <1>4 DEF AfterRemove, OkAll, OkBut, OkVf
  <2>3. Down(T)
    BY <1>4 DEF AfterRemove, Failed, Held, Stays, Down, Off
  <2>4. ASSUME NEW U \in World, AfterLoad(T, U, v) PROVE Good(s, U)
    <3>1. AfterFini(S, U, v)
      BY <2>1, <2>2, <2>4 DEF AfterLoad, AfterFini, Held, Stays, Vfs, OkBut, OkVf
    <3> QED BY <3>1
  <2>5. ASSUME NEW U \in World, FailLoad(T, U, v) PROVE Good(Landing(s), U)
    <3>1. Held(S, U) /\ U.st = "ABNORMAL" /\ U.cur = v /\ ~Clean(U)
      BY <2>1, <2>5 DEF FailLoad, Failed, Held, Stays
    <3>2. OkBut(U, v) /\ v \notin U.ent
      BY <2>1, <2>2, <2>5 DEF FailLoad, Vfs, OkBut, OkVf
    <3>3. AutoPre(U)
      BY <3>1, <3>2 DEF AutoPre, Tame, Down, OkBut, OkVf
    <3> QED BY <3>1, <3>3 DEF FailFini
  <2> QED BY <1>2, <2>1, <2>3, <2>4, <2>5, DoLoad
<1> QED BY <1>1, <1>3, <1>4, DoRemove

\* The end of a full access, with the engines where the PF left them.
LEMMA EndBody ==
  ASSUME NEW S \in World, NEW s \in Seq(AnyOp), OkAll(S), S.run = "off", Ready(S),
         \A T \in World : AfterTimeout(S, T) => Good(s, T)
  PROVE  Good(Cons(EndFa, Cons(Op("start", None), s)), S)
<1>1. Cons(Op("start", None), s) \in Seq(AnyOp)
  BY Known, ConsHead
<1>2. ASSUME NEW T \in World, AfterEnd(S, T) PROVE Good(Cons(Op("start", None), s), T)
  <2>1. OkAll(T) /\ T.fa = None /\ Ready(T)
    BY <1>2 DEF AfterEnd, Vfs, OkAll, OkVf, Engines
  <2>2. ASSUME NEW U \in World, AfterStart(T, U) PROVE Good(s, U)
    <3>1. AfterTimeout(S, U)
      BY <2>1, <2>2 DEF AfterStart, AfterTimeout, Vfs, OkAll, OkVf
    <3> QED BY <3>1
  <2> QED BY <2>1, <2>2, DoStart
<1> QED BY <1>1, <1>2, DoEndFa DEF EndFa

LEMMA TimeoutBody ==
  ASSUME NEW S \in World, NEW s \in Seq(AnyOp), NEW v \in VF, S.run = "off",
         S.fa = v, S.cur = v, v \notin S.ent, OkBut(S, v),
         \A T \in World : AfterTimeout(S, T) => Good(s, T)
  PROVE  Good(Cons(Op("AVAIL", v), Cons(Op("resetvf", v), Cons(Op("loop", None), Cons(Ignore,
              Cons(EndFa, Cons(Op("start", None), s)))))), S)
<1>1. PICK e : e = Cons(EndFa, Cons(Op("start", None), s))
  OBVIOUS
<1>2. e \in Seq(AnyOp)
  BY <1>1, Known, ConsHead
<1>3. PICK i : i = Cons(Ignore, e)
  OBVIOUS
<1>4. i \in Seq(AnyOp) /\ Landing(i) = e /\ \A T \in World : Good(e, T) => Good(i, T)
  BY <1>2, <1>3, Ignored
<1>5. ASSUME NEW T \in World, OkAll(T), T.run = "off", Ready(T) PROVE Good(e, T)
  <2>1. \A U \in World : AfterTimeout(T, U) => Good(s, U)
    BY DEF AfterTimeout
  <2> QED BY <1>1, <1>5, <2>1, EndBody
<1>6. PICK l : l = Cons(Op("loop", None), i)
  OBVIOUS
<1>7. l \in Seq(AnyOp) /\ Landing(l) = e
  <2>1. Op("loop", None) \in AnyOp /\ Op("loop", None).op # "catch"
    BY Known DEF Op
  <2> QED BY <1>4, <1>6, <2>1, ConsHead, LandingCons
<1>8. ASSUME NEW T \in World, OkAll(T), T.run = "off", Down(T) PROVE Good(l, T)
  <2>1. ASSUME NEW U \in World, AfterLoop(T, U) PROVE Good(i, U)
    <3>1. OkAll(U) /\ U.run = "off" /\ Ready(U)
      BY <1>8, <2>1 DEF AfterLoop, Held, Stays, Down, Ready
    <3> QED BY <1>4, <1>5, <3>1
  <2>2. ASSUME NEW U \in World, FailLoop(T, U) PROVE Good(Landing(i), U)
    <3>1. OkAll(U) /\ U.run = "off" /\ Ready(U)
      BY <1>8, <2>2 DEF FailLoop, Failed, Held, Stays, Ready
    <3> QED BY <1>4, <1>5, <3>1
  <2> QED BY <1>4, <1>6, <1>8, <2>1, <2>2, DoLoop
<1>9. PICK r : r = Cons(Op("resetvf", v), l)
  OBVIOUS
<1>10. r \in Seq(AnyOp)
  BY <1>7, <1>9, Known, ConsHead DEF OfVf
<1>11. ASSUME NEW T \in World, T.run = "off", OkAll(T), T.stat[v] = "AVAIL", T.cur = v PROVE Good(r, T)
  <2>1. Tame(T)
    BY <1>11, OkTame
  <2>2. ASSUME NEW U \in World, Cycled(T, U) PROVE OkAll(U)
    BY <1>11, <2>2 DEF Cycled, OkAll, OkVf
  <2>3. ASSUME NEW U \in World, AfterReset(T, U) PROVE Good(l, U)
    <3>1. U.run = "off" /\ Down(U)
      BY <1>11, <2>3 DEF AfterReset, Held, Stays, Wiped, Down, Off
    <3>2. Wiped(U) => OkAll(U)
      BY DEF Wiped, OkAll, OkVf, Gone
    <3> QED BY <1>8, <2>2, <2>3, <3>1, <3>2 DEF AfterReset
  <2>4. ASSUME NEW U \in World, FailReset(T, U) PROVE Good(Landing(l), U)
    <3>1. OkAll(U) /\ U.run = "off" /\ Ready(U)
      BY <1>11, <2>2, <2>4 DEF FailReset, Failed, Held, Stays, Ready
    <3> QED BY <1>5, <1>7, <3>1
  <2> QED BY <1>7, <1>9, <1>11, <2>1, <2>3, <2>4, DoReset
<1>12. ASSUME NEW T \in World, AfterSet(S, T, v, "AVAIL") PROVE Good(r, T)
  <2>1. T.run = "off" /\ T.cur = v /\ T.ent = S.ent /\ T.ini = S.ini
    BY <1>12 DEF AfterSet, Held, Stays, Engines
  <2>2. /\ T.stat = [S.stat EXCEPT ![v] = "AVAIL"]
        /\ S.stat \in [VF -> {"UNAVAIL", "AVAIL", "ACTIVE", "SUSPEND"}]
    BY <1>12 DEF AfterSet, World
  <2>3. \A u \in VF : T.stat[u] = IF u = v THEN "AVAIL" ELSE S.stat[u]
    BY <2>2
  <2>4. OkAll(T)
    BY <2>1, <2>3 DEF OkAll, OkBut, OkVf
  <2> QED BY <1>11, <2>1, <2>3, <2>4
<1>13. Good(Cons(Op("AVAIL", v), r), S)
  BY <1>10, <1>12, DoSet
<1> QED BY <1>1, <1>3, <1>6, <1>9, <1>13

-----------------------------------------------------------------------------
(* The handlers.                                                           *)

\* The world switch has been stopped, and who hung the engines was reset.
Halted(S) == OkAll(S) /\ S.fa = None /\ S.run = "off" /\ S.st # "LOADED" /\ Down(S)
Mended(S) == Halted(S) /\ (S.st = "ABNORMAL" => S.cur = PF)

LEMMA FinalIdle ==
  ASSUME NEW S \in World, OkAll(S), S.fa = None, Ready(S)
  PROVE  Final(S)
BY FnFacts DEF Final, Settled, OkAll

LEMMA IdleFinal ==
  ASSUME NEW S \in World, Final(S), S.fa = None
  PROVE  OkAll(S) /\ Ready(S)
BY FnFacts DEF Final, Settled, OkAll

LEMMA Halt ==
  ASSUME NEW S \in World, NEW s \in Seq(AnyOp), Final(S), S.fa = None,
         \A T \in World : Halted(T) => Good(s, T)
  PROVE  Good(Cons(Op("stop", None), s), S)
<1>1. OkAll(S) /\ Ready(S)
  BY IdleFinal
<1>2. ASSUME NEW T \in World, AfterStop(S, T) PROVE Good(s, T)
  <2>1. Halted(T)
    BY <1>1, <1>2 DEF AfterStop, Halted, Held, Vfs, OkAll, OkVf
  <2> QED BY <2>1
<1> QED BY <1>1, <1>2, DoStop

LEMMA AutoOps ==
  /\ AutoReset = Cons(Op("auto", None), Cons(Ignore, <<>>))
  /\ AutoReset \in Seq(Ops1) /\ Catch(AutoReset) \in AnyOp /\ IfBad(AutoReset) \in AnyOp
  /\ \A s \in Seq(AnyOp) : AutoReset \o s = Cons(Op("auto", None), Cons(Ignore, s))
<1>1. PICK a : a = Op("auto", None)
  OBVIOUS
<1>2. a \in AnyOp /\ Ignore \in AnyOp
  BY <1>1, Known
<1>3. a \in Ops0 /\ Ignore \in Ops0
  <2>1. "auto" \in Inner \ (OfVf \union OfFn)
    BY DEF Inner, Raising, OfVf, OfFn, Grants
  <2> QED BY <1>1, <2>1, PlainOps, Branches
<1>4. <<a, Ignore>> \in Seq(Ops0)
  BY <1>3
<1>5. AutoReset = <<a, Ignore>>
  BY <1>1 DEF AutoReset
<1>6. AutoReset \in Seq(Ops1) /\ Catch(AutoReset) \in AnyOp /\ IfBad(AutoReset) \in AnyOp
  BY <1>4, <1>5, Levels, Branches
<1>7. <<a, Ignore>> = Cons(a, <<Ignore>>) /\ <<Ignore>> = Cons(Ignore, <<>>)
  BY <1>2, Written
<1>8. ASSUME NEW s \in Seq(AnyOp) PROVE AutoReset \o s = Cons(a, Cons(Ignore, s))
  <2>1. <<>> \in Seq(AnyOp)
    OBVIOUS
  <2>2. Cons(Ignore, <<>>) \o s = Cons(Ignore, <<>> \o s) /\ <<>> \o s = s
    BY <1>2, <2>1, ConsCat, Zenon
  <2>3. Cons(Ignore, <<>>) \in Seq(AnyOp)
    BY <1>2, <2>1, ConsHead
  <2>4. Cons(a, Cons(Ignore, <<>>)) \o s = Cons(a, Cons(Ignore, <<>>) \o s)
    BY <1>2, <2>3, ConsCat, Zenon
  <2> QED BY <1>5, <1>7, <2>2, <2>4
<1> QED BY <1>1, <1>5, <1>6, <1>7, <1>8

LEMMA Mend ==
  ASSUME NEW S \in World, NEW s \in Seq(AnyOp), Halted(S),
         \A T \in World : Mended(T) => Good(s, T)
  PROVE  Good(Cons(IfBad(AutoReset), s), S)
<1>1. PICK o : o = IfBad(AutoReset)
  OBVIOUS
<1>2. o \in AnyOp /\ o.op = "ifbad" /\ o.h = AutoReset
  BY <1>1, AutoOps DEF IfBad
<1>3. o.op \in Tests /\ (Holds(o, S) <=> S.st = "ABNORMAL") /\ S.run = "off"
  BY <1>2 DEF Tests, Holds, Halted
<1>4. ASSUME S.st = "ABNORMAL" PROVE Good(AutoReset \o s, S)
  <2>1. AutoPre(S)
    BY OkTame DEF AutoPre, Halted, OkAll
  <2>2. ASSUME NEW T \in World, AfterAuto(S, T) \/ FailAuto(S, T) PROVE Good(s, T)
    <3>1. Mended(T)
      BY <1>4, <2>2 DEF AfterAuto, FailAuto, Mended, Halted, Failed, Held, Stays, Down, On
    <3> QED BY <3>1
  <2>3. Good(Cons(Op("auto", None), Cons(Ignore, s)), S)
    BY <1>3, <2>1, <2>2, AutoBranch
  <2> QED BY <2>3, AutoOps
<1>5. ASSUME S.st # "ABNORMAL" PROVE Good(s, S)
  BY <1>5 DEF Mended
<1>6. Good(Cons(o, s), S)
  BY <1>2, <1>3, <1>4, <1>5, DoTest
<1> QED BY <1>1, <1>6

LEMMA Begin ==
  ASSUME NEW S \in World, NEW s \in Seq(AnyOp), Final(S), S.fa = None,
         \A T \in World : Mended(T) => Good(s, T)
  PROVE  Good(Cons(Op("stop", None), Cons(IfBad(AutoReset), s)), S)
<1>1. Cons(IfBad(AutoReset), s) \in Seq(AnyOp)
  BY AutoOps, ConsHead
<1> QED BY <1>1, Halt, Mend

\* A branch that resets who hangs the engines and goes on.
LEMMA Resets ==
  ASSUME NEW s \in Seq(AnyOp), NEW c, c = Catch(AutoReset)
  PROVE  /\ c \in AnyOp /\ Cons(c, s) \in Seq(AnyOp)
         /\ \A S \in World : Good(s, S) => Good(Cons(c, s), S)
         /\ \A S \in World :
              /\ S.run = "off" /\ AutoPre(S)
              /\ \A T \in World : AfterAuto(S, T) \/ FailAuto(S, T) => Good(s, T)
              => Good(Landing(Cons(c, s)), S)
<1>1. c \in AnyOp /\ c.op = "catch" /\ c.h = AutoReset
  BY AutoOps DEF Catch
<1>2. Cons(c, s) \in Seq(AnyOp) /\ Landing(Cons(c, s)) = AutoReset \o s
  BY <1>1, ConsHead, LandingCons
<1>3. Landing(Cons(c, s)) = Cons(Op("auto", None), Cons(Ignore, s))
  BY <1>2, AutoOps
<1>4. \A S \in World : Good(s, S) => Good(Cons(c, s), S)
  BY <1>1, DoCatch
<1> QED BY <1>1, <1>2, <1>3, <1>4, AutoBranch

\* A branch that resets who hangs the engines and leaves the handler.
LEMMA GivesUp ==
  ASSUME NEW s \in Seq(AnyOp)
  PROVE  /\ GiveUp \in Seq(Ops1)
         /\ \A S \in World : S.run = "off" /\ AutoPre(S) /\ S.fa = None => Good(GiveUp \o s, S)
<1>1. GiveUp \in Seq(Ops1)
  <2>1. Return \in Ops1
    BY PlainOps, Levels
  <2>2. <<Return>> \in Seq(Ops1)
    BY <2>1
  <2> QED BY <2>2, AutoOps, ConcatProperties DEF GiveUp
<1>2. Return \in AnyOp /\ <<Return>> \in Seq(AnyOp)
  BY Known
<1>3. GiveUp \o s = Cons(Op("auto", None), Cons(Ignore, Cons(Return, s)))
  <2>1. AutoReset \in Seq(AnyOp)
    BY AutoOps, Levels
  <2>2. GiveUp \o s = AutoReset \o (<<Return>> \o s)
    BY <1>2, <2>1, ConcatAssociative DEF GiveUp
  <2>3. <<Return>> \o s = Cons(Return, s) /\ Cons(Return, s) \in Seq(AnyOp)
    BY <1>2, ConsHead DEF Cons
  <2> QED BY <2>2, <2>3, AutoOps
<1>4. ASSUME NEW S \in World, S.run = "off", AutoPre(S), S.fa = None
      PROVE  Good(Cons(Op("auto", None), Cons(Ignore, Cons(Return, s))), S)
  <2>1. ASSUME NEW T \in World, AfterAuto(S, T) \/ FailAuto(S, T) PROVE Good(Cons(Return, s), T)
    <3>1. T.fa = None
      BY <1>4, <2>1 DEF AfterAuto, FailAuto, Failed, Held
    <3>2. OkAll(T)
      BY <1>4, <2>1 DEF AfterAuto, FailAuto, AutoPre, OkAll, OkVf, Vfs
    <3>3. Ready(T)
      BY <1>4, <2>1 DEF AfterAuto, FailAuto, Failed, AutoPre, Held, Stays, Down, Ready, Off, On
    <3> QED BY <1>2, <3>1, <3>2, <3>3, FinalIdle, DoReturn
  <2> QED BY <1>2, <1>4, <2>1, ConsHead, AutoBranch
<1> QED BY <1>1, <1>3, <1>4

LEMMA CatchGivesUp ==
  ASSUME NEW s \in Seq(AnyOp), NEW c, c = Catch(GiveUp)
  PROVE  /\ c \in AnyOp /\ c.op = "catch" /\ Cons(c, s) \in Seq(AnyOp)
         /\ \A S \in World : Good(s, S) => Good(Cons(c, s), S)
         /\ \A S \in World : S.run = "off" /\ AutoPre(S) /\ S.fa = None => Good(Landing(Cons(c, s)), S)
<1>1. c \in AnyOp /\ c.op = "catch" /\ c.h = GiveUp
  BY GivesUp, Branches, Levels DEF Catch
<1>2. Cons(c, s) \in Seq(AnyOp) /\ Landing(Cons(c, s)) = GiveUp \o s
  BY <1>1, ConsHead, LandingCons
<1> QED BY <1>1, <1>2, DoCatch, GivesUp

\* A handler as it is written, and its operations one by one.
Spells(l, s) == l = s
LEMMA SpellsOn ==
  ASSUME NEW l, NEW a, NEW t, NEW s, Spells(l, Cons(a, t)), Spells(t, s)
  PROVE  Spells(l, Cons(a, s))
BY DEF Spells

LEMMA Spelled ==
  /\ \A a \in AnyOp : Spells(<<a>>, Cons(a, <<>>))
  /\ \A a, b \in AnyOp : Spells(<<a, b>>, Cons(a, Cons(b, <<>>)))
  /\ \A a, b, c \in AnyOp : Spells(<<a, b, c>>, Cons(a, Cons(b, Cons(c, <<>>))))
  /\ \A a, b, c, d \in AnyOp : Spells(<<a, b, c, d>>, Cons(a, Cons(b, Cons(c, Cons(d, <<>>)))))
  /\ \A a, b, c, d, e \in AnyOp :
       Spells(<<a, b, c, d, e>>, Cons(a, Cons(b, Cons(c, Cons(d, Cons(e, <<>>))))))
  /\ \A a, b, c, d, e, f \in AnyOp :
       Spells(<<a, b, c, d, e, f>>, Cons(a, Cons(b, Cons(c, Cons(d, Cons(e, Cons(f, <<>>)))))))
  /\ \A a, b, c, d, e, f, g \in AnyOp :
       Spells(<<a, b, c, d, e, f, g>>, Cons(a, Cons(b, Cons(c, Cons(d, Cons(e, Cons(f, Cons(g, <<>>))))))))
<1>1. ASSUME NEW a \in AnyOp
      PROVE  Spells(<<a>>, Cons(a, <<>>))
  BY DEF Spells, Cons
<1>2. ASSUME NEW a \in AnyOp, NEW b \in AnyOp
      PROVE  Spells(<<a, b>>, Cons(a, Cons(b, <<>>)))
  <2>1. Spells(<<a, b>>, Cons(a, <<b>>))
    <3>1. <<a, b>> = Cons(a, <<b>>)
      BY Written
    <3> QED BY <3>1 DEF Spells
  <2>2. Spells(<<b>>, Cons(b, <<>>))
    BY <1>1
  <2> QED BY <2>1, <2>2, SpellsOn
<1>3. ASSUME NEW a \in AnyOp, NEW b \in AnyOp, NEW c \in AnyOp
      PROVE  Spells(<<a, b, c>>, Cons(a, Cons(b, Cons(c, <<>>))))
  <2>1. Spells(<<a, b, c>>, Cons(a, <<b, c>>))
    BY DEF Spells, Cons
  <2>2. Spells(<<b, c>>, Cons(b, Cons(c, <<>>)))
    BY <1>2
  <2> QED BY <2>1, <2>2, SpellsOn
<1>4. ASSUME NEW a \in AnyOp, NEW b \in AnyOp, NEW c \in AnyOp, NEW d \in AnyOp
      PROVE  Spells(<<a, b, c, d>>, Cons(a, Cons(b, Cons(c, Cons(d, <<>>)))))
  <2>1. Spells(<<a, b, c, d>>, Cons(a, <<b, c, d>>))
    BY DEF Spells, Cons
  <2>2. Spells(<<b, c, d>>, Cons(b, Cons(c, Cons(d, <<>>))))
    BY <1>3
  <2> QED BY <2>1, <2>2, SpellsOn
<1>5. ASSUME NEW a \in AnyOp, NEW b \in AnyOp, NEW c \in AnyOp, NEW d \in AnyOp, NEW e \in AnyOp
      PROVE  Spells(<<a, b, c, d, e>>, Cons(a, Cons(b, Cons(c, Cons(d, Cons(e, <<>>))))))
  <2>1. Spells(<<a, b, c, d, e>>, Cons(a, <<b, c, d, e>>))
    BY DEF Spells, Cons
  <2>2. Spells(<<b, c, d, e>>, Cons(b, Cons(c, Cons(d, Cons(e, <<>>)))))
    BY <1>4
  <2> QED BY <2>1, <2>2, SpellsOn
<1>6. ASSUME NEW a \in AnyOp, NEW b \in AnyOp, NEW c \in AnyOp, NEW d \in AnyOp, NEW e \in AnyOp,
             NEW f \in AnyOp
      PROVE  Spells(<<a, b, c, d, e, f>>, Cons(a, Cons(b, Cons(c, Cons(d, Cons(e, Cons(f, <<>>)))))))
  <2>1. Spells(<<a, b, c, d, e, f>>, Cons(a, <<b, c, d, e, f>>))
    BY DEF Spells, Cons
  <2>2. Spells(<<b, c, d, e, f>>, Cons(b, Cons(c, Cons(d, Cons(e, Cons(f, <<>>))))))
    BY <1>5
  <2> QED BY <2>1, <2>2, SpellsOn
<1>7. ASSUME NEW a \in AnyOp, NEW b \in AnyOp, NEW c \in AnyOp, NEW d \in AnyOp, NEW e \in AnyOp,
             NEW f \in AnyOp, NEW g \in AnyOp
      PROVE  Spells(<<a, b, c, d, e, f, g>>,
                    Cons(a, Cons(b, Cons(c, Cons(d, Cons(e, Cons(f, Cons(g, <<>>))))))))
  <2>1. Spells(<<a, b, c, d, e, f, g>>, Cons(a, <<b, c, d, e, f, g>>))
    BY DEF Spells, Cons
  <2>2. Spells(<<b, c, d, e, f, g>>, Cons(b, Cons(c, Cons(d, Cons(e, Cons(f, Cons(g, <<>>)))))))
    BY <1>6
  <2> QED BY <2>1, <2>2, SpellsOn
<1> QED BY <1>1, <1>2, <1>3, <1>4, <1>5, <1>6, <1>7

\* The same for what is written in front of more.
Joins(t, s, u) == t \in Seq(AnyOp) /\ u \in Seq(AnyOp) /\ t \o s = u
LEMMA JoinsOn ==
  ASSUME NEW s \in Seq(AnyOp)
  PROVE  /\ Joins(<<>>, s, s)
         /\ \A t, u : \A a \in AnyOp : Joins(t, s, u) => Joins(Cons(a, t), s, Cons(a, u))
<1>1. Joins(<<>>, s, s)
  BY DEF Joins
<1>2. ASSUME NEW t, NEW u, NEW a \in AnyOp, Joins(t, s, u) PROVE Joins(Cons(a, t), s, Cons(a, u))
  <2>1. t \in Seq(AnyOp) /\ u \in Seq(AnyOp) /\ t \o s = u
    BY <1>2 DEF Joins
  <2>2. Cons(a, t) \in Seq(AnyOp) /\ Cons(a, u) \in Seq(AnyOp)
    BY <2>1, ConsHead
  <2>3. Cons(a, t) \o s = Cons(a, t \o s)
    <3>1. <<a>> \in Seq(AnyOp) /\ t \in Seq(AnyOp)
      BY <2>1
    <3>2. (<<a>> \o t) \o s = <<a>> \o (t \o s)
      BY <3>1, ConcatAssociative
    <3> QED BY <3>2 DEF Cons
  <2> QED BY <2>1, <2>2, <2>3 DEF Joins
<1> QED BY <1>1, <1>2

LEMMA JoinsSpells ==
  ASSUME NEW l, NEW t, NEW s, NEW u, Spells(l, t), Joins(t, s, u)
  PROVE  Spells(l \o s, u)
BY DEF Spells, Joins

LEMMA SpelledCat ==
  ASSUME NEW s \in Seq(AnyOp)
  PROVE  /\ \A a \in AnyOp :
              Spells(<<a>> \o s, Cons(a, s))
         /\ \A a, b \in AnyOp :
              Spells(<<a, b>> \o s, Cons(a, Cons(b, s)))
         /\ \A a, b, c \in AnyOp :
              Spells(<<a, b, c>> \o s, Cons(a, Cons(b, Cons(c, s))))
         /\ \A a, b, c, d \in AnyOp :
              Spells(<<a, b, c, d>> \o s, Cons(a, Cons(b, Cons(c, Cons(d, s)))))
         /\ \A a, b, c, d, e \in AnyOp :
              Spells(<<a, b, c, d, e>> \o s, Cons(a, Cons(b, Cons(c, Cons(d, Cons(e, s))))))
         /\ \A a, b, c, d, e, f \in AnyOp :
              Spells(<<a, b, c, d, e, f>> \o s, Cons(a, Cons(b, Cons(c, Cons(d, Cons(e, Cons(f, s)))))))
<1>1. ASSUME NEW a \in AnyOp
      PROVE  Joins(Cons(a, <<>>), s, Cons(a, s))
  BY JoinsOn
<1>2. ASSUME NEW a \in AnyOp, NEW b \in AnyOp
      PROVE  Joins(Cons(a, Cons(b, <<>>)), s, Cons(a, Cons(b, s)))
  BY <1>1, JoinsOn
<1>3. ASSUME NEW a \in AnyOp, NEW b \in AnyOp, NEW c \in AnyOp
      PROVE  Joins(Cons(a, Cons(b, Cons(c, <<>>))), s, Cons(a, Cons(b, Cons(c, s))))
  BY <1>2, JoinsOn
<1>4. ASSUME NEW a \in AnyOp, NEW b \in AnyOp, NEW c \in AnyOp, NEW d \in AnyOp
      PROVE  Joins(Cons(a, Cons(b, Cons(c, Cons(d, <<>>)))), s, Cons(a, Cons(b, Cons(c, Cons(d, s)))))
  BY <1>3, JoinsOn
<1>5. ASSUME NEW a \in AnyOp, NEW b \in AnyOp, NEW c \in AnyOp, NEW d \in AnyOp, NEW e \in AnyOp
      PROVE  Joins(Cons(a, Cons(b, Cons(c, Cons(d, Cons(e, <<>>))))), s,
                   Cons(a, Cons(b, Cons(c, Cons(d, Cons(e, s))))))
  BY <1>4, JoinsOn
<1>6. ASSUME NEW a \in AnyOp, NEW b \in AnyOp, NEW c \in AnyOp, NEW d \in AnyOp, NEW e \in AnyOp,
             NEW f \in AnyOp
      PROVE  Joins(Cons(a, Cons(b, Cons(c, Cons(d, Cons(e, Cons(f, <<>>)))))), s,
                   Cons(a, Cons(b, Cons(c, Cons(d, Cons(e, Cons(f, s)))))))
  BY <1>5, JoinsOn
<1>7. ASSUME NEW a \in AnyOp
      PROVE  Spells(<<a>> \o s, Cons(a, s))
  <2>1. Spells(<<a>>, Cons(a, <<>>))
    BY Spelled
  <2>2. Joins(Cons(a, <<>>), s, Cons(a, s))
    BY <1>1
  <2> QED BY <2>1, <2>2, JoinsSpells
<1>8. ASSUME NEW a \in AnyOp, NEW b \in AnyOp
      PROVE  Spells(<<a, b>> \o s, Cons(a, Cons(b, s)))
  <2>1. Spells(<<a, b>>, Cons(a, Cons(b, <<>>)))
    BY Spelled
  <2>2. Joins(Cons(a, Cons(b, <<>>)), s, Cons(a, Cons(b, s)))
    BY <1>2
  <2> QED BY <2>1, <2>2, JoinsSpells
<1>9. ASSUME NEW a \in AnyOp, NEW b \in AnyOp, NEW c \in AnyOp
      PROVE  Spells(<<a, b, c>> \o s, Cons(a, Cons(b, Cons(c, s))))
  <2>1. Spells(<<a, b, c>>, Cons(a, Cons(b, Cons(c, <<>>))))
    BY Spelled
  <2>2. Joins(Cons(a, Cons(b, Cons(c, <<>>))), s, Cons(a, Cons(b, Cons(c, s))))
    BY <1>3
  <2> QED BY <2>1, <2>2, JoinsSpells
<1>10. ASSUME NEW a \in AnyOp, NEW b \in AnyOp, NEW c \in AnyOp, NEW d \in AnyOp
      PROVE  Spells(<<a, b, c, d>> \o s, Cons(a, Cons(b, Cons(c, Cons(d, s)))))
  <2>1. Spells(<<a, b, c, d>>, Cons(a, Cons(b, Cons(c, Cons(d, <<>>)))))
    BY Spelled
  <2>2. Joins(Cons(a, Cons(b, Cons(c, Cons(d, <<>>)))), s, Cons(a, Cons(b, Cons(c, Cons(d, s)))))
    BY <1>4
  <2> QED BY <2>1, <2>2, JoinsSpells
<1>11. ASSUME NEW a \in AnyOp, NEW b \in AnyOp, NEW c \in AnyOp, NEW d \in AnyOp, NEW e \in AnyOp
      PROVE  Spells(<<a, b, c, d, e>> \o s, Cons(a, Cons(b, Cons(c, Cons(d, Cons(e, s))))))
  <2>1. Spells(<<a, b, c, d, e>>, Cons(a, Cons(b, Cons(c, Cons(d, Cons(e, <<>>))))))
    BY Spelled
  <2>2. Joins(Cons(a, Cons(b, Cons(c, Cons(d, Cons(e, <<>>))))), s,
              Cons(a, Cons(b, Cons(c, Cons(d, Cons(e, s))))))
    BY <1>5
  <2> QED BY <2>1, <2>2, JoinsSpells
<1>12. ASSUME NEW a \in AnyOp, NEW b \in AnyOp, NEW c \in AnyOp, NEW d \in AnyOp, NEW e \in AnyOp,
              NEW f \in AnyOp
      PROVE  Spells(<<a, b, c, d, e, f>> \o s, Cons(a, Cons(b, Cons(c, Cons(d, Cons(e, Cons(f, s)))))))
  <2>1. Spells(<<a, b, c, d, e, f>>, Cons(a, Cons(b, Cons(c, Cons(d, Cons(e, Cons(f, <<>>)))))))
    BY Spelled
  <2>2. Joins(Cons(a, Cons(b, Cons(c, Cons(d, Cons(e, Cons(f, <<>>)))))), s,
              Cons(a, Cons(b, Cons(c, Cons(d, Cons(e, Cons(f, s)))))))
    BY <1>6
  <2> QED BY <2>1, <2>2, JoinsSpells
<1> QED BY <1>7, <1>8, <1>9, <1>10, <1>11, <1>12

LEMMA Empty == <<>> \in Seq(AnyOp)
OBVIOUS

\* Giving a VF full access to start its driver.
LEMMA EnterForInitGood ==
  ASSUME NEW S \in World, Final(S), S.fa = None, NEW v \in VF
  PROVE  Good(EnterForInit(v), S)
<1> DEFINE c == Catch(GiveUp)
           g == Cons(Op("grantinit", v), <<>>)
           i == Cons(Op("init", v), Cons(c, g))
           o == Cons(Op("orphan", v), Cons(c, i))
<1>0. v \in Fn /\ Op("grantinit", v) \in AnyOp /\ Op("init", v) \in AnyOp /\ Op("orphan", v) \in AnyOp
      /\ Op("stop", None) \in AnyOp /\ IfBad(AutoReset) \in AnyOp
  BY FnFacts, Known, AutoOps DEF OfVf, OfFn, Grants
<1>1. c \in AnyOp
  BY CatchGivesUp, Empty
<1>2. g \in Seq(AnyOp)
  BY <1>0, Empty, ConsHead
<1>3. ASSUME NEW T \in World, OkAll(T), T.run = "off", T.stat[v] # "ACTIVE", v \in T.ini
      PROVE  Good(g, T)
  <2>1. ASSUME NEW U \in World, AfterGrant(T, U, v, "init") PROVE Good(<<>>, U)
    <3>1. Final(U)
      BY <1>3, <2>1, FnFacts DEF AfterGrant, Vfs, Final, Settled, OkAll, OkVf
    <3> QED BY <3>1, DoEnd
  <2> QED BY <1>3, <2>1, Empty, DoGrantInit
<1> HIDE DEF c, g
<1>4. Cons(c, g) \in Seq(AnyOp) /\ i \in Seq(AnyOp)
  BY <1>0, <1>1, <1>2, ConsHead
<1>5. ASSUME NEW T \in World, OkAll(T), T.run = "off", T.fa = None, T.stat[v] # "ACTIVE", Down(T)
      PROVE  Good(i, T)
  <2>1. ASSUME NEW U \in World, AfterInit(T, U, v) PROVE Good(Cons(c, g), U)
    <3>1. OkAll(U) /\ U.run = "off" /\ U.stat[v] # "ACTIVE" /\ v \in U.ini
      BY <1>5, <2>1 DEF AfterInit, Inits, Held, Stays, OkAll, OkVf
    <3>2. Good(g, U)
      BY <1>3, <3>1
    <3> QED BY <1>2, <3>2, CatchGivesUp DEF c
  <2>2. ASSUME NEW U \in World, FailInit(T, U, v) PROVE Good(Landing(Cons(c, g)), U)
    <3>1. OkAll(U) /\ U.run = "off" /\ ~Clean(U) /\ U.fa = None
      BY <1>5, <2>2 DEF FailInit, Inits, Failed, Held, Stays, OkAll, OkVf
    <3>2. AutoPre(U)
      BY <3>1, OkTame DEF AutoPre, Down, OkAll
    <3> QED BY <1>2, <3>1, <3>2, CatchGivesUp DEF c
  <2> QED BY <1>0, <1>4, <1>5, <2>1, <2>2, DoInit
<1> HIDE DEF i
<1>6. Cons(c, i) \in Seq(AnyOp) /\ o \in Seq(AnyOp)
  BY <1>0, <1>1, <1>4, ConsHead
<1>7. ASSUME NEW T \in World, Mended(T) PROVE Good(o, T)
  <2>0. OkAll(T) /\ T.run = "off" /\ T.fa = None
    BY <1>7 DEF Mended, Halted
  <2>1. OrphanPre(T, v)
    BY <1>7, <2>0, OkTame DEF Mended, Halted, OrphanPre, Off, OkAll, World
  <2>2. ASSUME NEW U \in World, AfterOrphan(T, U, v) PROVE Good(Cons(c, i), U)
    <3>1. Good(i, U)
      BY <1>5, <2>0, <2>2 DEF AfterOrphan, Held, Stays
    <3> QED BY <1>4, <3>1, CatchGivesUp DEF c
  <2>3. ASSUME NEW U \in World, FailOrphan(T, U, v) PROVE Good(Landing(Cons(c, i)), U)
    <3>1. OkAll(U) /\ U.run = "off" /\ ~Clean(U) /\ U.fa = None
      BY <2>0, <2>3 DEF FailOrphan, Failed, Held, Stays
    <3>2. AutoPre(U)
      BY <3>1, OkTame DEF AutoPre, Down, OkAll
    <3> QED BY <1>4, <3>1, <3>2, CatchGivesUp DEF c
  <2> QED BY <1>6, <2>0, <2>1, <2>2, <2>3, DoOrphan
<1>8. Good(Cons(Op("stop", None), Cons(IfBad(AutoReset), o)), S)
  BY <1>6, <1>7, Begin
<1>9. EnterForInit(v) = Cons(Op("stop", None), Cons(IfBad(AutoReset), o))
  <2>1. Spells(EnterForInit(v),
               Cons(Op("stop", None), Cons(IfBad(AutoReset), Cons(Op("orphan", v), Cons(c,
               Cons(Op("init", v), Cons(c, Cons(Op("grantinit", v), <<>>))))))))
    BY <1>0, <1>1, Spelled DEF EnterForInit, c
  <2> QED BY <2>1 DEF g, i, Spells
<1> QED BY <1>8, <1>9

\* Giving a VF full access to close its driver.
LEMMA EnterForFiniGood ==
  ASSUME NEW S \in World, Final(S), S.fa = None, NEW v \in VF
  PROVE  Good(EnterForFini(v), S)
<1> DEFINE c == Catch(GiveUp)
           g == Cons(Op("grantfini", v), <<>>)
           n == Cons(Op("fini", v), Cons(c, g))
           b == Cons(IfBad(AutoReset), n)
           u == IfHung(v, GiveUp)
<1>0. /\ Op("grantfini", v) \in AnyOp /\ Op("fini", v) \in AnyOp /\ Op("stop", None) \in AnyOp
      /\ IfBad(AutoReset) \in AnyOp
  BY Known, AutoOps DEF OfVf, Grants
<1>1. c \in AnyOp /\ u \in AnyOp /\ u.op = "ifhung" /\ u.h = GiveUp /\ u.f = v
  BY CatchGivesUp, GivesUp, Empty, Branches, Levels DEF IfHung
<1>2. g \in Seq(AnyOp)
  BY <1>0, Empty, ConsHead
<1>3. ASSUME NEW T \in World, OkBut(T, v), T.run = "off", v \notin T.ent PROVE Good(g, T)
  <2>1. ASSUME NEW U \in World, AfterGrant(T, U, v, "fini") PROVE Good(<<>>, U)
    <3>1. Final(U)
      BY <1>3, <2>1, FnFacts DEF AfterGrant, Vfs, Final, Settled, OkBut, OkVf
    <3> QED BY <3>1, DoEnd
  <2> QED BY <1>3, <2>1, Empty, DoGrantFini
<1> HIDE DEF c, g, u
<1>4. Cons(c, g) \in Seq(AnyOp) /\ n \in Seq(AnyOp)
  BY <1>0, <1>1, <1>2, ConsHead
<1>5. ASSUME NEW T \in World, Mended(T) PROVE Good(n, T)
  <2>0. OkAll(T) /\ T.run = "off" /\ T.fa = None /\ Down(T)
    BY <1>5 DEF Mended, Halted
  <2>1. ASSUME NEW U \in World, AfterFini(T, U, v) PROVE Good(Cons(c, g), U)
    <3>1. Good(g, U)
      BY <1>3, <2>0, <2>1 DEF AfterFini, Held, Stays
    <3> QED BY <1>2, <3>1, CatchGivesUp DEF c
  <2>2. ASSUME NEW U \in World, FailFini(T, U) PROVE Good(Landing(Cons(c, g)), U)
    <3>1. AutoPre(U) /\ U.run = "off" /\ U.fa = None
      BY <2>0, <2>2 DEF FailFini, Held, Stays
    <3> QED BY <1>2, <3>1, CatchGivesUp DEF c
  <2> QED BY <1>4, <2>0, <2>1, <2>2, DoFini
<1> HIDE DEF n
<1>6. b \in Seq(AnyOp)
  BY <1>0, <1>4, ConsHead
<1>7. ASSUME NEW T \in World, Halted(T) PROVE Good(Cons(u, b), T)
  <2>1. Good(b, T)
    BY <1>4, <1>5, <1>7, Mend
  <2>2. AutoPre(T) /\ T.run = "off" /\ T.fa = None
    BY <1>7, OkTame DEF Halted, AutoPre, OkAll
  <2>3. Good(GiveUp \o b, T)
    BY <1>6, <2>2, GivesUp
  <2>4. u.op \in Tests
    BY <1>1 DEF Tests
  <2> QED BY <1>1, <1>6, <2>1, <2>2, <2>3, <2>4, DoTest
<1>8. Cons(u, b) \in Seq(AnyOp)
  BY <1>1, <1>6, ConsHead
<1>9. Good(Cons(Op("stop", None), Cons(u, b)), S)
  BY <1>7, <1>8, Halt
<1>10. EnterForFini(v) = Cons(Op("stop", None), Cons(u, b))
  <2>1. Spells(EnterForFini(v),
               Cons(Op("stop", None), Cons(u, Cons(IfBad(AutoReset), Cons(Op("fini", v), Cons(c,
               Cons(Op("grantfini", v), <<>>)))))))
    BY <1>0, <1>1, Spelled DEF EnterForFini, c, u
  <2> QED BY <2>1 DEF g, n, Spells
<1> QED BY <1>9, <1>10
LEMMA OpsKnown ==
  /\ \A o \in {"stop", "lock", "unlock", "save", "wgr", "endfa", "loop", "auto", "start", "idle"} :
       Op(o, None) \in AnyOp
  /\ \A o \in {"add", "remove", "AVAIL", "SUSPEND", "UNAVAIL", "shutdown", "shut", "crash", "saved",
               "orphan", "resetvf", "timeout"}, v \in VF : Op(o, v) \in AnyOp
  /\ Op("switch", PF) \in AnyOp /\ Ignore \in AnyOp /\ Return \in AnyOp /\ EndFa \in AnyOp
  /\ IfBad(AutoReset) \in AnyOp /\ Catch(AutoReset) \in AnyOp /\ Catch(GiveUp) \in AnyOp
  /\ IfBad(AutoOrEnd) \in AnyOp
  /\ \A v \in VF : /\ IfActive(v, <<Op("resetvf", v), Ignore>>) \in AnyOp
                   /\ IfActive(v, <<Op("remove", v)>>) \in AnyOp
                   /\ IfActive(v, <<Op("resetvf", v), Ignore, Op("remove", v)>>) \in AnyOp
  /\ \A b \in Seq(Ops1) : Catch(b) \in AnyOp
  /\ \A s \in Seq(AnyOp) : \A o \in AnyOp : Cons(o, s) \in Seq(AnyOp)
<1>1. \A o \in {"add", "remove", "AVAIL", "SUSPEND", "UNAVAIL", "shutdown", "shut", "crash", "saved",
               "orphan", "resetvf", "timeout"} : o \in OfVf \ {"ifhung", "ifactive"}
  BY DEF OfVf
<1>2. "switch" \in OfFn
  BY DEF OfFn
<1> QED BY <1>1, <1>2, Known, HandlerOps, Levels, FnFacts, ConsHead

LEMMA SpellsGood ==
  ASSUME NEW l, NEW s, Spells(l, s), NEW S, Good(s, S)
  PROVE  Good(l, S)
BY DEF Spells

\* A handler is done.
LEMMA Finish ==
  ASSUME NEW S \in World, OkAll(S), S.fa = None, Ready(S)
  PROVE  Good(<<>>, S)
BY FinalIdle, DoEnd

LEMMA NopFinal ==
  ASSUME NEW S \in World, NEW T \in World, Final(S), AfterNop(S, T)
  PROVE  Final(T)
BY DEF Final, AfterNop, Held, Vfs, Engines, Settled, OkVf

LEMMA NopGood ==
  ASSUME NEW S \in World, Final(S)
  PROVE  /\ \A x \in {"shutdown", "shut", "crash"}, v \in VF : Good(Cons(Op(x, v), <<>>), S)
         /\ \A x \in {"lock", "unlock", "idle"} : Good(Cons(Op(x, None), <<>>), S)
<1>1. \A T \in World : AfterNop(S, T) => Good(<<>>, T)
  BY NopFinal, DoEnd
<1> QED BY <1>1, Empty, DoNop, DoFlag

LEMMA MendedFinal ==
  ASSUME NEW S \in World, Halted(S)
  PROVE  Final(S)
BY FinalIdle DEF Halted, Down, Ready

\* The host stops everything, lets it go, or resets the GPU.
LEMMA WholeGood ==
  ASSUME NEW S \in World, Final(S), S.fa = None
  PROVE  /\ Good(<<Op("stop", None), IfBad(AutoReset), Op("lock", None)>>, S)
         /\ Good(<<Op("unlock", None)>>, S)
         /\ Good(<<Op("stop", None), Op("wgr", None), Ignore>>, S)
<1>1. Good(<<Op("stop", None), IfBad(AutoReset), Op("lock", None)>>, S)
  <2>1. PICK s : s = Cons(Op("lock", None), <<>>)
    OBVIOUS
  <2>2. s \in Seq(AnyOp) /\ \A T \in World : Mended(T) => Good(s, T)
    BY <2>1, Empty, OpsKnown, MendedFinal, NopGood DEF Mended
  <2>3. Good(Cons(Op("stop", None), Cons(IfBad(AutoReset), s)), S)
    BY <2>2, Begin
  <2>4. Spells(<<Op("stop", None), IfBad(AutoReset), Op("lock", None)>>,
               Cons(Op("stop", None), Cons(IfBad(AutoReset), Cons(Op("lock", None), <<>>))))
    BY OpsKnown, Spelled
  <2> QED BY <2>1, <2>3, <2>4, SpellsGood
<1>2. Good(<<Op("unlock", None)>>, S)
  <2>1. Spells(<<Op("unlock", None)>>, Cons(Op("unlock", None), <<>>))
    BY OpsKnown, Spelled
  <2> QED BY <2>1, NopGood, SpellsGood
<1>3. Good(<<Op("stop", None), Op("wgr", None), Ignore>>, S)
  <2>1. PICK s : s = Cons(Op("wgr", None), Cons(Ignore, <<>>))
    OBVIOUS
  <2>2. Cons(Ignore, <<>>) \in Seq(AnyOp) /\ s \in Seq(AnyOp)
    BY <2>1, Empty, OpsKnown
  <2>3. ASSUME NEW T \in World, Halted(T) PROVE Good(s, T)
    <3>1. T.run = "off" /\ Tame(T) /\ Ready(T)
      BY <2>3, OkTame DEF Halted, Down, Ready
    <3>2. ASSUME NEW U \in World, AfterWgr(T, U) PROVE Good(Cons(Ignore, <<>>), U)
      <4>1. OkAll(U) /\ U.fa = None /\ Ready(U)
        BY <2>3, <3>2 DEF AfterWgr, Wiped, Gone, Held, Halted, OkAll, OkVf, Ready, Off
      <4> QED BY <4>1, Finish, Ignored, Empty
    <3> QED BY <2>1, <2>2, <3>1, <3>2, DoWgr
  <2>4. Good(Cons(Op("stop", None), s), S)
    BY <2>2, <2>3, Halt
  <2>5. Spells(<<Op("stop", None), Op("wgr", None), Ignore>>,
               Cons(Op("stop", None), Cons(Op("wgr", None), Cons(Ignore, <<>>))))
    BY OpsKnown, Spelled
  <2> QED BY <2>1, <2>4, <2>5, SpellsGood
<1> QED BY <1>1, <1>2, <1>3

\* A SCHED_RESET_VF event, and the end of process_event.
LEMMA QueueGood ==
  ASSUME NEW S \in World, Final(S)
  PROVE  /\ Good(<<>>, S)
         /\ S.fa = None => Good(<<Op("stop", None), IfBad(AutoReset)>>, S)
         /\ S.fa = None => Good(<<Op("start", None), Op("idle", None)>>, S)
         /\ Good(<<Op("idle", None)>>, S)
<1>1. Good(<<>>, S)
  BY DoEnd
<1>2. ASSUME S.fa = None PROVE Good(<<Op("stop", None), IfBad(AutoReset)>>, S)
  <2>1. \A T \in World : Mended(T) => Good(<<>>, T)
    BY MendedFinal, DoEnd DEF Mended
  <2>2. Good(Cons(Op("stop", None), Cons(IfBad(AutoReset), <<>>)), S)
    BY <1>2, <2>1, Empty, Begin
  <2>3. Spells(<<Op("stop", None), IfBad(AutoReset)>>, Cons(Op("stop", None), Cons(IfBad(AutoReset), <<>>)))
    BY OpsKnown, Spelled
  <2> QED BY <2>2, <2>3, SpellsGood
<1>3. ASSUME S.fa = None PROVE Good(<<Op("start", None), Op("idle", None)>>, S)
  <2>1. ASSUME NEW T \in World, AfterStart(S, T) PROVE Good(Cons(Op("idle", None), <<>>), T)
    <3>1. Final(T)
      BY <2>1 DEF AfterStart, Final, Settled, Vfs, OkVf
    <3> QED BY <3>1, NopGood
  <2>2. Ready(S)
    BY <1>3, IdleFinal
  <2>3. Cons(Op("idle", None), <<>>) \in Seq(AnyOp)
    BY Empty, OpsKnown
  <2>4. Good(Cons(Op("start", None), Cons(Op("idle", None), <<>>)), S)
    BY <2>1, <2>2, <2>3, DoStart
  <2>5. Spells(<<Op("start", None), Op("idle", None)>>, Cons(Op("start", None), Cons(Op("idle", None), <<>>)))
    BY OpsKnown, Spelled
  <2> QED BY <2>4, <2>5, SpellsGood
<1>4. Good(<<Op("idle", None)>>, S)
  <2>1. Spells(<<Op("idle", None)>>, Cons(Op("idle", None), <<>>))
    BY OpsKnown, Spelled
  <2> QED BY <2>1, NopGood, SpellsGood
<1> QED BY <1>1, <1>2, <1>3, <1>4

\* Preparing the frame buffer of a VF.
LEMMA InitFbGood ==
  ASSUME NEW S \in World, Final(S), S.fa = None
  PROVE  Good(<<Op("stop", None), IfBad(AutoReset), Op("switch", PF), Catch(AutoReset),
                Op("save", None), Catch(AutoReset)>>, S)
<1>0. PICK c : c = Catch(AutoReset)
  OBVIOUS
<1>1. PICK e, s, w : /\ e = Cons(c, <<>>) /\ s = Cons(Op("save", None), e)
                     /\ w = Cons(Op("switch", PF), Cons(c, s))
  OBVIOUS
<1>2. c \in AnyOp /\ e \in Seq(AnyOp) /\ s \in Seq(AnyOp) /\ Cons(c, s) \in Seq(AnyOp) /\ w \in Seq(AnyOp)
  BY <1>0, <1>1, Empty, OpsKnown
<1>3. ASSUME NEW T \in World, OkAll(T), T.run = "off", T.fa = None, Clean(T) => T.st = "LOADED"
      PROVE  Good(s, T)
  <2>1. ASSUME NEW U \in World, AfterSave(T, U) PROVE Good(e, U)
    <3>1. OkAll(U) /\ U.fa = None /\ Ready(U)
      BY <1>3, <2>1 DEF AfterSave, Held, Stays, Vfs, On, OkAll, OkVf, Ready, Off
    <3> QED BY <1>0, <1>1, <3>1, Finish, Empty, Resets
  <2>2. ASSUME NEW U \in World, FailSave(T, U) PROVE Good(Landing(e), U)
    <3>1. OkAll(U) /\ U.fa = None /\ U.run = "off" /\ ~Clean(U)
      BY <1>3, <2>2 DEF FailSave, Failed, Held, Stays, Vfs, OkAll, OkVf
    <3>2. AutoPre(U)
      BY <3>1, OkTame DEF AutoPre, Down, OkAll
    <3>3. ASSUME NEW V \in World, AfterAuto(U, V) \/ FailAuto(U, V) PROVE Good(<<>>, V)
      <4>1. OkAll(V) /\ V.fa = None /\ Ready(V)
        BY <3>1, <3>3 DEF AfterAuto, FailAuto, Failed, Held, Stays, Vfs, OkAll, OkVf, Ready
      <4> QED BY <4>1, Finish
    <3> QED BY <1>0, <1>1, <3>1, <3>2, <3>3, Empty, Resets
  <2> QED BY <1>1, <1>2, <1>3, <2>1, <2>2, DoSave
<1>4. ASSUME NEW T \in World, Mended(T) PROVE Good(w, T)
  <2>1. OkAll(T) /\ T.run = "off" /\ T.fa = None /\ (Clean(T) => T.st # "ABNORMAL")
    BY <1>4 DEF Mended, Halted, Down, Off
  <2>2. ASSUME NEW U \in World, AfterSwitch(T, U, PF) PROVE Good(Cons(c, s), U)
    <3>1. OkAll(U) /\ U.run = "off" /\ U.fa = None /\ U.st = "LOADED"
      BY <2>1, <2>2 DEF AfterSwitch, Switched, Held, Stays, On, OkAll, OkVf
    <3> QED BY <1>0, <1>2, <1>3, <3>1, Resets
  <2>3. ASSUME NEW U \in World, FailSwitch(T, U, PF) PROVE Good(Landing(Cons(c, s)), U)
    <3>1. OkAll(U) /\ U.fa = None /\ U.run = "off" /\ ~Clean(U)
      BY <2>1, <2>3 DEF FailSwitch, Failed, Switched, Held, Stays, OkAll, OkVf
    <3>2. AutoPre(U)
      BY <3>1, OkTame DEF AutoPre, Down, OkAll
    <3>3. ASSUME NEW V \in World, AfterAuto(U, V) \/ FailAuto(U, V) PROVE Good(s, V)
      <4>1. OkAll(V) /\ V.fa = None /\ V.run = "off" /\ ~Clean(V)
        BY <3>1, <3>3 DEF AfterAuto, FailAuto, Failed, Held, Stays, Vfs, OkAll, OkVf
      <4> QED BY <1>3, <4>1
    <3> QED BY <1>0, <1>2, <3>1, <3>2, <3>3, Resets
  <2> QED BY <1>1, <1>2, <2>1, <2>2, <2>3, FnFacts, DoSwitch
<1>5. Good(Cons(Op("stop", None), Cons(IfBad(AutoReset), w)), S)
  BY <1>2, <1>4, Begin
<1>6. Spells(<<Op("stop", None), IfBad(AutoReset), Op("switch", PF), Catch(AutoReset),
               Op("save", None), Catch(AutoReset)>>,
             Cons(Op("stop", None), Cons(IfBad(AutoReset), Cons(Op("switch", PF), Cons(c,
             Cons(Op("save", None), Cons(c, <<>>)))))))
  BY <1>0, OpsKnown, Spelled
<1> QED BY <1>1, <1>5, <1>6, SpellsGood

LEMMA SpellsCat ==
  /\ \A l, s, t : Spells(l, s) /\ Spells(s, t) => Spells(l, t)
  /\ \A s \in Seq(AnyOp) : Spells(<<>> \o s, s)
  /\ \A a, b, c \in Seq(AnyOp) : Spells((a \o b) \o c, a \o (b \o c)) /\ b \o c \in Seq(AnyOp)
  /\ \A a \in AnyOp : <<a>> \in Seq(AnyOp)
<1>1. \A l, s, t : Spells(l, s) /\ Spells(s, t) => Spells(l, t)
  BY DEF Spells
<1>2. \A s \in Seq(AnyOp) : Spells(<<>> \o s, s)
  BY DEF Spells
<1>3. ASSUME NEW a \in Seq(AnyOp), NEW b \in Seq(AnyOp), NEW c \in Seq(AnyOp)
      PROVE  Spells((a \o b) \o c, a \o (b \o c)) /\ b \o c \in Seq(AnyOp)
  <2>1. (a \o b) \o c = a \o (b \o c)
    BY ConcatAssociative
  <2>2. b \o c \in Seq(AnyOp)
    OBVIOUS
  <2> QED BY <2>1, <2>2 DEF Spells
<1>4. \A a \in AnyOp : <<a>> \in Seq(AnyOp)
  OBVIOUS
<1> QED BY <1>1, <1>2, <1>3, <1>4

\* Taking a VF out of the world switch.
LEMMA SuspendGood ==
  ASSUME NEW S \in World, Final(S), NEW v \in VF, S.fa # v, S.stat[v] = "ACTIVE"
  PROVE  /\ S.fa = None => Good(<<Op("SUSPEND", v)>> \o <<Op("stop", None)>> \o <<Op("remove", v)>>, S)
         /\ S.fa # None => Good(<<Op("SUSPEND", v)>> \o <<>> \o <<Op("remove", v)>>, S)
<1>0. PICK a, b, c : a = Op("SUSPEND", v) /\ b = Op("stop", None) /\ c = Op("remove", v)
  OBVIOUS
<1>1. a \in AnyOp /\ b \in AnyOp /\ c \in AnyOp
  BY <1>0, OpsKnown
<1>2. PICK r, s : r = Cons(c, <<>>) /\ s = Cons(b, r)
  OBVIOUS
<1>3. r \in Seq(AnyOp) /\ s \in Seq(AnyOp)
  BY <1>1, <1>2, Empty, OpsKnown
<1>4. OkVf(S, v) /\ \A u \in VF : Settled(S, u)
  BY DEF Final, Settled
<1>5. ASSUME NEW T \in World, AfterSet(S, T, v, "SUSPEND")
      PROVE  /\ T.stat[v] = "SUSPEND" /\ v \in T.ent /\ v \in T.ini /\ T.fa = S.fa
             /\ \A u \in VF : u # v => Settled(T, u)
             /\ S.fa = None => Ready(T)
  <2>1. \A u \in VF : T.stat[u] = IF u = v THEN "SUSPEND" ELSE S.stat[u]
    <3>1. S.stat \in [VF -> {"UNAVAIL", "AVAIL", "ACTIVE", "SUSPEND"}]
      BY DEF World
    <3> QED BY <1>5, <3>1 DEF AfterSet
  <2> QED BY <1>4, <1>5, <2>1 DEF AfterSet, Held, Settled, OkVf, Engines, Final
<1>6. ASSUME NEW T \in World, T.stat[v] = "SUSPEND", v \in T.ent, v \in T.ini, T.fa # v,
             \A u \in VF : u # v => Settled(T, u), T.fa = None => Ready(T)
      PROVE  Good(r, T)
  <2>1. ASSUME NEW U \in World, AfterRemove(T, U, v) PROVE Good(<<>>, U)
    <3>1. ASSUME NEW u \in VF PROVE Settled(U, u)
      BY <1>6, <2>1 DEF AfterRemove, Held, Settled, OkVf
    <3>2. Final(U)
      BY <1>6, <2>1, <3>1 DEF AfterRemove, Held, Final
    <3> QED BY <3>2, DoEnd
  <2> QED BY <1>0, <1>2, <2>1, Empty, DoRemove
<1>7. ASSUME S.fa = None PROVE Good(Cons(a, s), S)
  <2>1. ASSUME NEW T \in World, AfterSet(S, T, v, "SUSPEND") PROVE Good(s, T)
    <3>1. ASSUME NEW U \in World, AfterStop(T, U) PROVE Good(r, U)
      <4>1. /\ U.stat[v] = "SUSPEND" /\ v \in U.ent /\ v \in U.ini /\ U.fa # v
            /\ \A u \in VF : u # v => Settled(U, u)
        BY <1>5, <1>7, <2>1, <3>1 DEF AfterStop, Held, Vfs, Settled, OkVf
      <4>2. Ready(U)
        BY <3>1 DEF AfterStop, Down, Ready
      <4> QED BY <1>6, <4>1, <4>2
    <3> QED BY <1>0, <1>2, <1>3, <1>5, <1>7, <2>1, <3>1, DoStop
  <2> QED BY <1>0, <1>3, <2>1, DoSet
<1>8. ASSUME S.fa # None PROVE Good(Cons(a, r), S)
  <2>1. ASSUME NEW T \in World, AfterSet(S, T, v, "SUSPEND") PROVE Good(r, T)
    BY <1>5, <1>6, <1>8, <2>1
  <2> QED BY <1>0, <1>3, <2>1, DoSet
<1>9. Spells((<<a>> \o <<b>>) \o <<c>>, Cons(a, s))
  <2>1. Spells((<<a>> \o <<b>>) \o <<c>>, <<a>> \o (<<b>> \o <<c>>)) /\ <<b>> \o <<c>> \in Seq(AnyOp)
    BY <1>1, SpellsCat
  <2>2. Spells(<<a>> \o (<<b>> \o <<c>>), Cons(a, <<b>> \o <<c>>))
    BY <1>1, <2>1, SpelledCat
  <2>3. Spells(<<b>> \o <<c>>, Cons(b, <<c>>)) /\ Spells(<<c>>, Cons(c, <<>>))
    BY <1>1, SpellsCat, SpelledCat, Spelled
  <2>4. Spells(<<b>> \o <<c>>, s)
    BY <1>2, <2>3, SpellsOn
  <2>5. Spells(<<a>> \o (<<b>> \o <<c>>), Cons(a, s))
    BY <2>2, <2>4, SpellsOn
  <2> QED BY <2>1, <2>5, SpellsCat
<1>10. Spells((<<a>> \o <<>>) \o <<c>>, Cons(a, r))
  <2>1. Spells((<<a>> \o <<>>) \o <<c>>, <<a>> \o (<<>> \o <<c>>)) /\ <<>> \o <<c>> \in Seq(AnyOp)
    BY <1>1, Empty, SpellsCat
  <2>2. Spells(<<a>> \o (<<>> \o <<c>>), Cons(a, <<>> \o <<c>>))
    BY <1>1, <2>1, SpelledCat
  <2>3. Spells(<<>> \o <<c>>, <<c>>) /\ Spells(<<c>>, Cons(c, <<>>))
    BY <1>1, SpellsCat, Spelled
  <2>4. Spells(<<>> \o <<c>>, r)
    BY <1>2, <2>3, SpellsCat
  <2>5. Spells(<<a>> \o (<<>> \o <<c>>), Cons(a, r))
    BY <2>2, <2>4, SpellsOn
  <2> QED BY <2>1, <2>5, SpellsCat
<1> QED BY <1>0, <1>7, <1>8, <1>9, <1>10, SpellsGood

\* Putting it back.
LEMMA ResumeGood ==
  ASSUME NEW S \in World, Final(S), NEW v \in VF, S.fa # v, S.stat[v] = "SUSPEND"
  PROVE  /\ S.fa = None => Good(<<Op("stop", None)>> \o <<Op("add", v)>>, S)
         /\ S.fa # None => Good(<<>> \o <<Op("add", v)>>, S)
<1>0. PICK b, c : b = Op("stop", None) /\ c = Op("add", v)
  OBVIOUS
<1>1. b \in AnyOp /\ c \in AnyOp
  BY <1>0, OpsKnown
<1>2. PICK r : r = Cons(c, <<>>)
  OBVIOUS
<1>3. r \in Seq(AnyOp)
  BY <1>1, <1>2, Empty, OpsKnown
<1>4. ASSUME NEW T \in World, Final(T), T.fa # v, T.stat[v] = "SUSPEND" PROVE Good(r, T)
  <2>1. OkVf(T, v) /\ v \notin T.ent /\ v \in T.ini
    BY <1>4 DEF Final, Settled, OkVf
  <2>2. ASSUME NEW U \in World, AfterAdd(T, U, v) PROVE Good(<<>>, U)
    <3>1. \A u \in VF : U.stat[u] = IF u = v THEN "ACTIVE" ELSE T.stat[u]
      <4>1. T.stat \in [VF -> {"UNAVAIL", "AVAIL", "ACTIVE", "SUSPEND"}]
        BY DEF World
      <4> QED BY <2>2, <4>1 DEF AfterAdd
    <3>2. ASSUME NEW u \in VF PROVE Settled(U, u)
      BY <1>4, <2>1, <2>2, <3>1 DEF AfterAdd, Held, Settled, OkVf, Final
    <3>3. Final(U)
      BY <1>4, <2>2, <3>2 DEF AfterAdd, Held, Final, Engines
    <3> QED BY <3>3, DoEnd
  <2> QED BY <1>0, <1>2, <2>1, <2>2, Empty, DoAdd
<1>5. ASSUME S.fa = None PROVE Good(Cons(b, r), S)
  <2>1. ASSUME NEW T \in World, AfterStop(S, T) PROVE Good(r, T)
    <3>1. Final(T) /\ T.fa # v /\ T.stat[v] = "SUSPEND"
      BY <1>5, <2>1 DEF AfterStop, Held, Vfs, Final, Settled, OkVf, Down, Ready
    <3> QED BY <1>4, <3>1
  <2> QED BY <1>0, <1>3, <1>5, <2>1, IdleFinal, DoStop
<1>6. Spells(<<b>> \o <<c>>, Cons(b, r))
  <2>1. Spells(<<b>> \o <<c>>, Cons(b, <<c>>)) /\ Spells(<<c>>, Cons(c, <<>>))
    BY <1>1, SpellsCat, SpelledCat, Spelled
  <2> QED BY <1>2, <2>1, SpellsOn
<1>7. Spells(<<>> \o <<c>>, r)
  <2>1. Spells(<<>> \o <<c>>, <<c>>) /\ Spells(<<c>>, Cons(c, <<>>))
    BY <1>1, SpellsCat, Spelled
  <2> QED BY <1>2, <2>1, SpellsCat
<1> QED BY <1>0, <1>4, <1>5, <1>6, <1>7, SpellsGood

\* The full access of v has lasted too long, or v is released by mistake.
LEMMA TimeoutGood ==
  ASSUME NEW S \in World, Final(S), NEW v \in VF, S.fa = v, S.cur = v, S.run = "off",
         NEW s \in Seq(AnyOp),
         \A T \in World : OkAll(T) /\ T.fa = None /\ Ready(T) => Good(s, T)
  PROVE  Good(Cons(Op("timeout", v), s), S)
<1>1. v \notin S.ent /\ OkBut(S, v)
  BY DEF Final, Settled, OkBut
<1>2. \A T \in World : AfterTimeout(S, T) => Good(s, T)
  BY DEF AfterTimeout
<1> QED BY <1>1, <1>2, DoTimeout

\* A test whether a VF is active.
LEMMA ActiveTest ==
  ASSUME NEW S \in World, NEW v \in VF, NEW h \in Seq(AnyOp), NEW s \in Seq(AnyOp),
         IfActive(v, h) \in AnyOp,
         S.stat[v] = "ACTIVE" => Good(h \o s, S), S.stat[v] # "ACTIVE" => Good(s, S)
  PROVE  Good(Cons(IfActive(v, h), s), S)
<1>1. PICK o : o = IfActive(v, h)
  OBVIOUS
<1>2. o.op = "ifactive" /\ o.f = v /\ o.h = h /\ o \in AnyOp
  BY <1>1 DEF IfActive
<1>3. o.op \in Tests /\ (Holds(o, S) <=> S.stat[v] = "ACTIVE")
  BY <1>2 DEF Tests, Holds
<1> QED BY <1>1, <1>2, <1>3, DoTest

\* Removing a VF, in full access or not.
LEMMA RemoveGood ==
  ASSUME NEW S \in World, Final(S), NEW v \in VF
  PROVE  /\ S.fa # v => Good(<<>> \o <<IfActive(v, <<Op("remove", v)>>), Op("UNAVAIL", v)>>, S)
         /\ S.fa = v /\ S.cur = v /\ S.run = "off" =>
              Good(<<Op("timeout", v)>> \o <<IfActive(v, <<Op("remove", v)>>), Op("UNAVAIL", v)>>, S)
<1>0. PICK a, b, c, h : /\ a = Op("timeout", v) /\ b = IfActive(v, h) /\ c = Op("UNAVAIL", v)
                        /\ h = <<Op("remove", v)>>
  OBVIOUS
<1>1. a \in AnyOp /\ b \in AnyOp /\ c \in AnyOp /\ Op("remove", v) \in AnyOp /\ h \in Seq(AnyOp)
  BY <1>0, OpsKnown, SpellsCat
<1>2. PICK r, s : r = Cons(c, <<>>) /\ s = Cons(b, r)
  OBVIOUS
<1>3. r \in Seq(AnyOp) /\ s \in Seq(AnyOp)
  BY <1>1, <1>2, Empty, OpsKnown
<1>4. ASSUME NEW T \in World, v \notin T.ent, T.fa # v, T.fa = None => Ready(T),
             \A u \in VF : u # v => Settled(T, u)
      PROVE  Good(r, T)
  <2>1. ASSUME NEW U \in World, AfterSet(T, U, v, "UNAVAIL") PROVE Good(<<>>, U)
    <3>1. \A u \in VF : U.stat[u] = IF u = v THEN "UNAVAIL" ELSE T.stat[u]
      <4>1. T.stat \in [VF -> {"UNAVAIL", "AVAIL", "ACTIVE", "SUSPEND"}]
        BY DEF World
      <4> QED BY <2>1, <4>1 DEF AfterSet
    <3>2. ASSUME NEW u \in VF PROVE Settled(U, u)
      BY <1>4, <2>1, <3>1 DEF AfterSet, Held, Settled, OkVf
    <3>3. Final(U)
      BY <1>4, <2>1, <3>2 DEF AfterSet, Held, Final, Engines
    <3> QED BY <3>3, DoEnd
  <2> QED BY <1>0, <1>2, <2>1, Empty, DoSet
<1>5. ASSUME NEW T \in World, Final(T), T.fa # v PROVE Good(s, T)
  <2>1. OkVf(T, v) /\ (\A u \in VF : Settled(T, u)) /\ (T.fa = None => Ready(T))
    BY <1>5 DEF Final, Settled
  <2>2. ASSUME T.stat[v] # "ACTIVE" PROVE Good(r, T)
    BY <1>4, <1>5, <2>1, <2>2 DEF OkVf
  <2>3. ASSUME T.stat[v] = "ACTIVE" PROVE Good(Cons(Op("remove", v), r), T)
    <3>1. ASSUME NEW U \in World, AfterRemove(T, U, v) PROVE Good(r, U)
      <4>1. v \notin U.ent /\ U.fa # v /\ (U.fa = None => Ready(U))
        BY <1>5, <2>1, <3>1 DEF AfterRemove, Held
      <4>2. \A u \in VF : u # v => Settled(U, u)
        BY <2>1, <3>1 DEF AfterRemove, Held, Settled, OkVf
      <4> QED BY <1>4, <4>1, <4>2
    <3> QED BY <1>3, <3>1, DoRemove
  <2>4. Spells(h \o r, Cons(Op("remove", v), r))
    BY <1>0, <1>1, <1>3, SpelledCat
  <2>5. Good(Cons(IfActive(v, h), r), T)
    BY <1>0, <1>1, <1>3, <2>2, <2>3, <2>4, SpellsGood, ActiveTest
  <2> QED BY <1>0, <1>2, <2>5
<1>6. ASSUME S.fa = v, S.cur = v, S.run = "off" PROVE Good(Cons(a, s), S)
  <2>1. ASSUME NEW T \in World, OkAll(T), T.fa = None, Ready(T) PROVE Good(s, T)
    <3>1. Final(T) /\ T.fa # v
      BY <2>1, FinalIdle, FnFacts
    <3> QED BY <1>5, <3>1
  <2> QED BY <1>0, <1>3, <1>6, <2>1, TimeoutGood
<1>7. <<b, c>> \in Seq(AnyOp) /\ Spells(<<b, c>>, s)
  <2>1. <<b, c>> \in Seq(AnyOp)
    BY <1>1
  <2>2. Spells(<<b, c>>, Cons(b, Cons(c, <<>>)))
    BY <1>1, Spelled
  <2> QED BY <1>2, <2>1, <2>2
<1>8. Spells(<<>> \o <<b, c>>, s)
  BY <1>7, SpellsCat
<1>9. Spells(<<a>> \o <<b, c>>, Cons(a, s))
  <2>1. Spells(<<a>> \o <<b, c>>, Cons(a, <<b, c>>))
    BY <1>1, <1>7, SpelledCat
  <2> QED BY <1>7, <2>1, SpellsOn
<1> QED BY <1>0, <1>5, <1>6, <1>8, <1>9, SpellsGood

-----------------------------------------------------------------------------
(* A VF that is taken off the engines for good.                            *)

\* Its context is saved, or whoever hangs the engines was reset.
Parting(S, v) ==
  /\ OkAll(S) /\ S.run = "off" /\ S.fa = None /\ Down(S)
  /\ S.stat[v] = "ACTIVE" => S.cur \in {v, PF}
\* It has been reset, but may still be in the list.
Shed(S, v) ==
  /\ Tame(S) /\ OkBut(S, v) /\ S.run = "off" /\ S.fa = None /\ Down(S)
  /\ S.stat[v] = "ACTIVE" => S.cur \in {PF, v}
  /\ S.stat[v] # "ACTIVE" => OkVf(S, v)
\* It is out of the list.
Parted(S, v) == OkBut(S, v) /\ v \notin S.ent /\ S.fa = None /\ Ready(S)

LEMMA PartingShed ==
  ASSUME NEW S \in World, NEW v \in VF, Parting(S, v)
  PROVE  Shed(S, v)
BY OkTame DEF Parting, Shed, OkAll

LEMMA SavedThen ==
  ASSUME NEW S \in World, NEW v \in VF, NEW s \in Seq(AnyOp), Halted(S),
         \A T \in World : Parting(T, v) => Good(s, T)
  PROVE  Good(Cons(Op("saved", v), Cons(Catch(AutoReset), s)), S)
<1>0. PICK c : c = Catch(AutoReset)
  OBVIOUS
<1>1. OkAll(S) /\ S.run = "off" /\ S.fa = None /\ Down(S) /\ Cons(c, s) \in Seq(AnyOp)
  BY <1>0, Resets DEF Halted
<1>2. ASSUME NEW T \in World, AfterSaved(S, T, v) PROVE Good(Cons(c, s), T)
  <2>1. OkAll(T) /\ T.run = "off" /\ T.fa = None
    BY <1>1, <1>2 DEF AfterSaved, Held, Stays, Vfs, OkAll, OkVf
  <2>2. Down(T)
    BY <1>1, <1>2 DEF AfterSaved, Held, Stays, On, Down, Off
  <2>3. T.stat[v] = "ACTIVE" => T.cur \in {v, PF}
    BY <1>1, <1>2 DEF AfterSaved, On, Vfs, OkAll, OkVf
  <2>4. Good(s, T)
    BY <2>1, <2>2, <2>3 DEF Parting
  <2> QED BY <1>0, <2>4, Resets
<1>3. ASSUME NEW T \in World, FailSaved(S, T, v) PROVE Good(Landing(Cons(c, s)), T)
  <2>1. OkAll(T) /\ T.run = "off" /\ T.fa = None /\ ~Clean(T) /\ T.st = "ABNORMAL"
    BY <1>1, <1>3 DEF FailSaved, Failed, Held, Stays, Vfs, OkAll, OkVf
  <2>2. AutoPre(T)
    BY <2>1, OkTame DEF AutoPre, Down, OkAll
  <2>3. ASSUME NEW U \in World, AfterAuto(T, U) \/ FailAuto(T, U) PROVE Good(s, U)
    <3>1. OkAll(U) /\ U.run = "off" /\ U.fa = None /\ ~Clean(U) /\ U.cur = PF
      BY <2>1, <2>3 DEF AfterAuto, FailAuto, Failed, Held, Stays, On
    <3> QED BY <3>1 DEF Parting, Down
  <2> QED BY <1>0, <2>1, <2>2, <2>3, Resets
<1>4. Good(Cons(Op("saved", v), Cons(c, s)), S)
  BY <1>1, <1>2, <1>3, DoSaved
<1> QED BY <1>0, <1>4

LEMMA ResetThen ==
  ASSUME NEW S \in World, NEW v \in VF, NEW s \in Seq(AnyOp), Parting(S, v), S.stat[v] = "ACTIVE",
         \A T \in World : Shed(T, v) => Good(s, T)
  PROVE  Good(Cons(Op("resetvf", v), Cons(Ignore, s)), S)
<1>1. OkAll(S) /\ S.run = "off" /\ S.fa = None /\ S.cur \in {v, PF} /\ Tame(S)
  BY OkTame DEF Parting
<1>2. ASSUME NEW T \in World, Cycled(S, T), Held(S, T), Down(T) PROVE Good(s, T)
  <2>1. OkBut(T, v) /\ Tame(T) /\ T.cur = PF /\ T.stat[v] = "ACTIVE"
    BY <1>1, <1>2, FnFacts DEF Cycled, OkAll, OkBut, OkVf, Tame
  <2>2. Shed(T, v)
    BY <1>1, <1>2, <2>1 DEF Shed, Held, Stays
  <2> QED BY <2>2
<1>3. ASSUME NEW T \in World, Wiped(T), Held(S, T) PROVE Good(s, T)
  <2>1. OkAll(T) /\ T.cur = PF /\ Down(T) /\ T.stat[v] # "ACTIVE"
    BY <1>3 DEF Wiped, Gone, OkAll, OkVf, Down, Off
  <2>2. Shed(T, v)
    BY <1>1, <1>3, <2>1, OkTame DEF Shed, Held, Stays, OkAll
  <2> QED BY <2>2
<1>4. ASSUME NEW T \in World, AfterReset(S, T) PROVE Good(Cons(Ignore, s), T)
  <2>1. Good(s, T)
    BY <1>2, <1>3, <1>4 DEF AfterReset, Down, Off
  <2> QED BY <2>1, Ignored
<1>5. ASSUME NEW T \in World, FailReset(S, T) PROVE Good(Landing(Cons(Ignore, s)), T)
  <2>1. Good(s, T)
    BY <1>2, <1>5 DEF FailReset, Failed, Down
  <2> QED BY <2>1, Ignored
<1> QED BY <1>1, <1>4, <1>5, Ignored, DoReset

LEMMA RemoveThen ==
  ASSUME NEW S \in World, NEW v \in VF, NEW s \in Seq(AnyOp), Shed(S, v),
         \A T \in World : Parted(T, v) => Good(s, T)
  PROVE  Good(Cons(Op("remove", v), s), S) /\ (S.stat[v] # "ACTIVE" => Good(s, S))
<1>0. Ready(S)
  BY DEF Shed, Down, Ready
<1>1. ASSUME NEW T \in World, AfterRemove(S, T, v) PROVE Good(s, T)
  <2>1. Parted(T, v)
    BY <1>0, <1>1 DEF AfterRemove, Held, Shed, Parted, OkBut, OkVf
  <2> QED BY <2>1
<1>2. ASSUME S.stat[v] # "ACTIVE" PROVE Good(s, S)
  <2>1. Parted(S, v)
    BY <1>0, <1>2 DEF Shed, Parted, OkVf
  <2> QED BY <2>1
<1> QED BY <1>1, <1>2, DoRemove

LEMMA PartedStays ==
  ASSUME NEW S \in World, NEW T \in World, NEW v \in VF, Parted(S, v), AfterNop(S, T)
  PROVE  Parted(T, v)
BY DEF Parted, AfterNop, Held, Vfs, Engines, OkBut, OkVf

LEMMA PartedAvail ==
  ASSUME NEW S \in World, NEW v \in VF, Parted(S, v)
  PROVE  Good(Cons(Op("AVAIL", v), <<>>), S)
<1>1. ASSUME NEW T \in World, AfterSet(S, T, v, "AVAIL") PROVE Good(<<>>, T)
  <2>1. \A u \in VF : T.stat[u] = IF u = v THEN "AVAIL" ELSE S.stat[u]
    <3>1. S.stat \in [VF -> {"UNAVAIL", "AVAIL", "ACTIVE", "SUSPEND"}]
      BY DEF World
    <3> QED BY <1>1, <3>1 DEF AfterSet
  <2>2. OkAll(T) /\ T.fa = None /\ Ready(T)
    BY <1>1, <2>1 DEF AfterSet, Held, Engines, Parted, OkAll, OkBut, OkVf
  <2> QED BY <2>2, Finish
<1> QED BY <1>1, Empty, DoSet

\* The VM of a VF is gone.
LEMMA StopVfGood ==
  ASSUME NEW S \in World, Final(S), S.fa = None, NEW v \in VF
  PROVE  /\ Good(<<Op("stop", None), Op("saved", v), Catch(AutoReset),
                   IfActive(v, <<Op("resetvf", v), Ignore, Op("remove", v)>>), Op("shutdown", v)>>
                 \o <<Op("shut", v), Op("AVAIL", v)>>, S)
         /\ S.stat[v] = "SUSPEND" => Good(<<Op("shutdown", v)>> \o <<Op("shut", v), Op("AVAIL", v)>>, S)
         /\ S.stat[v] # "ACTIVE" => Good(<<>> \o <<Op("shut", v), Op("AVAIL", v)>>, S)
<1>0. PICK p1, p2, c, i, h, p3, p4, p5, a :
        /\ p1 = Op("stop", None) /\ p2 = Op("saved", v) /\ c = Catch(AutoReset) /\ i = IfActive(v, h)
        /\ h = <<Op("resetvf", v), Ignore, Op("remove", v)>> /\ p3 = Op("shutdown", v)
        /\ p4 = Op("shut", v) /\ p5 = Op("AVAIL", v) /\ a = <<Op("shut", v), Op("AVAIL", v)>>
  OBVIOUS
<1>1. /\ p1 \in AnyOp /\ p2 \in AnyOp /\ c \in AnyOp /\ i \in AnyOp /\ p3 \in AnyOp /\ p4 \in AnyOp
      /\ p5 \in AnyOp /\ Op("resetvf", v) \in AnyOp /\ Ignore \in AnyOp /\ Op("remove", v) \in AnyOp
  BY <1>0, OpsKnown
<1>2. h \in Seq(AnyOp) /\ a \in Seq(AnyOp)
  BY <1>0, <1>1
<1>3. PICK r, s, t, w : r = Cons(p5, <<>>) /\ s = Cons(p4, r) /\ t = Cons(p3, s) /\ w = Cons(i, t)
  OBVIOUS
<1>4. r \in Seq(AnyOp) /\ s \in Seq(AnyOp) /\ t \in Seq(AnyOp) /\ w \in Seq(AnyOp)
  BY <1>1, <1>3, Empty, OpsKnown
<1>5. ASSUME NEW T \in World, Parted(T, v) PROVE Good(s, T)
  <2>1. \A U \in World : AfterNop(T, U) => Good(r, U)
    BY <1>0, <1>3, <1>5, PartedStays, PartedAvail
  <2> QED BY <1>0, <1>3, <1>4, <2>1, DoNop
<1>6. ASSUME NEW T \in World, Parted(T, v) PROVE Good(t, T)
  <2>1. \A U \in World : AfterNop(T, U) => Good(s, U)
    BY <1>5, <1>6, PartedStays
  <2> QED BY <1>0, <1>3, <1>4, <2>1, DoNop
<1>7. ASSUME NEW T \in World, Parting(T, v) PROVE Good(w, T)
  <2>1. ASSUME T.stat[v] # "ACTIVE" PROVE Good(t, T)
    BY <1>4, <1>6, <1>7, <2>1, PartingShed, RemoveThen
  <2>2. ASSUME T.stat[v] = "ACTIVE" PROVE Good(h \o t, T)
    <3>1. PICK e : e = Cons(Op("remove", v), t)
      OBVIOUS
    <3>2. e \in Seq(AnyOp)
      BY <1>1, <1>4, <3>1, OpsKnown
    <3>3. \A U \in World : Shed(U, v) => Good(e, U)
      BY <1>4, <1>6, <3>1, RemoveThen
    <3>4. Good(Cons(Op("resetvf", v), Cons(Ignore, e)), T)
      BY <1>7, <2>2, <3>2, <3>3, ResetThen
    <3>5. Spells(h \o t, Cons(Op("resetvf", v), Cons(Ignore, Cons(Op("remove", v), t))))
      BY <1>0, <1>1, <1>4, SpelledCat
    <3> QED BY <3>1, <3>4, <3>5, SpellsGood
  <2> QED BY <1>0, <1>1, <1>2, <1>3, <1>4, <2>1, <2>2, ActiveTest
<1>8. Good(Cons(p1, Cons(p2, Cons(c, w))), S)
  <2>1. PICK x : x = Cons(p2, Cons(c, w))
    OBVIOUS
  <2>2. x \in Seq(AnyOp)
    BY <1>1, <1>4, <2>1, OpsKnown
  <2>3. \A T \in World : Halted(T) => Good(x, T)
    BY <1>0, <1>4, <1>7, <2>1, SavedThen
  <2> QED BY <1>0, <2>1, <2>2, <2>3, Halt
<1>9. Spells(a, s)
  <2>1. Spells(a, Cons(p4, Cons(p5, <<>>)))
    BY <1>0, <1>1, Spelled
  <2> QED BY <1>3, <2>1
<1>10. Spells(<<p1, p2, c, i, p3>> \o a, Cons(p1, Cons(p2, Cons(c, w))))
  <2>1. Spells(<<p1, p2, c, i, p3>> \o a, Cons(p1, Cons(p2, Cons(c, Cons(i, Cons(p3, a))))))
    BY <1>1, <1>2, SpelledCat
  <2>2. a = s
    BY <1>9 DEF Spells
  <2> QED BY <1>3, <2>1, <2>2
<1>11. Spells(<<p3>> \o a, t) /\ Spells(<<>> \o a, s)
  <2>1. Spells(<<p3>> \o a, Cons(p3, a))
    BY <1>1, <1>2, SpelledCat
  <2>2. Spells(<<p3>> \o a, t)
    BY <1>3, <1>9, <2>1, SpellsOn
  <2> QED BY <1>2, <1>9, <2>2, SpellsCat
<1>12. OkAll(S) /\ Ready(S)
  BY IdleFinal
<1>13. S.stat[v] # "ACTIVE" => Parted(S, v)
  BY <1>12, OkTame DEF Parted, OkAll, OkVf
<1>14. Good(<<p1, p2, c, i, p3>> \o a, S)
  BY <1>8, <1>10, SpellsGood
<1>15. S.stat[v] # "ACTIVE" => Good(<<p3>> \o a, S) /\ Good(<<>> \o a, S)
  BY <1>5, <1>6, <1>11, <1>13, SpellsGood
<1>16. S.stat[v] = "SUSPEND" => S.stat[v] # "ACTIVE"
  OBVIOUS
<1> QED BY <1>0, <1>14, <1>15, <1>16

\* The host resets one VF.
LEMMA ForceResetGood ==
  ASSUME NEW S \in World, Final(S), S.fa = None, NEW v \in VF
  PROVE  Good(<<Op("stop", None), IfBad(AutoReset), Op("saved", v), Catch(AutoReset),
                IfActive(v, <<Op("resetvf", v), Ignore>>), IfActive(v, <<Op("remove", v)>>),
                Op("AVAIL", v)>>, S)
<1>0. PICK p1, b, p2, c, i, h, j, k, p5 :
        /\ p1 = Op("stop", None) /\ b = IfBad(AutoReset) /\ p2 = Op("saved", v) /\ c = Catch(AutoReset)
        /\ i = IfActive(v, h) /\ h = <<Op("resetvf", v), Ignore>>
        /\ j = IfActive(v, k) /\ k = <<Op("remove", v)>> /\ p5 = Op("AVAIL", v)
  OBVIOUS
<1>1. /\ p1 \in AnyOp /\ b \in AnyOp /\ p2 \in AnyOp /\ c \in AnyOp /\ i \in AnyOp /\ j \in AnyOp
      /\ p5 \in AnyOp /\ Op("resetvf", v) \in AnyOp /\ Ignore \in AnyOp /\ Op("remove", v) \in AnyOp
  BY <1>0, OpsKnown
<1>2. h \in Seq(AnyOp) /\ k \in Seq(AnyOp)
  BY <1>0, <1>1
<1>3. PICK r, s, t, x :
        r = Cons(p5, <<>>) /\ s = Cons(j, r) /\ t = Cons(i, s) /\ x = Cons(p2, Cons(c, t))
  OBVIOUS
<1>4. r \in Seq(AnyOp) /\ s \in Seq(AnyOp) /\ t \in Seq(AnyOp) /\ x \in Seq(AnyOp)
  BY <1>1, <1>3, Empty, OpsKnown
<1>5. \A T \in World : Parted(T, v) => Good(r, T)
  BY <1>0, <1>3, PartedAvail
<1>6. ASSUME NEW T \in World, Shed(T, v) PROVE Good(s, T)
  <2>1. Good(Cons(Op("remove", v), r), T) /\ (T.stat[v] # "ACTIVE" => Good(r, T))
    BY <1>4, <1>5, <1>6, RemoveThen
  <2>2. Spells(k \o r, Cons(Op("remove", v), r))
    BY <1>0, <1>1, <1>4, SpelledCat
  <2>3. Good(k \o r, T)
    BY <2>1, <2>2, SpellsGood
  <2> QED BY <1>0, <1>1, <1>2, <1>3, <1>4, <2>1, <2>3, ActiveTest
<1>7. ASSUME NEW T \in World, Parting(T, v) PROVE Good(t, T)
  <2>1. T.stat[v] # "ACTIVE" => Good(s, T)
    BY <1>6, <1>7, PartingShed
  <2>2. ASSUME T.stat[v] = "ACTIVE" PROVE Good(h \o s, T)
    <3>1. Good(Cons(Op("resetvf", v), Cons(Ignore, s)), T)
      BY <1>4, <1>6, <1>7, <2>2, ResetThen
    <3>2. Spells(h \o s, Cons(Op("resetvf", v), Cons(Ignore, s)))
      BY <1>0, <1>1, <1>4, SpelledCat
    <3> QED BY <3>1, <3>2, SpellsGood
  <2> QED BY <1>0, <1>1, <1>2, <1>3, <1>4, <2>1, <2>2, ActiveTest
<1>8. \A T \in World : Mended(T) => Good(x, T)
  BY <1>0, <1>3, <1>4, <1>7, SavedThen DEF Mended
<1>9. Good(Cons(p1, Cons(b, x)), S)
  BY <1>0, <1>4, <1>8, Begin
<1>10. Spells(<<p1, b, p2, c, i, j, p5>>,
              Cons(p1, Cons(b, Cons(p2, Cons(c, Cons(i, Cons(j, Cons(p5, <<>>))))))))
  BY <1>1, Spelled
<1>11. Good(<<p1, b, p2, c, i, j, p5>>, S)
  BY <1>3, <1>9, <1>10, SpellsGood
<1> QED BY <1>0, <1>11

\* A VF has crashed.
LEMMA CrashGood ==
  ASSUME NEW S \in World, Final(S), S.fa = None, NEW v \in VF
  PROVE  Good(<<Op("stop", None), Op("saved", v), Catch(AutoReset),
                IfActive(v, <<Op("resetvf", v), Ignore>>),
                Op("orphan", v), Catch(GiveUp), Op("shut", v)>>, S)
<1>0. PICK p1, p2, c, i, h, p3, g, p5 :
        /\ p1 = Op("stop", None) /\ p2 = Op("saved", v) /\ c = Catch(AutoReset)
        /\ i = IfActive(v, h) /\ h = <<Op("resetvf", v), Ignore>>
        /\ p3 = Op("orphan", v) /\ g = Catch(GiveUp) /\ p5 = Op("shut", v)
  OBVIOUS
<1>1. /\ p1 \in AnyOp /\ p2 \in AnyOp /\ c \in AnyOp /\ i \in AnyOp /\ p3 \in AnyOp /\ g \in AnyOp
      /\ p5 \in AnyOp /\ Op("resetvf", v) \in AnyOp /\ Ignore \in AnyOp
  BY <1>0, OpsKnown
<1>2. h \in Seq(AnyOp)
  BY <1>0, <1>1
<1>3. PICK r, s, t, x :
        r = Cons(p5, <<>>) /\ s = Cons(p3, Cons(g, r)) /\ t = Cons(i, s) /\ x = Cons(p2, Cons(c, t))
  OBVIOUS
<1>4. /\ r \in Seq(AnyOp) /\ Cons(g, r) \in Seq(AnyOp) /\ s \in Seq(AnyOp) /\ t \in Seq(AnyOp)
      /\ x \in Seq(AnyOp)
  BY <1>1, <1>3, Empty, OpsKnown
<1>5. ASSUME NEW T \in World, OkAll(T), T.fa = None, Down(T) PROVE Good(r, T)
  <2>1. Final(T)
    BY <1>5, FinalIdle DEF Down, Ready
  <2> QED BY <1>0, <1>3, <2>1, NopGood
<1>6. ASSUME NEW T \in World, Shed(T, v) PROVE Good(s, T)
  <2>1. OrphanPre(T, v) /\ T.run = "off" /\ T.fa = None
    BY <1>6 DEF Shed, OrphanPre
  <2>2. ASSUME NEW U \in World, AfterOrphan(T, U, v) PROVE Good(Cons(g, r), U)
    <3>1. Good(r, U)
      BY <1>5, <2>1, <2>2 DEF AfterOrphan, Held
    <3> QED BY <1>0, <1>4, <3>1, CatchGivesUp
  <2>3. ASSUME NEW U \in World, FailOrphan(T, U, v) PROVE Good(Landing(Cons(g, r)), U)
    <3>1. OkAll(U) /\ U.run = "off" /\ U.fa = None /\ ~Clean(U)
      BY <2>1, <2>3 DEF FailOrphan, Failed, Held, Stays
    <3>2. AutoPre(U)
      BY <3>1, OkTame DEF AutoPre, Down, OkAll
    <3> QED BY <1>0, <1>4, <3>1, <3>2, CatchGivesUp
  <2>4. Good(Cons(Op("orphan", v), Cons(g, r)), T)
    BY <1>4, <2>1, <2>2, <2>3, DoOrphan
  <2> QED BY <1>0, <1>3, <2>4
<1>7. ASSUME NEW T \in World, Parting(T, v) PROVE Good(t, T)
  <2>1. T.stat[v] # "ACTIVE" => Good(s, T)
    BY <1>6, <1>7, PartingShed
  <2>2. ASSUME T.stat[v] = "ACTIVE" PROVE Good(h \o s, T)
    <3>1. Good(Cons(Op("resetvf", v), Cons(Ignore, s)), T)
      BY <1>4, <1>6, <1>7, <2>2, ResetThen
    <3>2. Spells(h \o s, Cons(Op("resetvf", v), Cons(Ignore, s)))
      BY <1>0, <1>1, <1>4, SpelledCat
    <3> QED BY <3>1, <3>2, SpellsGood
  <2> QED BY <1>0, <1>1, <1>2, <1>3, <1>4, <2>1, <2>2, ActiveTest
<1>8. \A T \in World : Halted(T) => Good(x, T)
  BY <1>0, <1>3, <1>4, <1>7, SavedThen
<1>9. Good(Cons(p1, x), S)
  BY <1>0, <1>4, <1>8, Halt
<1>10. Spells(<<p1, p2, c, i, p3, g, p5>>,
              Cons(p1, Cons(p2, Cons(c, Cons(i, Cons(p3, Cons(g, Cons(p5, <<>>))))))))
  BY <1>1, Spelled
<1>11. Good(<<p1, p2, c, i, p3, g, p5>>, S)
  BY <1>3, <1>9, <1>10, SpellsGood
<1> QED BY <1>0, <1>11

-----------------------------------------------------------------------------
(* A VF gives full access back.                                            *)

LEMMA SpellsIn ==
  /\ \A a, b, c : Spells(b, c) => Spells(a \o b, a \o c)
  /\ \A a, b : Spells(a, b) => Spells(b, a)
BY DEF Spells

\* The one-time loop, unless it is left out, and the end of full access.
Loops == {<<>>, <<Op("loop", None), Ignore>>}
Done(w) == \A U \in World : OkAll(U) /\ U.fa = None /\ Ready(U) => Good(w, U)

LEMMA LoopOps ==
  ASSUME NEW l \in Loops
  PROVE  l \in Seq(Ops1) /\ l \in Seq(AnyOp) /\ (l = <<>> \/ l = <<Op("loop", None), Ignore>>)
<1>1. <<Op("loop", None), Ignore>> \in Seq(Ops1)
  <2>1. PICK a : a = Op("loop", None)
    OBVIOUS
  <2>2. a \in Ops0 /\ Ignore \in Ops0
    <3>1. "loop" \in Inner \ (OfVf \union OfFn)
      BY DEF Inner, Raising, OfVf, OfFn, Grants
    <3> QED BY <2>1, <3>1, PlainOps, Branches
  <2>3. a \in Ops1 /\ Ignore \in Ops1
    BY <2>2, Levels
  <2>4. <<a, Ignore>> \in Seq(Ops1)
    BY <2>3
  <2> QED BY <2>1, <2>4
<1>2. <<>> \in Seq(Ops1)
  OBVIOUS
<1>3. l = <<>> \/ l = <<Op("loop", None), Ignore>>
  BY DEF Loops
<1>4. l \in Seq(Ops1)
  BY <1>1, <1>2, <1>3
<1> QED BY <1>3, <1>4, Levels

LEMMA EndGood ==
  ASSUME NEW S \in World, NEW w \in Seq(AnyOp), Done(w), S.run = "off", OkAll(S), Ready(S)
  PROVE  Good(Cons(EndFa, w), S)
<1>1. ASSUME NEW T \in World, AfterEnd(S, T) PROVE Good(w, T)
  <2>1. OkAll(T) /\ T.fa = None /\ Ready(T)
    BY <1>1 DEF AfterEnd, Vfs, Engines, OkAll, OkVf
  <2> QED BY <2>1 DEF Done
<1> QED BY <1>1, DoEndFa DEF EndFa

LEMMA LoopEnd ==
  ASSUME NEW S \in World, NEW w \in Seq(AnyOp), Done(w), S.run = "off", OkAll(S), NEW l \in Loops,
         Down(S) \/ (l = <<>> /\ Ready(S))
  PROVE  Good(l \o Cons(EndFa, w), S)
<1>1. PICK e : e = Cons(EndFa, w)
  OBVIOUS
<1>2. e \in Seq(AnyOp)
  BY <1>1, OpsKnown
<1>3. Ready(S)
  BY DEF Down, Ready
<1>4. CASE l = <<>>
  <2>1. Good(e, S)
    BY <1>1, <1>3, EndGood
  <2>2. Spells(<<>> \o e, e)
    BY <1>2, SpellsCat
  <2> QED BY <1>1, <1>4, <2>1, <2>2, SpellsGood
<1>5. CASE l = <<Op("loop", None), Ignore>> /\ Down(S)
  <2>1. ASSUME NEW T \in World, AfterLoop(S, T) PROVE Good(Cons(Ignore, e), T)
    <3>1. OkAll(T) /\ T.run = "off" /\ Ready(T)
      BY <2>1 DEF AfterLoop, Held, Stays, Down, Ready
    <3> QED BY <1>1, <1>2, <3>1, EndGood, Ignored
  <2>2. ASSUME NEW T \in World, FailLoop(S, T) PROVE Good(Landing(Cons(Ignore, e)), T)
    <3>1. OkAll(T) /\ T.run = "off" /\ Ready(T)
      BY <2>2 DEF FailLoop, Failed, Held, Stays, Ready
    <3> QED BY <1>1, <1>2, <3>1, EndGood, Ignored
  <2>3. Good(Cons(Op("loop", None), Cons(Ignore, e)), S)
    BY <1>2, <1>5, <2>1, <2>2, Ignored, DoLoop
  <2>4. Spells(<<Op("loop", None), Ignore>> \o e, Cons(Op("loop", None), Cons(Ignore, e)))
    BY <1>2, OpsKnown, SpelledCat
  <2>5. Good(<<Op("loop", None), Ignore>> \o e, S)
    BY <2>3, <2>4, SpellsGood
  <2> QED BY <1>1, <1>5, <2>5
<1>6. l = <<>> \/ l = <<Op("loop", None), Ignore>>
  BY LoopOps
<1>7. l = <<>> \/ Down(S)
  OBVIOUS
<1> QED BY <1>4, <1>5, <1>6, <1>7

\* Whoever hangs the engines is reset first; if that fails, the loop is left out.
LEMMA AutoEnd ==
  ASSUME NEW S \in World, NEW w \in Seq(AnyOp), Done(w), NEW l \in Loops,
         S.run = "off", OkAll(S), ~Clean(S), S.st = "ABNORMAL"
  PROVE  Good(AutoOrEnd \o (l \o Cons(EndFa, w)), S)
<1>0. PICK k, b, a : k = Catch(b) /\ b = <<EndFa, Return>> /\ a = Op("auto", None)
  OBVIOUS
<1>1. EndFa \in Ops1 /\ Return \in Ops1
  BY PlainOps, Levels
<1>2. b \in Seq(Ops1)
  BY <1>0, <1>1
<1>3. k \in AnyOp /\ a \in AnyOp /\ k.op = "catch" /\ k.h = b
  BY <1>0, <1>2, OpsKnown DEF Catch
<1>4. PICK e : e = l \o Cons(EndFa, w)
  OBVIOUS
<1>5. Cons(EndFa, w) \in Seq(AnyOp) /\ e \in Seq(AnyOp) /\ Cons(k, e) \in Seq(AnyOp)
  BY <1>3, <1>4, LoopOps, OpsKnown, SpellsCat
<1>6. ASSUME NEW T \in World, AfterAuto(S, T) PROVE Good(Cons(k, e), T)
  <2>1. OkAll(T) /\ T.run = "off" /\ Down(T)
    BY <1>6 DEF AfterAuto, Held, Stays, Down
  <2>2. Good(e, T)
    BY <1>4, <2>1, LoopEnd
  <2> QED BY <1>3, <1>5, <2>2, DoCatch
<1>7. ASSUME NEW T \in World, FailAuto(S, T) PROVE Good(Landing(Cons(k, e)), T)
  <2>1. OkAll(T) /\ T.run = "off" /\ Ready(T)
    BY <1>7 DEF FailAuto, Failed, Held, Stays, Ready
  <2>2. Cons(Return, e) \in Seq(AnyOp) /\ Done(Cons(Return, e))
    BY <1>5, OpsKnown, FinalIdle, DoReturn DEF Done
  <2>3. Good(Cons(EndFa, Cons(Return, e)), T)
    BY <2>1, <2>2, EndGood
  <2>4. Spells(b \o e, Cons(EndFa, Cons(Return, e)))
    BY <1>0, <1>5, OpsKnown, SpelledCat
  <2>5. Good(b \o e, T)
    BY <2>3, <2>4, SpellsGood
  <2>6. Landing(Cons(k, e)) = b \o e
    BY <1>3, <1>5, LandingCons
  <2> QED BY <2>5, <2>6
<1>8. AutoPre(S)
  BY OkTame DEF AutoPre, Down, OkAll
<1>9. Good(Cons(a, Cons(k, e)), S)
  BY <1>0, <1>5, <1>6, <1>7, <1>8, DoAuto
<1>10. Spells(AutoOrEnd \o e, Cons(a, Cons(k, e)))
  <2>1. AutoOrEnd = <<a, k>>
    BY <1>0 DEF AutoOrEnd
  <2>2. Spells(<<a, k>> \o e, Cons(a, Cons(k, e)))
    BY <1>3, <1>5, SpelledCat
  <2> QED BY <2>1, <2>2
<1> QED BY <1>4, <1>9, <1>10, SpellsGood

\* The branch that exit_full_access takes when the save fails.
LEMMA ExitBranch ==
  ASSUME NEW l \in Loops, NEW c, c = Catch(AutoOrEnd \o l \o <<EndFa, Return>>), NEW w \in Seq(AnyOp)
  PROVE  /\ c \in AnyOp /\ Cons(c, w) \in Seq(AnyOp)
         /\ \A S \in World : Good(w, S) => Good(Cons(c, w), S)
         /\ \A S \in World : S.run = "off" /\ OkAll(S) /\ ~Clean(S) /\ S.st = "ABNORMAL" =>
              Good(Landing(Cons(c, w)), S)
<1>0. PICK b, x : b = <<EndFa, Return>> /\ x = AutoOrEnd \o l
  OBVIOUS
<1>1. b \in Seq(Ops1)
  <2>1. EndFa \in Ops1 /\ Return \in Ops1
    BY PlainOps, Levels
  <2> QED BY <1>0, <2>1
<1>2. /\ AutoOrEnd \in Seq(Ops1) /\ AutoOrEnd \in Seq(AnyOp) /\ b \in Seq(AnyOp)
      /\ l \in Seq(Ops1) /\ l \in Seq(AnyOp)
  BY <1>1, HandlerOps, LoopOps, Levels
<1>3. x \in Seq(Ops1) /\ x \in Seq(AnyOp)
  <2>1. x \in Seq(Ops1)
    BY <1>0, <1>2, ConcatProperties
  <2> QED BY <2>1, Levels
<1>4. PICK y : y = x \o b
  OBVIOUS
<1>5. y \in Seq(Ops1) /\ y \in Seq(AnyOp)
  <2>1. y \in Seq(Ops1)
    BY <1>1, <1>3, <1>4, ConcatProperties
  <2> QED BY <2>1, Levels
<1>6. c = Catch(y)
  BY <1>0, <1>4
<1>7. c \in AnyOp /\ c.op = "catch" /\ c.h = y /\ Cons(c, w) \in Seq(AnyOp)
  <2>1. Catch(y) \in AnyOp
    BY <1>5, OpsKnown
  <2>2. \A h : Catch(h).op = "catch" /\ Catch(h).h = h
    BY DEF Catch
  <2>3. c \in AnyOp /\ c.op = "catch" /\ c.h = y
    BY <1>6, <2>1, <2>2
  <2> QED BY <2>3, OpsKnown
<1>8. Landing(Cons(c, w)) = y \o w
  BY <1>7, LandingCons
<1>9. PICK e : e = Cons(Return, w)
  OBVIOUS
<1>10. e \in Seq(AnyOp) /\ Done(e) /\ Cons(EndFa, e) \in Seq(AnyOp)
  BY <1>9, OpsKnown, FinalIdle, DoReturn DEF Done
<1>11. Spells(y \o w, AutoOrEnd \o (l \o Cons(EndFa, e)))
  <2>1. Spells(b \o w, Cons(EndFa, e))
    BY <1>0, <1>9, OpsKnown, SpelledCat
  <2>2. b \o w \in Seq(AnyOp)
    BY <1>2, SpellsCat
  <2>3. Spells((x \o b) \o w, x \o (b \o w))
    BY <1>2, <1>3, SpellsCat
  <2>4. Spells(x \o (b \o w), x \o Cons(EndFa, e))
    BY <2>1, SpellsIn
  <2>5. Spells((AutoOrEnd \o l) \o Cons(EndFa, e), AutoOrEnd \o (l \o Cons(EndFa, e)))
    BY <1>2, <1>10, SpellsCat
  <2> QED BY <1>0, <1>4, <2>3, <2>4, <2>5, SpellsCat
<1>12. ASSUME NEW S \in World, S.run = "off", OkAll(S), ~Clean(S), S.st = "ABNORMAL"
       PROVE  Good(Landing(Cons(c, w)), S)
  <2>1. Good(AutoOrEnd \o (l \o Cons(EndFa, e)), S)
    BY <1>10, <1>12, AutoEnd
  <2> QED BY <1>8, <1>11, <2>1, SpellsGood
<1> QED BY <1>7, <1>12, DoCatch

LEMMA SpellsSix ==
  ASSUME NEW a \in Seq(AnyOp), NEW b \in Seq(AnyOp), NEW c \in Seq(AnyOp), NEW d \in Seq(AnyOp),
         NEW e \in Seq(AnyOp), NEW f \in Seq(AnyOp)
  PROVE  Spells(a \o b \o c \o d \o e \o f, a \o (b \o (c \o (d \o (e \o f)))))
<1>1. PICK x1, x2, x3 : x1 = a \o b /\ x2 = x1 \o c /\ x3 = x2 \o d
  OBVIOUS
<1>2. PICK y1, y2, y3 : y1 = e \o f /\ y2 = d \o y1 /\ y3 = c \o y2
  OBVIOUS
<1>3. x1 \in Seq(AnyOp) /\ x2 \in Seq(AnyOp) /\ x3 \in Seq(AnyOp)
  BY <1>1, SpellsCat
<1>4. y1 \in Seq(AnyOp) /\ y2 \in Seq(AnyOp) /\ y3 \in Seq(AnyOp)
  BY <1>2, SpellsCat
<1>5. Spells((x3 \o e) \o f, x3 \o y1)
  BY <1>2, <1>3, SpellsCat
<1>6. Spells(x3 \o y1, x2 \o y2)
  BY <1>1, <1>2, <1>3, <1>4, SpellsCat
<1>7. Spells(x2 \o y2, x1 \o y3)
  BY <1>1, <1>2, <1>3, <1>4, SpellsCat
<1>8. Spells(x1 \o y3, a \o (b \o y3))
  BY <1>1, <1>4, SpellsCat
<1>9. Spells((x3 \o e) \o f, a \o (b \o y3))
  BY <1>5, <1>6, <1>7, <1>8, SpellsCat
<1> QED BY <1>1, <1>2, <1>9

\* The VF has started its driver, or has not.
LEMMA ExitInitGood ==
  ASSUME NEW S \in World, Final(S), NEW v \in VF, S.fa = v, S.ff = "init", S.cur = v, S.st = "LOADED",
         S.run = "off", NEW l \in Loops, NEW c, c = Catch(AutoOrEnd \o l \o <<EndFa, Return>>)
  PROVE  /\ l = <<>> => Good(<<>> \o <<>> \o <<c>> \o <<Op("add", v)>> \o l \o <<EndFa>>, S)
         /\ Good(<<Op("save", None)>> \o <<>> \o <<c>> \o <<Op("add", v)>> \o l \o <<EndFa>>, S)
         /\ Good(<<Op("save", None)>> \o <<Op("shutdown", v)>> \o <<c>> \o <<>> \o l \o <<EndFa>>, S)
<1>0. PICK a, s, d, f : a = Op("add", v) /\ s = Op("save", None) /\ d = Op("shutdown", v) /\ f = <<EndFa>>
  OBVIOUS
<1>1. /\ a \in AnyOp /\ s \in AnyOp /\ d \in AnyOp /\ EndFa \in AnyOp /\ f \in Seq(AnyOp)
      /\ l \in Seq(AnyOp) /\ c \in AnyOp /\ Done(<<>>)
  <2>1. c \in AnyOp
    BY Empty, ExitBranch
  <2>2. a \in AnyOp /\ s \in AnyOp /\ d \in AnyOp /\ EndFa \in AnyOp
    BY <1>0, OpsKnown
  <2>3. f \in Seq(AnyOp) /\ l \in Seq(AnyOp)
    BY <1>0, <2>2, LoopOps, SpellsCat
  <2>4. Done(<<>>)
    BY Finish DEF Done
  <2> QED BY <2>1, <2>2, <2>3, <2>4
<1>2. PICK e, g : e = l \o f /\ g = Cons(a, e)
  OBVIOUS
<1>3. e \in Seq(AnyOp) /\ g \in Seq(AnyOp) /\ Cons(c, e) \in Seq(AnyOp) /\ Cons(c, g) \in Seq(AnyOp)
      /\ Cons(d, Cons(c, e)) \in Seq(AnyOp)
  BY <1>1, <1>2, OpsKnown, SpellsCat
<1>4. ASSUME NEW T \in World, T.run = "off", OkAll(T), Down(T) \/ (l = <<>> /\ Ready(T))
      PROVE  Good(e, T)
  <2>1. Spells(f, Cons(EndFa, <<>>))
    BY <1>0, <1>1, Spelled
  <2>2. Spells(e, l \o Cons(EndFa, <<>>))
    BY <1>2, <2>1, SpellsIn
  <2>3. Good(l \o Cons(EndFa, <<>>), T)
    BY <1>1, <1>4, Empty, LoopEnd
  <2> QED BY <2>2, <2>3, SpellsGood
<1>5. OkAll(S) /\ v \notin S.ent /\ v \in S.ini
  BY DEF Final, Settled, OkAll, OkVf
<1>6. ASSUME NEW T \in World, T.run = "off", OkAll(T), v \notin T.ent, v \in T.ini,
             Down(T) \/ (l = <<>> /\ On(T, v, "LOADED"))
      PROVE  Good(g, T)
  <2>1. ASSUME NEW U \in World, AfterAdd(T, U, v) PROVE Good(e, U)
    <3>1. \A u \in VF : U.stat[u] = IF u = v THEN "ACTIVE" ELSE T.stat[u]
      <4>1. T.stat \in [VF -> {"UNAVAIL", "AVAIL", "ACTIVE", "SUSPEND"}]
        BY DEF World
      <4> QED BY <2>1, <4>1 DEF AfterAdd
    <3>2. OkAll(U)
      BY <1>6, <2>1, <3>1 DEF AfterAdd, OkAll, OkVf
    <3>3. U.run = "off" /\ U.st = T.st /\ U.cur = T.cur /\ v \in U.ent /\ (Clean(U) => Clean(T))
      BY <1>6, <2>1 DEF AfterAdd, Held, Stays, Engines
    <3>4. Down(U) \/ (l = <<>> /\ Ready(U))
      BY <1>6, <3>3 DEF Down, Ready, On, Off
    <3> QED BY <1>4, <3>2, <3>3, <3>4
  <2>2. Good(Cons(Op("add", v), e), T)
    BY <1>3, <1>6, <2>1, DoAdd
  <2> QED BY <1>0, <1>2, <2>2
<1>7. ASSUME NEW T \in World, AfterSave(S, T)
      PROVE  T.run = "off" /\ OkAll(T) /\ Down(T) /\ v \notin T.ent /\ v \in T.ini
  BY <1>5, <1>7 DEF AfterSave, Held, Stays, Vfs, On, OkAll, OkVf, Down, Off
<1>8. ASSUME NEW T \in World, FailSave(S, T)
      PROVE  T.run = "off" /\ OkAll(T) /\ ~Clean(T) /\ T.st = "ABNORMAL"
  BY <1>5, <1>8 DEF FailSave, Failed, Held, Stays, Vfs, OkAll, OkVf
<1>9. ASSUME l = <<>> PROVE Good(Cons(c, g), S)
  <2>1. Good(g, S)
    BY <1>5, <1>6, <1>9 DEF On
  <2> QED BY <1>3, <2>1, ExitBranch
<1>10. Good(Cons(s, Cons(c, g)), S)
  <2>1. \A T \in World : AfterSave(S, T) => Good(Cons(c, g), T)
    BY <1>3, <1>6, <1>7, ExitBranch
  <2>2. \A T \in World : FailSave(S, T) => Good(Landing(Cons(c, g)), T)
    BY <1>3, <1>8, ExitBranch
  <2> QED BY <1>0, <1>3, <2>1, <2>2, DoSave
<1>11. Good(Cons(s, Cons(d, Cons(c, e))), S)
  <2>1. ASSUME NEW T \in World, AfterSave(S, T) PROVE Good(Cons(d, Cons(c, e)), T)
    <3>1. ASSUME NEW U \in World, AfterNop(T, U) PROVE Good(Cons(c, e), U)
      <4>1. U.run = "off" /\ OkAll(U) /\ Down(U)
        BY <1>7, <2>1, <3>1 DEF AfterNop, Held, Stays, Vfs, Engines, OkAll, OkVf, Down, Off
      <4> QED BY <1>3, <1>4, <4>1, ExitBranch
    <3> QED BY <1>0, <1>3, <3>1, DoNop
  <2>2. ASSUME NEW T \in World, FailSave(S, T) PROVE Good(Landing(Cons(d, Cons(c, e))), T)
    <3>1. Good(Landing(Cons(c, e)), T)
      BY <1>3, <1>8, <2>2, ExitBranch
    <3>2. d.op # "catch"
      BY <1>0 DEF Op
    <3>3. Landing(Cons(d, Cons(c, e))) = Landing(Cons(c, e))
      BY <1>1, <1>3, <3>2, LandingCons
    <3> QED BY <3>1, <3>3
  <2> QED BY <1>0, <1>3, <2>1, <2>2, DoSave
<1>12. Spells(<<c>> \o (<<a>> \o e), Cons(c, g)) /\ Spells(<<c>> \o (<<>> \o e), Cons(c, e))
  <2>1. Spells(<<a>> \o e, g) /\ Spells(<<>> \o e, e)
    BY <1>1, <1>2, <1>3, SpelledCat, SpellsCat
  <2>2. Spells(<<c>> \o (<<a>> \o e), <<c>> \o g) /\ Spells(<<c>> \o (<<>> \o e), <<c>> \o e)
    BY <2>1, SpellsIn
  <2>3. Spells(<<c>> \o g, Cons(c, g)) /\ Spells(<<c>> \o e, Cons(c, e))
    BY <1>1, <1>3, SpelledCat
  <2> QED BY <2>2, <2>3, SpellsCat
<1>13. PICK x, y : x = <<c>> \o (<<a>> \o e) /\ y = <<c>> \o (<<>> \o e)
  OBVIOUS
<1>14. /\ <<a>> \in Seq(AnyOp) /\ <<c>> \in Seq(AnyOp) /\ <<s>> \in Seq(AnyOp) /\ <<d>> \in Seq(AnyOp)
       /\ x \in Seq(AnyOp) /\ y \in Seq(AnyOp)
  BY <1>1, <1>3, <1>13, Empty, SpellsCat
<1>15. ASSUME l = <<>> PROVE Good(<<>> \o <<>> \o <<c>> \o <<a>> \o l \o f, S)
  <2>1. Spells(<<>> \o <<>> \o <<c>> \o <<a>> \o l \o f, <<>> \o (<<>> \o x))
    BY <1>1, <1>2, <1>13, <1>14, Empty, SpellsSix
  <2>2. Spells(<<>> \o x, x)
    BY <1>14, SpellsCat
  <2>3. Spells(<<>> \o (<<>> \o x), <<>> \o x)
    BY <2>2, SpellsIn
  <2> QED BY <1>9, <1>12, <1>13, <1>15, <2>1, <2>2, <2>3, SpellsGood
<1>16. Good(<<s>> \o <<>> \o <<c>> \o <<a>> \o l \o f, S)
  <2>1. Spells(<<s>> \o <<>> \o <<c>> \o <<a>> \o l \o f, <<s>> \o (<<>> \o x))
    BY <1>1, <1>2, <1>13, <1>14, Empty, SpellsSix
  <2>2. Spells(<<>> \o x, Cons(c, g))
    BY <1>12, <1>13, <1>14, SpellsCat
  <2>3. Spells(<<s>> \o (<<>> \o x), <<s>> \o Cons(c, g))
    BY <2>2, SpellsIn
  <2>4. Spells(<<s>> \o Cons(c, g), Cons(s, Cons(c, g)))
    BY <1>1, <1>3, SpelledCat
  <2> QED BY <1>10, <2>1, <2>3, <2>4, SpellsGood
<1>17. Good(<<s>> \o <<d>> \o <<c>> \o <<>> \o l \o f, S)
  <2>1. Spells(<<s>> \o <<d>> \o <<c>> \o <<>> \o l \o f, <<s>> \o (<<d>> \o y))
    BY <1>1, <1>2, <1>13, <1>14, Empty, SpellsSix
  <2>2. Spells(<<d>> \o y, <<d>> \o Cons(c, e))
    BY <1>12, <1>13, SpellsIn
  <2>3. Spells(<<d>> \o Cons(c, e), Cons(d, Cons(c, e)))
    BY <1>1, <1>3, SpelledCat
  <2>4. Spells(<<s>> \o (<<d>> \o y), <<s>> \o Cons(d, Cons(c, e)))
    BY <2>2, <2>3, SpellsCat, SpellsIn
  <2>5. Spells(<<s>> \o Cons(d, Cons(c, e)), Cons(s, Cons(d, Cons(c, e))))
    BY <1>1, <1>3, SpelledCat
  <2> QED BY <1>11, <2>1, <2>4, <2>5, SpellsGood
<1> QED BY <1>0, <1>15, <1>16, <1>17

\* The VF has closed its driver.
LEMMA ExitFiniGood ==
  ASSUME NEW S \in World, Final(S), NEW v \in VF, S.fa = v, S.cur = v, S.st = "LOADED",
         S.run = "off", NEW l \in Loops
  PROVE  Good(<<Op("save", None), Ignore, Op("shutdown", v), Op("AVAIL", v), IfBad(AutoOrEnd)>>
              \o l \o <<EndFa>>, S)
<1>0. PICK s, d, p, b, f :
        /\ s = Op("save", None) /\ d = Op("shutdown", v) /\ p = Op("AVAIL", v) /\ b = IfBad(AutoOrEnd)
        /\ f = <<EndFa>>
  OBVIOUS
<1>1. /\ s \in AnyOp /\ d \in AnyOp /\ p \in AnyOp /\ b \in AnyOp /\ Ignore \in AnyOp /\ EndFa \in AnyOp
      /\ f \in Seq(AnyOp) /\ l \in Seq(AnyOp) /\ Done(<<>>)
  BY <1>0, Empty, OpsKnown, LoopOps, SpellsCat, Finish DEF Done
<1>2. PICK e, x, y, z : e = l \o f /\ x = Cons(b, e) /\ y = Cons(p, x) /\ z = Cons(d, y)
  OBVIOUS
<1>3. e \in Seq(AnyOp) /\ x \in Seq(AnyOp) /\ y \in Seq(AnyOp) /\ z \in Seq(AnyOp)
  BY <1>1, <1>2, OpsKnown, SpellsCat
<1>4. Spells(e, l \o Cons(EndFa, <<>>))
  <2>1. Spells(f, Cons(EndFa, <<>>))
    BY <1>0, <1>1, Spelled
  <2> QED BY <1>2, <2>1, SpellsIn
<1>5. ASSUME NEW T \in World, T.run = "off", OkAll(T), Down(T) PROVE Good(x, T)
  <2>1. b.op = "ifbad" /\ b.h = AutoOrEnd
    BY <1>0 DEF IfBad
  <2>2. b.op \in Tests /\ (Holds(b, T) <=> T.st = "ABNORMAL")
    BY <2>1 DEF Tests, Holds
  <2>3. ASSUME T.st # "ABNORMAL" PROVE Good(e, T)
    <3>1. Good(l \o Cons(EndFa, <<>>), T)
      BY <1>1, <1>5, Empty, LoopEnd
    <3> QED BY <1>4, <3>1, SpellsGood
  <2>4. ASSUME T.st = "ABNORMAL" PROVE Good(AutoOrEnd \o e, T)
    <3>1. ~Clean(T)
      BY <1>5, <2>4 DEF Down, Off
    <3>2. Good(AutoOrEnd \o (l \o Cons(EndFa, <<>>)), T)
      BY <1>1, <1>5, <2>4, <3>1, Empty, AutoEnd
    <3>3. Spells(AutoOrEnd \o e, AutoOrEnd \o (l \o Cons(EndFa, <<>>)))
      BY <1>4, SpellsIn
    <3> QED BY <3>2, <3>3, SpellsGood
  <2> QED BY <1>1, <1>2, <1>3, <1>5, <2>1, <2>2, <2>3, <2>4, DoTest
<1>6. ASSUME NEW T \in World, T.run = "off", OkBut(T, v), v \notin T.ent, Down(T) PROVE Good(y, T)
  <2>1. ASSUME NEW U \in World, AfterSet(T, U, v, "AVAIL") PROVE Good(x, U)
    <3>1. \A u \in VF : U.stat[u] = IF u = v THEN "AVAIL" ELSE T.stat[u]
      <4>1. T.stat \in [VF -> {"UNAVAIL", "AVAIL", "ACTIVE", "SUSPEND"}]
        BY DEF World
      <4> QED BY <2>1, <4>1 DEF AfterSet
    <3>2. OkAll(U)
      BY <1>6, <2>1, <3>1 DEF AfterSet, OkAll, OkBut, OkVf
    <3>3. U.run = "off" /\ Down(U)
      BY <1>6, <2>1 DEF AfterSet, Held, Stays, Engines, Down, Off
    <3> QED BY <1>5, <3>2, <3>3
  <2> QED BY <1>0, <1>2, <1>3, <2>1, DoSet
<1>7. ASSUME NEW T \in World, T.run = "off", OkBut(T, v), v \notin T.ent, Down(T) PROVE Good(z, T)
  <2>1. ASSUME NEW U \in World, AfterNop(T, U) PROVE Good(y, U)
    <3>1. U.run = "off" /\ OkBut(U, v) /\ v \notin U.ent /\ Down(U)
      BY <1>7, <2>1 DEF AfterNop, Held, Stays, Vfs, Engines, OkBut, OkVf, Down, Off
    <3> QED BY <1>6, <3>1
  <2> QED BY <1>0, <1>2, <1>3, <2>1, DoNop
<1>8. OkBut(S, v) /\ v \notin S.ent
  BY DEF Final, Settled, OkBut
<1>9. ASSUME NEW T \in World, AfterSave(S, T) PROVE Good(Cons(Ignore, z), T)
  <2>1. T.run = "off" /\ OkBut(T, v) /\ v \notin T.ent /\ Down(T)
    BY <1>8, <1>9 DEF AfterSave, Held, Stays, Vfs, On, OkBut, OkVf, Down, Off
  <2> QED BY <1>3, <1>7, <2>1, Ignored
<1>10. ASSUME NEW T \in World, FailSave(S, T) PROVE Good(Landing(Cons(Ignore, z)), T)
  <2>1. T.run = "off" /\ OkBut(T, v) /\ v \notin T.ent /\ Down(T)
    BY <1>8, <1>10 DEF FailSave, Failed, Held, Stays, Vfs, OkBut, OkVf, Down
  <2> QED BY <1>3, <1>7, <2>1, Ignored
<1>11. Good(Cons(s, Cons(Ignore, z)), S)
  BY <1>0, <1>3, <1>9, <1>10, Ignored, DoSave
<1>12. Spells(<<s, Ignore, d, p, b>> \o l \o f, Cons(s, Cons(Ignore, z)))
  <2>1. PICK q : q = <<s, Ignore, d, p, b>>
    OBVIOUS
  <2>2. q \in Seq(AnyOp)
    BY <1>1, <2>1
  <2>3. Spells((q \o l) \o f, q \o e)
    BY <1>1, <1>2, <2>2, SpellsCat
  <2>4. Spells(q \o e, Cons(s, Cons(Ignore, Cons(d, Cons(p, Cons(b, e))))))
    BY <1>1, <1>3, <2>1, SpelledCat
  <2> QED BY <1>2, <2>1, <2>3, <2>4, SpellsCat
<1>13. Good(<<s, Ignore, d, p, b>> \o l \o f, S)
  BY <1>11, <1>12, SpellsGood
<1> QED BY <1>0, <1>13

-----------------------------------------------------------------------------
(* What the actions do to the world.                                       *)

\* An operation does what it says.
LEMMA Achieves ==
  ASSUME NEW o, NEW S, NEW T
  PROVE  /\ o.op \in NopOps /\ AfterNop(S, T) => After(o, S, T)
         /\ o.op = "stop" /\ AfterStop(S, T) => After(o, S, T)
         /\ o.op = "start" /\ AfterStart(S, T) => After(o, S, T)
         /\ o.op = "save" /\ AfterSave(S, T) => After(o, S, T)
         /\ o.op = "load" /\ AfterLoad(S, T, o.f) => After(o, S, T)
         /\ o.op = "init" /\ AfterInit(S, T, o.f) => After(o, S, T)
         /\ o.op = "add" /\ AfterAdd(S, T, o.f) => After(o, S, T)
         /\ o.op = "remove" /\ AfterRemove(S, T, o.f) => After(o, S, T)
         /\ o.op \in SetOps /\ AfterSet(S, T, o.f, o.op) => After(o, S, T)
         /\ o.op \in {"wgr", "gpureset", "expel"} /\ AfterWgr(S, T) => After(o, S, T)
         /\ o.op = "resetvf" /\ AfterReset(S, T) => After(o, S, T)
         /\ o.op = "auto" /\ AfterAuto(S, T) => After(o, S, T)
         /\ o.op = "switch" /\ AfterSwitch(S, T, o.f) => After(o, S, T)
         /\ o.op = "saved" /\ AfterSaved(S, T, o.f) => After(o, S, T)
         /\ o.op = "turn" /\ AfterTurn(S, T) => After(o, S, T)
         /\ o.op = "loop" /\ AfterLoop(S, T) => After(o, S, T)
         /\ o.op = "orphan" /\ AfterOrphan(S, T, o.f) => After(o, S, T)
         /\ o.op = "fini" /\ AfterFini(S, T, o.f) => After(o, S, T)
         /\ o.op = "grantinit" /\ AfterGrant(S, T, o.f, "init") => After(o, S, T)
         /\ o.op = "grantfini" /\ AfterGrant(S, T, o.f, "fini") => After(o, S, T)
         /\ o.op = "endfa" /\ AfterEnd(S, T) => After(o, S, T)
         /\ o.op = "timeout" /\ AfterTimeout(S, T) => After(o, S, T)
         /\ o.op = "save" /\ FailSave(S, T) => Fail(o, S, T)
         /\ o.op = "load" /\ FailLoad(S, T, o.f) => Fail(o, S, T)
         /\ o.op = "init" /\ FailInit(S, T, o.f) => Fail(o, S, T)
         /\ o.op = "resetvf" /\ FailReset(S, T) => Fail(o, S, T)
         /\ o.op = "auto" /\ FailAuto(S, T) => Fail(o, S, T)
         /\ o.op = "switch" /\ FailSwitch(S, T, o.f) => Fail(o, S, T)
         /\ o.op = "saved" /\ FailSaved(S, T, o.f) => Fail(o, S, T)
         /\ o.op = "turn" /\ FailTurn(S, T) => Fail(o, S, T)
         /\ o.op = "loop" /\ FailLoop(S, T) => Fail(o, S, T)
         /\ o.op = "orphan" /\ FailOrphan(S, T, o.f) => Fail(o, S, T)
         /\ o.op = "fini" /\ FailFini(S, T) => Fail(o, S, T)
<1>1. o.op \in NopOps /\ AfterNop(S, T) => After(o, S, T)
  BY DEF After, NopOps, SetOps
<1>2. o.op = "stop" /\ AfterStop(S, T) => After(o, S, T)
  BY DEF After, NopOps, SetOps
<1>3. o.op = "start" /\ AfterStart(S, T) => After(o, S, T)
  BY DEF After, NopOps, SetOps
<1>4. o.op = "save" /\ AfterSave(S, T) => After(o, S, T)
  BY DEF After, NopOps, SetOps
<1>5. o.op = "load" /\ AfterLoad(S, T, o.f) => After(o, S, T)
  BY DEF After, NopOps, SetOps
<1>6. o.op = "init" /\ AfterInit(S, T, o.f) => After(o, S, T)
  BY DEF After, NopOps, SetOps
<1>7. o.op = "add" /\ AfterAdd(S, T, o.f) => After(o, S, T)
  BY DEF After, NopOps, SetOps
<1>8. o.op = "remove" /\ AfterRemove(S, T, o.f) => After(o, S, T)
  BY DEF After, NopOps, SetOps
<1>9. o.op \in SetOps /\ AfterSet(S, T, o.f, o.op) => After(o, S, T)
  BY DEF After, NopOps, SetOps
<1>10. o.op \in {"wgr", "gpureset", "expel"} /\ AfterWgr(S, T) => After(o, S, T)
  BY DEF After, NopOps, SetOps
<1>11. o.op = "resetvf" /\ AfterReset(S, T) => After(o, S, T)
  BY DEF After, NopOps, SetOps
<1>12. o.op = "auto" /\ AfterAuto(S, T) => After(o, S, T)
  BY DEF After, NopOps, SetOps
<1>13. o.op = "switch" /\ AfterSwitch(S, T, o.f) => After(o, S, T)
  BY DEF After, NopOps, SetOps
<1>14. o.op = "saved" /\ AfterSaved(S, T, o.f) => After(o, S, T)
  BY DEF After, NopOps, SetOps
<1>15. o.op = "turn" /\ AfterTurn(S, T) => After(o, S, T)
  BY DEF After, NopOps, SetOps
<1>16. o.op = "loop" /\ AfterLoop(S, T) => After(o, S, T)
  BY DEF After, NopOps, SetOps
<1>17. o.op = "orphan" /\ AfterOrphan(S, T, o.f) => After(o, S, T)
  BY DEF After, NopOps, SetOps
<1>18. o.op = "fini" /\ AfterFini(S, T, o.f) => After(o, S, T)
  BY DEF After, NopOps, SetOps
<1>19. o.op = "grantinit" /\ AfterGrant(S, T, o.f, "init") => After(o, S, T)
  BY DEF After, NopOps, SetOps
<1>20. o.op = "grantfini" /\ AfterGrant(S, T, o.f, "fini") => After(o, S, T)
  BY DEF After, NopOps, SetOps
<1>21. o.op = "endfa" /\ AfterEnd(S, T) => After(o, S, T)
  BY DEF After, NopOps, SetOps
<1>22. o.op = "timeout" /\ AfterTimeout(S, T) => After(o, S, T)
  BY DEF After, NopOps, SetOps
<1>23. o.op = "save" /\ FailSave(S, T) => Fail(o, S, T)
  BY DEF Fail, Raising
<1>24. o.op = "load" /\ FailLoad(S, T, o.f) => Fail(o, S, T)
  BY DEF Fail, Raising
<1>25. o.op = "init" /\ FailInit(S, T, o.f) => Fail(o, S, T)
  BY DEF Fail, Raising
<1>26. o.op = "resetvf" /\ FailReset(S, T) => Fail(o, S, T)
  BY DEF Fail, Raising
<1>27. o.op = "auto" /\ FailAuto(S, T) => Fail(o, S, T)
  BY DEF Fail, Raising
<1>28. o.op = "switch" /\ FailSwitch(S, T, o.f) => Fail(o, S, T)
  BY DEF Fail, Raising
<1>29. o.op = "saved" /\ FailSaved(S, T, o.f) => Fail(o, S, T)
  BY DEF Fail, Raising
<1>30. o.op = "turn" /\ FailTurn(S, T) => Fail(o, S, T)
  BY DEF Fail, Raising
<1>31. o.op = "loop" /\ FailLoop(S, T) => Fail(o, S, T)
  BY DEF Fail, Raising
<1>32. o.op = "orphan" /\ FailOrphan(S, T, o.f) => Fail(o, S, T)
  BY DEF Fail, Raising
<1>33. o.op = "fini" /\ FailFini(S, T) => Fail(o, S, T)
  BY DEF Fail, Raising
<1> QED BY <1>1, <1>2, <1>3, <1>4, <1>5, <1>6, <1>7, <1>8, <1>9, <1>10, <1>11, <1>12, <1>13, <1>14,
           <1>15, <1>16, <1>17, <1>18, <1>19, <1>20, <1>21, <1>22, <1>23, <1>24, <1>25, <1>26, <1>27, <1>28,
           <1>29, <1>30, <1>31, <1>32, <1>33

\* What the variables say of the world, before a step and after it.
LEMMA Fields ==
  ASSUME TypeOK, NEW S, S = Now
  PROVE  /\ S \in World
         /\ S.st = st /\ S.cur = cur /\ S.ent = entry /\ S.ini = inited /\ S.stat = status
         /\ S.fa = fa /\ S.ff = faFor
         /\ Clean(S) <=> fails = 0
         /\ S.run = "off" <=> Stopped
<1>1. S = [st |-> st, cur |-> cur, ent |-> entry, ini |-> inited, stat |-> status, fa |-> fa, ff |-> faFor,
           fault |-> IF fails = 0 THEN "none" ELSE "some", run |-> IF Stopped THEN "off" ELSE "on"]
  BY DEF Now
<1>2. S \in World
  BY <1>1 DEF TypeOK, World
<1> QED BY <1>1, <1>2 DEF Clean

LEMMA FieldsNext ==
  ASSUME TypeOK', NEW T, T = Now'
  PROVE  /\ T \in World
         /\ T.st = st' /\ T.cur = cur' /\ T.ent = entry' /\ T.ini = inited' /\ T.stat = status'
         /\ T.fa = fa' /\ T.ff = faFor'
         /\ Clean(T) <=> fails' = 0
         /\ T.run = "off" <=> Stopped'
<1>1. T = [st |-> st', cur |-> cur', ent |-> entry', ini |-> inited', stat |-> status', fa |-> fa',
           ff |-> faFor', fault |-> IF fails' = 0 THEN "none" ELSE "some",
           run |-> IF Stopped' THEN "off" ELSE "on"]
  BY DEF Now
<1>2. T \in World
  BY <1>1 DEF TypeOK, World
<1> QED BY <1>1, <1>2 DEF Clean

LEMMA FaultCount ==
  ASSUME NEW f, Count(f), TypeOK
  PROVE  (f => fails' # 0) /\ (~f => fails' = fails) /\ (fails' = 0 => fails = 0)
BY DEF Count, TypeOK

LEMMA StopDoes ==
  ASSUME TypeOK, TypeOK', Stop, NEW S, NEW T, S = Now, T = Now', Ready(S)
  PROVE  AfterStop(S, T)
<1>1. Clean(T) => Clean(S)
  BY Fields, FieldsNext, FaultCount DEF Stop
<1>2. T.run = "off" /\ T.fa = S.fa /\ T.ff = S.ff /\ Vfs(S, T)
  BY Fields, FieldsNext DEF Stop, LockFree, Stopped, sched, Vfs
<1>3. T.st # "LOADED"
  BY Fields, FieldsNext DEF Stop
<1>4. Down(T)
  BY <1>1, Fields, FieldsNext, FaultCount DEF Stop, Down, Ready, Off
<1> QED BY <1>1, <1>2, <1>3, <1>4 DEF AfterStop, Held, Stays

LEMMA StartDoes ==
  ASSUME TypeOK, TypeOK', Start, NEW S, NEW T, S = Now, T = Now', Ready(S)
  PROVE  AfterStart(S, T)
BY Fields, FieldsNext DEF Start, sched, AfterStart, Vfs, Ready, Off

LEMMA SaveDoes ==
  ASSUME TypeOK, TypeOK', Save, Stopped, NEW S, NEW T, S = Now, T = Now'
  PROVE  \/ AfterSave(S, T) /\ Then(<<>>)
         \/ FailSave(S, T) /\ Raise
<1>1. T.run = "off" /\ T.fa = S.fa /\ T.ff = S.ff /\ Vfs(S, T) /\ T.cur = S.cur
  BY Fields, FieldsNext DEF Save, Stopped, sched, Vfs
<1>2. PICK f \in CmdFail(cur) :
        /\ f => st = "LOADED"
        /\ Count(f)
        /\ st' = IF f THEN "ABNORMAL" ELSE IF st = "LOADED" THEN "SAVED" ELSE st
        /\ IF f THEN Raise ELSE Then(<<>>)
  BY DEF Save
<1>3. /\ (f => fails' # 0) /\ (~f => fails' = fails) /\ (fails' = 0 => fails = 0)
  BY <1>2, FaultCount
<1>4. Held(S, T)
  BY <1>1, <1>3, Fields, FieldsNext DEF Held, Stays
<1>5. CASE f
  BY <1>1, <1>2, <1>3, <1>4, <1>5, Fields, FieldsNext DEF FailSave, Failed
<1>6. CASE ~f
  BY <1>1, <1>2, <1>4, <1>6, Fields, FieldsNext DEF AfterSave, On
<1> QED BY <1>5, <1>6

LEMMA LoadDoes ==
  ASSUME TypeOK, TypeOK', Load, Stopped, NEW S, NEW T, S = Now, T = Now'
  PROVE  \/ AfterLoad(S, T, Arg) /\ Then(<<>>)
         \/ FailLoad(S, T, Arg) /\ Raise
<1>1. T.run = "off" /\ T.fa = S.fa /\ T.ff = S.ff /\ Vfs(S, T) /\ T.cur = Arg
  BY Fields, FieldsNext DEF Load, Stopped, sched, Vfs
<1>2. PICK f \in CmdFail(Arg) :
        /\ Count(f)
        /\ st' = IF f THEN "ABNORMAL" ELSE "LOADED"
        /\ IF f THEN Raise ELSE Then(<<>>)
  BY DEF Load
<1>3. /\ (f => fails' # 0) /\ (~f => fails' = fails) /\ (fails' = 0 => fails = 0)
  BY <1>2, FaultCount
<1>4. Held(S, T)
  BY <1>1, <1>3, Fields, FieldsNext DEF Held, Stays
<1>5. CASE f
  BY <1>1, <1>2, <1>3, <1>4, <1>5, Fields, FieldsNext DEF FailLoad, Failed
<1>6. CASE ~f
  BY <1>1, <1>2, <1>4, <1>6, Fields, FieldsNext DEF AfterLoad, On
<1> QED BY <1>5, <1>6

LEMMA InitDoes ==
  ASSUME TypeOK, TypeOK', InitCtx, Stopped, NEW S, NEW T, S = Now, T = Now'
  PROVE  \/ AfterInit(S, T, Arg) /\ Then(<<>>)
         \/ FailInit(S, T, Arg) /\ Raise
<1>1. T.run = "off" /\ T.fa = S.fa /\ T.ff = S.ff /\ Inits(S, T, Arg) /\ T.cur = Arg
  BY Fields, FieldsNext DEF InitCtx, Stopped, sched, Inits
<1>2. PICK f \in CmdFail(Arg) :
        /\ Count(f)
        /\ st' = IF f THEN "ABNORMAL" ELSE "LOADED"
        /\ IF f THEN Raise ELSE Then(<<>>)
  BY DEF InitCtx
<1>3. /\ (f => fails' # 0) /\ (~f => fails' = fails) /\ (fails' = 0 => fails = 0)
  BY <1>2, FaultCount
<1>4. Held(S, T)
  BY <1>1, <1>3, Fields, FieldsNext DEF Held, Stays
<1>5. CASE f
  BY <1>1, <1>2, <1>3, <1>4, <1>5, Fields, FieldsNext DEF FailInit, Failed
<1>6. CASE ~f
  BY <1>1, <1>2, <1>4, <1>6, Fields, FieldsNext DEF AfterInit, On
<1> QED BY <1>5, <1>6

LEMMA AddDoes ==
  ASSUME TypeOK, TypeOK', AddVf, NEW S, NEW T, S = Now, T = Now'
  PROVE  AfterAdd(S, T, Arg)
<1>1. Held(S, T)
  BY Fields, FieldsNext DEF AddVf, Stopped, Held, Stays
<1>2. T.ent = S.ent \union {Arg} /\ T.ini = S.ini /\ T.stat = [S.stat EXCEPT ![Arg] = "ACTIVE"]
  BY Fields, FieldsNext DEF AddVf
<1>3. T.st = S.st /\ T.cur = S.cur
  BY Fields, FieldsNext DEF AddVf
<1>4. Engines(S, T)
  BY <1>1, <1>2, <1>3 DEF Engines, Ready, Off, Held, Stays
<1> QED BY <1>1, <1>2, <1>4 DEF AfterAdd

LEMMA RemoveDoes ==
  ASSUME TypeOK, TypeOK', RemoveVf, NEW S, NEW T, S = Now, T = Now'
  PROVE  AfterRemove(S, T, Arg)
<1>1. PICK f \in CmdFail(cur) :
        /\ f => Arg \in entry /\ cur = Arg /\ st = "LOADED"
        /\ Count(f)
        /\ st' = IF f THEN "ABNORMAL" ELSE IF Arg \in entry /\ cur = Arg /\ st = "LOADED" THEN "SAVED" ELSE st
        /\ running' = (running /\ ~f)
  BY DEF RemoveVf
<1>2. (f => fails' # 0) /\ (~f => fails' = fails) /\ (fails' = 0 => fails = 0)
  BY <1>1, FaultCount
<1>3. T.cur = S.cur /\ T.fa = S.fa /\ T.ff = S.ff /\ T.ent = S.ent \ {Arg} /\ T.stat = S.stat
  BY Fields, FieldsNext DEF RemoveVf
<1>4. T.ini = IF Arg \notin S.ent \/ S.stat[Arg] = "SUSPEND" THEN S.ini ELSE S.ini \ {Arg}
  BY Fields, FieldsNext DEF RemoveVf
<1>5. Stopped => Stopped'
  BY <1>1 DEF RemoveVf, Stopped
<1>6. Held(S, T)
  BY <1>2, <1>3, <1>5, Fields, FieldsNext DEF Held, Stays
<1>7. IF Arg \in S.ent /\ S.cur = Arg /\ S.st = "LOADED" THEN T.st = "SAVED" \/ Failed(S, T) ELSE T.st = S.st
  BY <1>1, <1>2, <1>6, Fields, FieldsNext DEF Failed
<1>8. Ready(S) => Ready(T)
  BY <1>3, <1>6, <1>7 DEF Ready, Off, Failed, Held, Stays
<1> QED BY <1>3, <1>4, <1>6, <1>7, <1>8 DEF AfterRemove

LEMMA SetDoes ==
  ASSUME TypeOK, TypeOK', SetStatus, NEW S, NEW T, S = Now, T = Now'
  PROVE  Head(todo).op \in SetOps /\ AfterSet(S, T, Arg, Head(todo).op) /\ Then(<<>>)
<1>1. Head(todo).op \in SetOps /\ Then(<<>>)
  BY DEF SetStatus, Doing, SetOps
<1>2. T.stat = [S.stat EXCEPT ![Arg] = Head(todo).op]
  BY Fields, FieldsNext DEF SetStatus, Doing
<1>3. T.ent = S.ent /\ T.ini = S.ini /\ T.st = S.st /\ T.cur = S.cur /\ T.fa = S.fa /\ T.ff = S.ff
  BY Fields, FieldsNext DEF SetStatus, ws
<1>4. (Clean(T) <=> Clean(S)) /\ (S.run = "off" => T.run = "off")
  BY Fields, FieldsNext DEF SetStatus, ws, Stopped
<1> QED BY <1>1, <1>2, <1>3, <1>4 DEF AfterSet, Held, Stays, Engines, Ready, Off

LEMMA NopDoes ==
  ASSUME TypeOK, TypeOK', ShutdownVf \/ SetFlags \/ GoIdle, NEW S, NEW T, S = Now, T = Now'
  PROVE  Head(todo).op \in NopOps /\ AfterNop(S, T) /\ Then(<<>>)
<1>1. Head(todo).op \in NopOps
  BY Heads DEF NopOps
<1>2. Then(<<>>)
  BY DEF ShutdownVf, SetFlags, GoIdle
<1>3. /\ T.ent = S.ent /\ T.ini = S.ini /\ T.st = S.st /\ T.cur = S.cur /\ T.fa = S.fa /\ T.ff = S.ff
      /\ T.stat = S.stat
  BY Fields, FieldsNext DEF ShutdownVf, SetFlags, GoIdle, ws, sched
<1>4. (Clean(T) <=> Clean(S)) /\ (S.run = "off" => T.run = "off")
  BY Fields, FieldsNext DEF ShutdownVf, SetFlags, GoIdle, ws, Stopped
<1> QED BY <1>1, <1>2, <1>3, <1>4 DEF AfterNop, Vfs, Held, Stays, Engines, Ready, Off

LEMMA AccessDoes ==
  ASSUME TypeOK, TypeOK', FullAccess, NEW S, NEW T, S = Now, T = Now'
  PROVE  /\ Then(<<>>)
         /\ \/ Head(todo).op = "grantinit" /\ AfterGrant(S, T, Arg, "init")
            \/ Head(todo).op = "grantfini" /\ AfterGrant(S, T, Arg, "fini")
            \/ Head(todo).op = "endfa" /\ AfterEnd(S, T)
<1>1. Then(<<>>)
  BY DEF FullAccess
<1>2. T.ent = S.ent /\ T.ini = S.ini /\ T.st = S.st /\ T.cur = S.cur /\ T.stat = S.stat
  BY Fields, FieldsNext DEF FullAccess, ws
<1>3. (Clean(T) <=> Clean(S)) /\ (S.run = "off" => T.run = "off")
  BY Fields, FieldsNext DEF FullAccess, ws, Stopped
<1>4. Stays(S, T) /\ Vfs(S, T) /\ Engines(S, T)
  BY <1>2, <1>3 DEF Stays, Vfs, Engines, Ready, Off
<1>5. CASE Doing("grantinit") /\ fa' = Arg /\ faFor' = "init"
  BY <1>1, <1>4, <1>5, FieldsNext DEF AfterGrant, Doing
<1>6. CASE Doing("grantfini") /\ fa' = Arg /\ faFor' = "fini"
  BY <1>1, <1>4, <1>6, FieldsNext DEF AfterGrant, Doing
<1>7. CASE Doing("endfa") /\ fa' = None
  BY <1>1, <1>4, <1>7, FieldsNext DEF AfterEnd, Doing
<1> QED BY <1>5, <1>6, <1>7 DEF FullAccess

-----------------------------------------------------------------------------
(* What is good stays good.                                                *)

Going == IInv /\ Good(todo, Now)

LEMMA Ahead ==
  ASSUME Going, todo # <<>>, NEW S, S = Now, NEW o, o = Head(todo), NEW r, r = Tail(todo)
  PROVE  /\ S \in World /\ o \in AnyOp /\ r \in Seq(AnyOp) /\ Rest = r /\ Arg = o.f
         /\ o.op \in OfVf => o.f \in VF
         /\ o.op \in OfFn => o.f \in Fn
         /\ o.op \notin FreeOps => S.run = "off"
         /\ o.op = "return" => Good(<<>>, S)
         /\ o.op = "catch" => Good(r, S)
         /\ o.op \in Tests => Good(IF Holds(o, S) THEN o.h \o r ELSE r, S)
         /\ o.op \notin Jumping =>
              /\ Pre(o, S)
              /\ \A T \in World : After(o, S, T) => Good(r, T)
              /\ \A T \in World : Fail(o, S, T) => Good(Landing(r), T)
<1>1. todo \in Seq(AnyOp) /\ TypeOK /\ Good(todo, S) /\ Guarded(todo)
  BY DEF Going, IInv
<1>2. S \in World /\ (S.run = "off" <=> Stopped)
  BY <1>1, Fields
<1>3. o \in AnyOp /\ r \in Seq(AnyOp) /\ Rest = r /\ Arg = o.f
  BY <1>1, ConsOf DEF Rest, Arg
<1>4. (o.op \in OfVf => o.f \in VF) /\ (o.op \in OfFn => o.f \in Fn)
  BY <1>3, OpFacts
<1>5. ASSUME o.op \notin FreeOps PROVE Stopped
  <2>1. todo[1] = o /\ 1 \in 1 .. Len(todo)
    BY <1>1, TailFacts
  <2>2. ~Free(todo[1]) /\ ~(\E j \in 1 .. 1 - 1 : todo[j].op \in {"stop", "wgr"})
    BY <1>5, <2>1 DEF Free
  <2> QED BY <1>1, <2>1, <2>2 DEF Guarded
<1>6. /\ o.op = "return" => Good(<<>>, S)
      /\ o.op = "catch" => Good(r, S)
      /\ o.op \in Tests => Good(IF Holds(o, S) THEN o.h \o r ELSE r, S)
      /\ o.op \notin Jumping =>
           /\ Pre(o, S)
           /\ \A T \in World : After(o, S, T) => Good(r, T)
           /\ \A T \in World : Fail(o, S, T) => Good(Landing(r), T)
  BY <1>1, <1>2, GoodUnfold
<1> QED BY <1>2, <1>3, <1>4, <1>5, <1>6

LEMMA ThenOps ==
  ASSUME NEW r \in Seq(AnyOp), Rest = r, NEW S
  PROVE  /\ \A l, s : Then(l) /\ Spells(l \o r, s) /\ Good(s, S) => Good(todo', S)
         /\ Then(<<>>) /\ Good(r, S) => Good(todo', S)
         /\ Raise /\ Good(Landing(r), S) => Good(todo', S)
<1>1. ASSUME NEW l, NEW s, Then(l), Spells(l \o r, s), Good(s, S) PROVE Good(todo', S)
  <2>1. todo' = l \o r
    BY <1>1 DEF Then
  <2> QED BY <1>1, <2>1, SpellsGood
<1>2. ASSUME Then(<<>>), Good(r, S) PROVE Good(todo', S)
  <2>1. Spells(<<>> \o r, r)
    BY SpellsCat
  <2> QED BY <1>1, <1>2, <2>1
<1>3. ASSUME Raise, Good(Landing(r), S) PROVE Good(todo', S)
  <2>1. todo' = Landing(r)
    BY <1>3 DEF Raise, Landing
  <2> QED BY <1>3, <2>1
<1> QED BY <1>1, <1>2, <1>3

\* An operation that is done in one step.
LEMMA DoneGood ==
  ASSUME Going, TypeOK', todo # <<>>, NEW S, S = Now, NEW T, T = Now', NEW o, o = Head(todo),
         o.op \notin Jumping, (After(o, S, T) /\ Then(<<>>)) \/ (Fail(o, S, T) /\ Raise)
  PROVE  Good(todo', T)
<1>1. PICK r : r = Tail(todo)
  OBVIOUS
<1>2. T \in World
  BY FieldsNext
<1>3. r \in Seq(AnyOp) /\ Rest = r
  BY <1>1, Ahead
<1>4. (After(o, S, T) => Good(r, T)) /\ (Fail(o, S, T) => Good(Landing(r), T))
  BY <1>1, <1>2, Ahead
<1> QED BY <1>3, <1>4, ThenOps

LEMMA PlainGood ==
  ASSUME Going, TypeOK', NEW T, T = Now',
         Stop \/ Start \/ Save \/ Load \/ InitCtx \/ AddVf \/ RemoveVf \/ SetStatus \/ ShutdownVf
         \/ SetFlags \/ GoIdle \/ FullAccess
  PROVE  Good(todo', T)
<1>0. TypeOK /\ todo # <<>>
  <2>1. todo # <<>>
    BY DEF Stop, Start, Save, Load, InitCtx, AddVf, RemoveVf, SetStatus, ShutdownVf, SetFlags, GoIdle,
           FullAccess, Doing
  <2> QED BY <2>1 DEF Going, IInv
<1>1. PICK S, o : S = Now /\ o = Head(todo)
  OBVIOUS
<1>2. (o.op \notin Jumping => Pre(o, S)) /\ Arg = o.f /\ (o.op \notin FreeOps => S.run = "off")
  BY <1>0, <1>1, Ahead
<1>3. S.run = "off" => Stopped
  BY <1>0, <1>1, Fields
<1>4. CASE Stop
  <2>1. o.op = "stop" /\ Then(<<>>)
    BY <1>1, <1>4, Heads DEF Stop
  <2>2. o.op \notin Jumping /\ Ready(S)
    BY <1>2, <2>1 DEF Pre, Jumping, Tests
  <2>3. After(o, S, T)
    BY <1>0, <1>1, <1>4, <2>1, <2>2, StopDoes, Achieves
  <2> QED BY <1>0, <1>1, <2>1, <2>2, <2>3, DoneGood
<1>5. CASE Start
  <2>1. o.op = "start" /\ Then(<<>>)
    BY <1>1, <1>5, Heads DEF Start
  <2>2. o.op \notin Jumping /\ Ready(S)
    BY <1>2, <2>1 DEF Pre, Jumping, Tests
  <2>3. After(o, S, T)
    BY <1>0, <1>1, <1>5, <2>1, <2>2, StartDoes, Achieves
  <2> QED BY <1>0, <1>1, <2>1, <2>2, <2>3, DoneGood
<1>6. CASE Save
  <2>1. o.op = "save" /\ o.op \notin Jumping /\ o.op \notin FreeOps
    BY <1>1, <1>6, Heads DEF Jumping, Tests, FreeOps
  <2>2. (AfterSave(S, T) /\ Then(<<>>)) \/ (FailSave(S, T) /\ Raise)
    BY <1>0, <1>1, <1>2, <1>3, <1>6, <2>1, SaveDoes
  <2>3. (After(o, S, T) /\ Then(<<>>)) \/ (Fail(o, S, T) /\ Raise)
    BY <2>1, <2>2, Achieves
  <2> QED BY <1>0, <1>1, <2>1, <2>3, DoneGood
<1>7. CASE Load
  <2>1. o.op = "load" /\ o.op \notin Jumping /\ o.op \notin FreeOps
    BY <1>1, <1>7, Heads DEF Jumping, Tests, FreeOps
  <2>2. (AfterLoad(S, T, o.f) /\ Then(<<>>)) \/ (FailLoad(S, T, o.f) /\ Raise)
    BY <1>0, <1>1, <1>2, <1>3, <1>7, <2>1, LoadDoes
  <2>3. (After(o, S, T) /\ Then(<<>>)) \/ (Fail(o, S, T) /\ Raise)
    BY <2>1, <2>2, Achieves
  <2> QED BY <1>0, <1>1, <2>1, <2>3, DoneGood
<1>8. CASE InitCtx
  <2>1. o.op = "init" /\ o.op \notin Jumping /\ o.op \notin FreeOps
    BY <1>1, <1>8, Heads DEF Jumping, Tests, FreeOps
  <2>2. (AfterInit(S, T, o.f) /\ Then(<<>>)) \/ (FailInit(S, T, o.f) /\ Raise)
    BY <1>0, <1>1, <1>2, <1>3, <1>8, <2>1, InitDoes
  <2>3. (After(o, S, T) /\ Then(<<>>)) \/ (Fail(o, S, T) /\ Raise)
    BY <2>1, <2>2, Achieves
  <2> QED BY <1>0, <1>1, <2>1, <2>3, DoneGood
<1>9. CASE AddVf
  <2>1. o.op = "add" /\ o.op \notin Jumping /\ Then(<<>>)
    BY <1>1, <1>9, Heads DEF AddVf, Jumping, Tests
  <2>2. After(o, S, T)
    BY <1>0, <1>1, <1>2, <1>9, <2>1, AddDoes, Achieves
  <2> QED BY <1>0, <1>1, <2>1, <2>2, DoneGood
<1>10. CASE RemoveVf
  <2>1. o.op = "remove" /\ o.op \notin Jumping /\ Then(<<>>)
    BY <1>1, <1>10, Heads DEF RemoveVf, Jumping, Tests
  <2>2. After(o, S, T)
    BY <1>0, <1>1, <1>2, <1>10, <2>1, RemoveDoes, Achieves
  <2> QED BY <1>0, <1>1, <2>1, <2>2, DoneGood
<1>11. CASE SetStatus
  <2>1. o.op \in SetOps /\ AfterSet(S, T, o.f, o.op) /\ Then(<<>>)
    BY <1>0, <1>1, <1>2, <1>11, SetDoes
  <2>2. o.op \notin Jumping
    BY <2>1 DEF SetOps, Jumping, Tests
  <2>3. After(o, S, T)
    BY <2>1, Achieves
  <2> QED BY <1>0, <1>1, <2>1, <2>2, <2>3, DoneGood
<1>12. CASE ShutdownVf \/ SetFlags \/ GoIdle
  <2>1. o.op \in NopOps /\ AfterNop(S, T) /\ Then(<<>>)
    BY <1>0, <1>1, <1>12, NopDoes
  <2>2. o.op \notin Jumping
    BY <2>1 DEF NopOps, Jumping, Tests
  <2>3. After(o, S, T)
    BY <2>1, Achieves
  <2> QED BY <1>0, <1>1, <2>1, <2>2, <2>3, DoneGood
<1>13. CASE FullAccess
  <2>1. /\ Then(<<>>)
        /\ \/ o.op = "grantinit" /\ AfterGrant(S, T, o.f, "init")
           \/ o.op = "grantfini" /\ AfterGrant(S, T, o.f, "fini")
           \/ o.op = "endfa" /\ AfterEnd(S, T)
    BY <1>0, <1>1, <1>2, <1>13, AccessDoes
  <2>2. o.op \notin Jumping
    BY <2>1 DEF Jumping, Tests
  <2>3. After(o, S, T)
    BY <2>1, Achieves
  <2> QED BY <1>0, <1>1, <2>1, <2>2, <2>3, DoneGood
<1> QED BY <1>4, <1>5, <1>6, <1>7, <1>8, <1>9, <1>10, <1>11, <1>12, <1>13

LEMMA BranchGood ==
  ASSUME Going, Branch, NEW S, S = Now
  PROVE  Good(todo', S)
<1>0. todo # <<>> /\ TypeOK
  BY DEF Branch, Doing, Going, IInv
<1>1. PICK o, r : o = Head(todo) /\ r = Tail(todo)
  OBVIOUS
<1>2. r \in Seq(AnyOp) /\ Rest = r /\ Arg = o.f /\ o.h \in Seq(AnyOp) /\ (o.op \in OfVf => o.f \in VF)
  <2>1. o \in AnyOp
    BY <1>0, <1>1, Ahead
  <2> QED BY <1>0, <1>1, <2>1, Ahead, OpFacts, Levels
<1>3. S.st = st /\ S.cur = cur /\ S.stat = status
  BY <1>0, Fields
<1>4. CASE Doing("catch") /\ Then(<<>>)
  <2>1. Good(r, S)
    BY <1>0, <1>1, <1>4, Ahead DEF Doing
  <2> QED BY <1>2, <1>4, <2>1, ThenOps
<1>5. CASE Doing("return") /\ todo' = <<>>
  BY <1>0, <1>1, <1>5, Ahead DEF Doing
<1>6. ASSUME NEW b, b <=> Holds(o, S), o.op \in Tests, Then(IF b THEN o.h ELSE <<>>)
      PROVE  Good(todo', S)
  <2>1. Good(IF Holds(o, S) THEN o.h \o r ELSE r, S)
    BY <1>0, <1>1, <1>6, Ahead
  <2>2. CASE Holds(o, S)
    <3>1. todo' = o.h \o r
      BY <1>2, <1>6, <2>2 DEF Then
    <3> QED BY <2>1, <2>2, <3>1
  <2>3. CASE ~Holds(o, S)
    <3>1. Then(<<>>)
      BY <1>6, <2>3
    <3> QED BY <1>2, <2>1, <2>3, <3>1, ThenOps
  <2> QED BY <2>2, <2>3
<1>7. CASE Doing("ifbad") /\ Then(IF st = "ABNORMAL" THEN Head(todo).h ELSE <<>>)
  <2>1. o.op = "ifbad" /\ o.op \in Tests /\ Then(IF st = "ABNORMAL" THEN o.h ELSE <<>>)
    BY <1>1, <1>7 DEF Doing, Tests
  <2>2. st = "ABNORMAL" <=> Holds(o, S)
    BY <1>3, <2>1 DEF Holds
  <2> QED BY <1>6, <2>1, <2>2
<1>8. CASE Doing("ifhung") /\ Then(IF st = "ABNORMAL" /\ cur = Arg THEN Head(todo).h ELSE <<>>)
  <2>1. o.op = "ifhung" /\ o.op \in Tests /\ Then(IF st = "ABNORMAL" /\ cur = Arg THEN o.h ELSE <<>>)
    BY <1>1, <1>8 DEF Doing, Tests
  <2>2. st = "ABNORMAL" /\ cur = Arg <=> Holds(o, S)
    BY <1>2, <1>3, <2>1 DEF Holds
  <2> QED BY <1>6, <2>1, <2>2
<1>9. CASE Doing("ifactive") /\ Then(IF Active(Arg) THEN Head(todo).h ELSE <<>>)
  <2>1. o.op = "ifactive" /\ o.op \in Tests /\ o.op \in OfVf /\ Then(IF Active(Arg) THEN o.h ELSE <<>>)
    BY <1>1, <1>9 DEF Doing, Tests, OfVf
  <2>2. Active(Arg) <=> Holds(o, S)
    BY <1>2, <1>3, <2>1 DEF Holds, Active
  <2> QED BY <1>6, <2>1, <2>2
<1> QED BY <1>4, <1>5, <1>7, <1>8, <1>9 DEF Branch

\* Operations that call others.
LEMMA SpellsCalls ==
  ASSUME NEW r \in Seq(AnyOp)
  PROVE  /\ \A a, b \in AnyOp : Spells((<<a>> \o <<b>>) \o r, Cons(a, Cons(b, r)))
         /\ \A b \in AnyOp : Spells((<<>> \o <<b>>) \o r, Cons(b, r))
         /\ Spells((<<>> \o <<>>) \o r, r)
<1>1. ASSUME NEW a \in AnyOp, NEW b \in AnyOp PROVE Spells((<<a>> \o <<b>>) \o r, Cons(a, Cons(b, r)))
  <2>1. Spells((<<a>> \o <<b>>) \o r, <<a>> \o (<<b>> \o r)) /\ Spells(<<b>> \o r, Cons(b, r))
    BY SpellsCat, SpelledCat
  <2>2. Spells(<<a>> \o (<<b>> \o r), <<a>> \o Cons(b, r)) /\ Cons(b, r) \in Seq(AnyOp)
    BY <2>1, SpellsIn, ConsHead
  <2>3. Spells(<<a>> \o Cons(b, r), Cons(a, Cons(b, r)))
    BY <2>2, SpelledCat
  <2> QED BY <2>1, <2>2, <2>3, SpellsCat
<1>2. ASSUME NEW b \in AnyOp PROVE Spells((<<>> \o <<b>>) \o r, Cons(b, r))
  <2>1. Spells((<<>> \o <<b>>) \o r, <<>> \o (<<b>> \o r)) /\ Spells(<<b>> \o r, Cons(b, r))
    BY Empty, SpellsCat, SpelledCat
  <2>2. Spells(<<>> \o (<<b>> \o r), <<>> \o Cons(b, r)) /\ Cons(b, r) \in Seq(AnyOp)
    BY <2>1, SpellsIn, ConsHead
  <2>3. Spells(<<>> \o Cons(b, r), Cons(b, r))
    BY <2>2, SpellsCat
  <2> QED BY <2>1, <2>2, <2>3, SpellsCat
<1>3. Spells((<<>> \o <<>>) \o r, r)
  <2>1. Spells((<<>> \o <<>>) \o r, <<>> \o (<<>> \o r)) /\ Spells(<<>> \o r, r)
    BY Empty, SpellsCat
  <2>2. Spells(<<>> \o (<<>> \o r), <<>> \o r)
    BY <2>1, SpellsIn
  <2> QED BY <2>1, <2>2, SpellsCat
<1> QED BY <1>1, <1>2, <1>3

\* What a call finds.
Called(o, r, S) ==
  /\ S \in World /\ o \in AnyOp /\ r \in Seq(AnyOp) /\ Rest = r /\ Arg = o.f /\ o = Head(todo) /\ S = Now
  /\ Pre(o, S)
  /\ \A T \in World : After(o, S, T) => Good(r, T)
  /\ \A T \in World : Fail(o, S, T) => Good(Landing(r), T)
  /\ S.st = st /\ S.cur = cur /\ S.ent = entry /\ S.ini = inited /\ S.stat = status

LEMMA Calling ==
  ASSUME Going, Call, NEW S, S = Now, NEW o, o = Head(todo), NEW r, r = Tail(todo)
  PROVE  /\ Called(o, r, S)
         /\ o.op # "wgr" => S.run = "off"
         /\ o.op \in OfVf => o.f \in VF
         /\ o.op \in OfFn => o.f \in Fn
<1>1. o.op \in {"switch", "saved", "loop", "turn", "expel", "orphan", "fini", "wgr", "timeout"}
  BY Heads
<1>2. o.op \notin Jumping /\ (o.op # "wgr" => o.op \notin FreeOps)
  BY <1>1 DEF Jumping, Tests, FreeOps
<1>3. todo # <<>> /\ TypeOK
  BY DEF Call, Doing, Going, IInv
<1>4. /\ S \in World /\ o \in AnyOp /\ r \in Seq(AnyOp) /\ Rest = r /\ Arg = o.f
      /\ o.op \in OfVf => o.f \in VF
      /\ o.op \in OfFn => o.f \in Fn
  BY <1>3, Ahead
<1>6. o.op # "wgr" => S.run = "off"
  <2>1. o.op \notin FreeOps => S.run = "off"
    BY <1>3, Ahead
  <2> QED BY <1>2, <2>1
<1>7. /\ Pre(o, S)
      /\ \A T \in World : After(o, S, T) => Good(r, T)
      /\ \A T \in World : Fail(o, S, T) => Good(Landing(r), T)
  <2>1. o.op \notin Jumping =>
          /\ Pre(o, S)
          /\ \A T \in World : After(o, S, T) => Good(r, T)
          /\ \A T \in World : Fail(o, S, T) => Good(Landing(r), T)
    BY <1>3, Ahead
  <2> QED BY <1>2, <2>1
<1>5. S.st = st /\ S.cur = cur /\ S.ent = entry /\ S.ini = inited /\ S.stat = status
  BY <1>3, Fields
<1> QED BY <1>4, <1>5, <1>6, <1>7 DEF Called

LEMMA SwitchGood ==
  ASSUME NEW S, NEW o, NEW r, Called(o, r, S), S.run = "off", o.op = "switch", o.f \in Fn,
         IF st = "ABNORMAL" THEN Raise
         ELSE Then(IF st = "LOADED" /\ cur = Arg THEN <<>>
                   ELSE (IF st = "LOADED" THEN <<Op("save", None)>> ELSE <<>>)
                        \o <<Op(IF Arg \in inited THEN "load" ELSE "init", Arg)>>)
  PROVE  Good(todo', S)
<1>0. /\ S \in World /\ r \in Seq(AnyOp) /\ Rest = r /\ Arg = o.f /\ S.st = st /\ S.cur = cur
  BY DEF Called
<1>1. /\ Clean(S) => S.st # "ABNORMAL"
      /\ \A T \in World : AfterSwitch(S, T, o.f) => Good(r, T)
      /\ \A T \in World : FailSwitch(S, T, o.f) => Good(Landing(r), T)
  BY Achieves DEF Called, Pre
<1>2. PICK x \in {"load", "init"} : x = IF Arg \in inited THEN "load" ELSE "init"
  OBVIOUS
<1>3. /\ S.st = "ABNORMAL" => Good(Landing(r), S)
      /\ S.st = "LOADED" /\ S.cur = o.f => Good(r, S)
      /\ S.st = "LOADED" => Good(Cons(Op("save", None), Cons(Op(x, o.f), r)), S)
      /\ Off(S) => Good(Cons(Op(x, o.f), r), S)
  BY <1>0, <1>1, SwitchBody
<1>4. Op(x, o.f) \in AnyOp /\ Op("save", None) \in AnyOp
  BY Known DEF OfFn
<1>5. CASE st = "ABNORMAL"
  BY <1>0, <1>3, <1>5, ThenOps
<1>6. CASE st = "LOADED" /\ cur = Arg
  <2>1. Then(<<>>)
    BY <1>6
  <2> QED BY <1>0, <1>3, <1>6, <2>1, ThenOps
<1>7. CASE st = "LOADED" /\ cur # Arg
  <2>1. Then(<<Op("save", None)>> \o <<Op(x, o.f)>>)
    BY <1>0, <1>2, <1>7
  <2>2. Spells((<<Op("save", None)>> \o <<Op(x, o.f)>>) \o r, Cons(Op("save", None), Cons(Op(x, o.f), r)))
    BY <1>0, <1>4, SpellsCalls
  <2> QED BY <1>0, <1>3, <1>7, <2>1, <2>2, ThenOps
<1>8. CASE st # "LOADED" /\ st # "ABNORMAL"
  <2>1. Then(<<>> \o <<Op(x, o.f)>>)
    BY <1>0, <1>2, <1>8
  <2>2. Spells((<<>> \o <<Op(x, o.f)>>) \o r, Cons(Op(x, o.f), r))
    BY <1>0, <1>4, SpellsCalls
  <2>3. Off(S)
    BY <1>0, <1>8 DEF Off, World
  <2> QED BY <1>0, <1>3, <2>1, <2>2, <2>3, ThenOps
<1> QED BY <1>5, <1>6, <1>7, <1>8

LEMMA SavedGood ==
  ASSUME NEW S, NEW o, NEW r, Called(o, r, S), S.run = "off", o.op = "saved", o.f \in VF,
         Then(IF ~Active(Arg) \/ Arg \notin inited \/ (cur = Arg /\ st = "SAVED") THEN <<>>
              ELSE <<Op("load", Arg), Op("save", None)>>)
  PROVE  Good(todo', S)
<1>0. /\ S \in World /\ r \in Seq(AnyOp) /\ Rest = r /\ Arg = o.f /\ S.st = st /\ S.cur = cur
      /\ S.ini = inited /\ S.stat = status
  BY DEF Called
<1>1. /\ Down(S)
      /\ \A T \in World : AfterSaved(S, T, o.f) => Good(r, T)
      /\ \A T \in World : FailSaved(S, T, o.f) => Good(Landing(r), T)
  BY Achieves DEF Called, Pre
<1>2. /\ S.stat[o.f] # "ACTIVE" \/ o.f \notin S.ini \/ On(S, o.f, "SAVED") => Good(r, S)
      /\ Good(Cons(Op("load", o.f), Cons(Op("save", None), r)), S)
  BY <1>0, <1>1, SavedBody
<1>3. Op("load", o.f) \in AnyOp /\ Op("save", None) \in AnyOp
  BY Known, FnFacts DEF OfFn
<1>4. CASE ~Active(Arg) \/ Arg \notin inited \/ (cur = Arg /\ st = "SAVED")
  <2>1. Then(<<>>)
    BY <1>4
  <2>2. Good(r, S)
    BY <1>0, <1>2, <1>4 DEF Active, On
  <2> QED BY <1>0, <2>1, <2>2, ThenOps
<1>5. CASE ~(~Active(Arg) \/ Arg \notin inited \/ (cur = Arg /\ st = "SAVED"))
  <2>1. Then(<<Op("load", o.f), Op("save", None)>>)
    BY <1>0, <1>5
  <2>2. Spells(<<Op("load", o.f), Op("save", None)>> \o r, Cons(Op("load", o.f), Cons(Op("save", None), r)))
    BY <1>0, <1>3, SpelledCat
  <2> QED BY <1>0, <1>2, <2>1, <2>2, ThenOps
<1> QED BY <1>4, <1>5

LEMMA LoopGood ==
  ASSUME NEW S, NEW o, NEW r, Called(o, r, S), S.run = "off", o.op = "loop",
         Then(IF ActiveVfs = {} THEN <<>> ELSE <<Op("turn", 0), Catch(<<Op("auto", None)>>)>>)
  PROVE  Good(todo', S)
<1>0. S \in World /\ r \in Seq(AnyOp) /\ Rest = r
  BY DEF Called
<1>1. /\ OkAll(S) /\ Down(S)
      /\ \A T \in World : AfterLoop(S, T) => Good(r, T)
      /\ \A T \in World : FailLoop(S, T) => Good(Landing(r), T)
  BY Achieves DEF Called, Pre
<1>2. Good(r, S) /\ Good(Cons(Op("turn", 0), Cons(Catch(<<Op("auto", None)>>), r)), S)
  BY <1>0, <1>1, LoopBody
<1>3. Op("turn", 0) \in AnyOp /\ Catch(<<Op("auto", None)>>) \in AnyOp
  <2>1. "auto" \in Inner \ (OfVf \union OfFn)
    BY DEF Inner, Raising, OfVf, OfFn, Grants
  <2>2. Op("auto", None) \in Ops1
    BY <2>1, PlainOps, Levels
  <2>3. <<Op("auto", None)>> \in Seq(Ops1)
    BY <2>2
  <2> QED BY <2>3, Known, FnFacts, OpsKnown DEF OfVf
<1>4. CASE ActiveVfs = {}
  <2>1. Then(<<>>)
    BY <1>4
  <2> QED BY <1>0, <1>2, <2>1, ThenOps
<1>5. CASE ActiveVfs # {}
  <2>1. Then(<<Op("turn", 0), Catch(<<Op("auto", None)>>)>>)
    BY <1>5
  <2>2. Spells(<<Op("turn", 0), Catch(<<Op("auto", None)>>)>> \o r,
               Cons(Op("turn", 0), Cons(Catch(<<Op("auto", None)>>), r)))
    BY <1>0, <1>3, SpelledCat
  <2> QED BY <1>0, <1>2, <2>1, <2>2, ThenOps
<1> QED BY <1>4, <1>5

\* The rest of a loop over the VFs.
LEMMA NextTurn ==
  ASSUME NEW r \in Seq(AnyOp), NEW v \in VF, NEW x \in {"turn", "expel"}, NEW e,
         e = IF v + 1 < NumVF THEN Cons(Op(x, v + 1), r) ELSE r,
         NEW n, n = IF v + 1 < NumVF THEN <<Op(x, v + 1)>> ELSE <<>>
  PROVE  n \in Seq(AnyOp) /\ e \in Seq(AnyOp) /\ Spells(n \o r, e)
<1>1. CASE v + 1 < NumVF
  <2>1. v + 1 \in VF
    BY <1>1, NextVf
  <2>2. Op(x, v + 1) \in AnyOp
    BY <2>1, Known DEF OfVf
  <2>3. n = <<Op(x, v + 1)>> /\ e = Cons(Op(x, v + 1), r)
    BY <1>1
  <2>4. n \in Seq(AnyOp) /\ e \in Seq(AnyOp)
    BY <2>2, <2>3, ConsHead, SpellsCat
  <2>5. Spells(<<Op(x, v + 1)>> \o r, Cons(Op(x, v + 1), r))
    BY <2>2, SpelledCat
  <2> QED BY <2>3, <2>4, <2>5
<1>2. CASE ~(v + 1 < NumVF)
  <2>1. n = <<>> /\ e = r
    BY <1>2
  <2>2. Spells(<<>> \o r, r)
    BY SpellsCat
  <2> QED BY <2>1, <2>2, Empty
<1> QED BY <1>1, <1>2

LEMMA TurnGood ==
  ASSUME NEW S, NEW o, NEW r, Called(o, r, S), S.run = "off", o.op = "turn", o.f \in VF,
         Each("turn", IF Active(Arg) /\ Arg \notin unshut THEN <<Op("load", Arg), Op("save", None)>> ELSE <<>>)
  PROVE  Good(todo', S)
<1>0. S \in World /\ r \in Seq(AnyOp) /\ Rest = r /\ Arg = o.f
  BY DEF Called
<1>1. /\ Down(S)
      /\ \A T \in World : AfterTurn(S, T) => Good(r, T)
      /\ \A T \in World : FailTurn(S, T) => Good(Landing(r), T)
  BY Achieves DEF Called, Pre
<1>2. PICK e, n : /\ e = IF o.f + 1 < NumVF THEN Cons(Op("turn", o.f + 1), r) ELSE r
                  /\ n = IF o.f + 1 < NumVF THEN <<Op("turn", o.f + 1)>> ELSE <<>>
  OBVIOUS
<1>3. Good(e, S) /\ Good(Cons(Op("load", o.f), Cons(Op("save", None), e)), S)
  BY <1>0, <1>1, <1>2, TurnBody
<1>4. n \in Seq(AnyOp) /\ e \in Seq(AnyOp) /\ Spells(n \o r, e)
  BY <1>0, <1>2, NextTurn
<1>5. PICK m : m = IF Active(Arg) /\ Arg \notin unshut THEN <<Op("load", Arg), Op("save", None)>> ELSE <<>>
  OBVIOUS
<1>6. Then(m \o n)
  BY <1>0, <1>2, <1>5 DEF Each
<1>7. Op("load", o.f) \in AnyOp /\ Op("save", None) \in AnyOp
  BY Known, FnFacts DEF OfFn
<1>8. CASE m = <<>>
  <2>1. Spells((<<>> \o n) \o r, <<>> \o (n \o r))
    BY <1>0, <1>4, Empty, SpellsCat
  <2>2. Spells(<<>> \o (n \o r), <<>> \o e) /\ Spells(<<>> \o e, e)
    BY <1>4, SpellsIn, SpellsCat
  <2>3. Spells((m \o n) \o r, e)
    BY <1>8, <2>1, <2>2, SpellsCat
  <2> QED BY <1>0, <1>3, <1>6, <2>3, ThenOps
<1>9. CASE m = <<Op("load", o.f), Op("save", None)>>
  <2>1. PICK q : q = <<Op("load", o.f), Op("save", None)>>
    OBVIOUS
  <2>2. q \in Seq(AnyOp)
    BY <1>7, <2>1
  <2>3. Spells((q \o n) \o r, q \o (n \o r)) /\ Spells(q \o (n \o r), q \o e)
    BY <1>0, <1>4, <2>2, SpellsCat, SpellsIn
  <2>4. Spells(q \o e, Cons(Op("load", o.f), Cons(Op("save", None), e)))
    BY <1>4, <1>7, <2>1, SpelledCat
  <2>5. Spells((m \o n) \o r, Cons(Op("load", o.f), Cons(Op("save", None), e)))
    BY <1>9, <2>1, <2>3, <2>4, SpellsCat
  <2> QED BY <1>0, <1>3, <1>6, <2>5, ThenOps
<1> QED BY <1>0, <1>5, <1>8, <1>9

LEMMA ExpelGood ==
  ASSUME NEW S, NEW o, NEW r, Called(o, r, S), S.run = "off", o.op = "expel", o.f \in VF,
         Each("expel", (IF Active(Arg) THEN <<Op("remove", Arg)>> ELSE <<>>)
                       \o (IF Arg \in Live THEN <<Op("AVAIL", Arg)>> ELSE <<>>))
  PROVE  Good(todo', S)
<1>0. S \in World /\ r \in Seq(AnyOp) /\ Rest = r /\ Arg = o.f /\ S.stat = status
  BY DEF Called
<1>1. /\ Tame(S) /\ On(S, PF, "SAVED") /\ \A u \in VF : u < o.f => Gone(S, u)
      /\ \A T \in World : AfterWgr(S, T) => Good(r, T)
  BY Achieves DEF Called, Pre, On
<1>2. PICK e, n : /\ e = IF o.f + 1 < NumVF THEN Cons(Op("expel", o.f + 1), r) ELSE r
                  /\ n = IF o.f + 1 < NumVF THEN <<Op("expel", o.f + 1)>> ELSE <<>>
  OBVIOUS
<1>3. /\ S.stat[o.f] = "ACTIVE" => Good(Cons(Op("remove", o.f), Cons(Op("AVAIL", o.f), e)), S)
      /\ S.stat[o.f] = "SUSPEND" => Good(Cons(Op("AVAIL", o.f), e), S)
      /\ Gone(S, o.f) => Good(e, S)
  BY <1>0, <1>1, <1>2, ExpelBody
<1>4. n \in Seq(AnyOp) /\ e \in Seq(AnyOp) /\ Spells(n \o r, e)
  BY <1>0, <1>2, NextTurn
<1>5. PICK a, b, m : a = Op("remove", o.f) /\ b = Op("AVAIL", o.f)
                     /\ m = (IF Active(Arg) THEN <<a>> ELSE <<>>) \o (IF Arg \in Live THEN <<b>> ELSE <<>>)
  OBVIOUS
<1>6. Then(m \o n)
  BY <1>0, <1>2, <1>5 DEF Each
<1>7. a \in AnyOp /\ b \in AnyOp
  BY <1>5, OpsKnown
<1>8. S.stat[o.f] \in {"UNAVAIL", "AVAIL", "ACTIVE", "SUSPEND"}
  BY <1>0 DEF World
<1>9. /\ Active(Arg) <=> S.stat[o.f] = "ACTIVE"
      /\ Arg \in Live <=> S.stat[o.f] \in {"ACTIVE", "SUSPEND"}
  BY <1>0 DEF Active, Live
<1>10. ASSUME NEW q \in Seq(AnyOp), NEW t, Spells(q \o e, t), Good(t, S), m = q PROVE Good(todo', S)
  <2>1. Spells((q \o n) \o r, q \o (n \o r)) /\ Spells(q \o (n \o r), q \o e)
    BY <1>0, <1>4, SpellsCat, SpellsIn
  <2>2. Spells((m \o n) \o r, t)
    BY <1>10, <2>1, SpellsCat
  <2> QED BY <1>0, <1>6, <1>10, <2>2, ThenOps
<1>11. <<a>> \o <<b>> \in Seq(AnyOp) /\ <<>> \o <<b>> \in Seq(AnyOp) /\ <<>> \o <<>> \in Seq(AnyOp)
  BY <1>7, Empty, SpellsCat
<1>12. CASE S.stat[o.f] = "ACTIVE"
  <2>1. m = <<a>> \o <<b>>
    BY <1>5, <1>9, <1>12
  <2>2. Spells((<<a>> \o <<b>>) \o e, Cons(a, Cons(b, e)))
    BY <1>4, <1>7, SpellsCalls
  <2>3. Good(Cons(a, Cons(b, e)), S)
    BY <1>3, <1>5, <1>12
  <2> QED BY <1>10, <1>11, <2>1, <2>2, <2>3
<1>13. CASE S.stat[o.f] = "SUSPEND"
  <2>1. m = <<>> \o <<b>>
    BY <1>5, <1>9, <1>13
  <2>2. Spells((<<>> \o <<b>>) \o e, Cons(b, e))
    BY <1>4, <1>7, SpellsCalls
  <2>3. Good(Cons(b, e), S)
    BY <1>3, <1>5, <1>13
  <2> QED BY <1>10, <1>11, <2>1, <2>2, <2>3
<1>14. CASE S.stat[o.f] \in {"UNAVAIL", "AVAIL"}
  <2>1. m = <<>> \o <<>>
    BY <1>5, <1>9, <1>14
  <2>2. Spells((<<>> \o <<>>) \o e, e)
    BY <1>4, SpellsCalls
  <2>3. Good(e, S)
    BY <1>3, <1>14 DEF Gone
  <2> QED BY <1>10, <1>11, <2>1, <2>2, <2>3
<1> QED BY <1>8, <1>12, <1>13, <1>14

LEMMA OrphanGood ==
  ASSUME NEW S, NEW o, NEW r, Called(o, r, S), S.run = "off", o.op = "orphan", o.f \in VF,
         Then(IF ~Active(Arg) THEN <<>>
              ELSE <<Op("remove", Arg), Op("switch", Arg), Ignore, Op("AVAIL", Arg), Op("resetvf", Arg)>>)
  PROVE  Good(todo', S)
<1>0. S \in World /\ r \in Seq(AnyOp) /\ Rest = r /\ Arg = o.f /\ S.stat = status
  BY DEF Called
<1>1. /\ OrphanPre(S, o.f)
      /\ \A T \in World : AfterOrphan(S, T, o.f) => Good(r, T)
      /\ \A T \in World : FailOrphan(S, T, o.f) => Good(Landing(r), T)
  BY Achieves DEF Called, Pre
<1>2. PICK a, b, c, d : a = Op("remove", o.f) /\ b = Op("switch", o.f) /\ c = Op("AVAIL", o.f)
                        /\ d = Op("resetvf", o.f)
  OBVIOUS
<1>3. /\ S.stat[o.f] # "ACTIVE" => Good(r, S)
      /\ S.stat[o.f] = "ACTIVE" => Good(Cons(a, Cons(b, Cons(Ignore, Cons(c, Cons(d, r))))), S)
  BY <1>0, <1>1, <1>2, OrphanBody
<1>4. a \in AnyOp /\ b \in AnyOp /\ c \in AnyOp /\ d \in AnyOp /\ Ignore \in AnyOp
  BY <1>2, Known, FnFacts, OpsKnown DEF OfFn
<1>5. CASE ~Active(Arg)
  <2>1. Then(<<>>)
    BY <1>5
  <2>2. Good(r, S)
    BY <1>0, <1>3, <1>5 DEF Active
  <2> QED BY <1>0, <2>1, <2>2, ThenOps
<1>6. CASE Active(Arg)
  <2>1. Then(<<a, b, Ignore, c, d>>)
    BY <1>0, <1>2, <1>6
  <2>2. Good(Cons(a, Cons(b, Cons(Ignore, Cons(c, Cons(d, r))))), S)
    BY <1>0, <1>3, <1>6 DEF Active
  <2>3. Spells(<<a, b, Ignore, c, d>> \o r, Cons(a, Cons(b, Cons(Ignore, Cons(c, Cons(d, r))))))
    BY <1>0, <1>4, SpelledCat
  <2> QED BY <1>0, <2>1, <2>2, <2>3, ThenOps
<1> QED BY <1>5, <1>6

LEMMA FiniGood ==
  ASSUME NEW S, NEW o, NEW r, Called(o, r, S), S.run = "off", o.op = "fini", o.f \in VF,
         IF status[Arg] = "AVAIL" THEN Raise ELSE Then(<<Op("remove", Arg), Op("load", Arg)>>)
  PROVE  Good(todo', S)
<1>0. S \in World /\ r \in Seq(AnyOp) /\ Rest = r /\ Arg = o.f
  BY DEF Called
<1>1. /\ OkAll(S) /\ Down(S)
      /\ \A T \in World : AfterFini(S, T, o.f) => Good(r, T)
      /\ \A T \in World : FailFini(S, T) => Good(Landing(r), T)
  BY Achieves DEF Called, Pre
<1>2. PICK a, b : a = Op("remove", o.f) /\ b = Op("load", o.f)
  OBVIOUS
<1>3. Good(Landing(r), S) /\ Good(Cons(a, Cons(b, r)), S)
  BY <1>0, <1>1, <1>2, FiniBody
<1>4. a \in AnyOp /\ b \in AnyOp
  BY <1>2, Known, FnFacts, OpsKnown DEF OfFn
<1>5. Spells(<<a, b>> \o r, Cons(a, Cons(b, r)))
  BY <1>0, <1>4, SpelledCat
<1>6. Raise \/ Then(<<a, b>>)
  BY <1>0, <1>2
<1> QED BY <1>0, <1>3, <1>5, <1>6, ThenOps

LEMMA WgrGood ==
  ASSUME NEW S, NEW o, NEW r, Called(o, r, S), o.op = "wgr",
         Then(<<Op("stop", None), Op("gpureset", None)>>)
  PROVE  Good(todo', S)
<1>0. S \in World /\ r \in Seq(AnyOp) /\ Rest = r
  BY DEF Called
<1>1. /\ Tame(S) /\ Ready(S)
      /\ \A T \in World : AfterWgr(S, T) => Good(r, T)
  BY Achieves DEF Called, Pre
<1>2. PICK a, b : a = Op("stop", None) /\ b = Op("gpureset", None)
  OBVIOUS
<1>3. Good(Cons(a, Cons(b, r)), S)
  BY <1>0, <1>1, <1>2, WgrBody
<1>4. a \in AnyOp /\ b \in AnyOp
  BY <1>2, Known, OpsKnown
<1>5. Spells(<<a, b>> \o r, Cons(a, Cons(b, r)))
  BY <1>0, <1>4, SpelledCat
<1>6. Then(<<a, b>>)
  BY <1>2
<1> QED BY <1>0, <1>3, <1>5, <1>6, ThenOps

LEMMA TimedGood ==
  ASSUME NEW S, NEW o, NEW r, Called(o, r, S), S.run = "off", o.op = "timeout", o.f \in VF,
         Then(<<Op("AVAIL", Arg), Op("resetvf", Arg), Op("loop", None), Ignore, Op("endfa", None),
                Op("start", None)>>)
  PROVE  Good(todo', S)
<1>0. S \in World /\ r \in Seq(AnyOp) /\ Rest = r /\ Arg = o.f
  BY DEF Called
<1>1. /\ S.fa = o.f /\ S.cur = o.f /\ o.f \notin S.ent /\ OkBut(S, o.f)
      /\ \A T \in World : AfterTimeout(S, T) => Good(r, T)
  BY Achieves DEF Called, Pre
<1>2. PICK a, b, c, d, e : a = Op("AVAIL", o.f) /\ b = Op("resetvf", o.f) /\ c = Op("loop", None)
                           /\ d = EndFa /\ e = Op("start", None)
  OBVIOUS
<1>3. Good(Cons(a, Cons(b, Cons(c, Cons(Ignore, Cons(d, Cons(e, r)))))), S)
  BY <1>0, <1>1, <1>2, TimeoutBody
<1>4. a \in AnyOp /\ b \in AnyOp /\ c \in AnyOp /\ d \in AnyOp /\ e \in AnyOp /\ Ignore \in AnyOp
  BY <1>2, OpsKnown
<1>5. Spells(<<a, b, c, Ignore, d, e>> \o r, Cons(a, Cons(b, Cons(c, Cons(Ignore, Cons(d, Cons(e, r)))))))
  BY <1>0, <1>4, SpelledCat
<1>6. Then(<<a, b, c, Ignore, d, e>>)
  BY <1>0, <1>2 DEF EndFa
<1> QED BY <1>0, <1>3, <1>5, <1>6, ThenOps

LEMMA CallGood ==
  ASSUME Going, Call, NEW S, S = Now
  PROVE  Good(todo', S)
<1>1. PICK o, r : o = Head(todo) /\ r = Tail(todo)
  OBVIOUS
<1>2. /\ Called(o, r, S)
      /\ o.op # "wgr" => S.run = "off"
      /\ o.op \in OfVf => o.f \in VF
      /\ o.op \in OfFn => o.f \in Fn
  BY <1>1, Calling
<1>3. /\ Doing("switch") => S.run = "off" /\ o.op = "switch" /\ o.f \in Fn
      /\ Doing("saved") => S.run = "off" /\ o.op = "saved" /\ o.f \in VF
      /\ Doing("loop") => S.run = "off" /\ o.op = "loop"
      /\ Doing("turn") => S.run = "off" /\ o.op = "turn" /\ o.f \in VF
      /\ Doing("expel") => S.run = "off" /\ o.op = "expel" /\ o.f \in VF
      /\ Doing("orphan") => S.run = "off" /\ o.op = "orphan" /\ o.f \in VF
      /\ Doing("fini") => S.run = "off" /\ o.op = "fini" /\ o.f \in VF
      /\ Doing("wgr") => o.op = "wgr"
      /\ Doing("timeout") => S.run = "off" /\ o.op = "timeout" /\ o.f \in VF
  BY <1>1, <1>2 DEF Doing, OfVf, OfFn
<1> QED BY <1>2, <1>3, SwitchGood, SavedGood, LoopGood, TurnGood, ExpelGood, OrphanGood, FiniGood,
           WgrGood, TimedGood DEF Call

LEMMA ResetVfGood ==
  ASSUME Going, TypeOK', ResetVf, NEW T, T = Now'
  PROVE  Good(todo', T)
<1>0. todo # <<>> /\ TypeOK
  BY DEF ResetVf, Doing, Going, IInv
<1>1. PICK S, o, r : S = Now /\ o = Head(todo) /\ r = Tail(todo)
  OBVIOUS
<1>2. o.op = "resetvf" /\ o.op \notin Jumping /\ o.op \notin FreeOps
  BY <1>1, Heads DEF Jumping, Tests, FreeOps
<1>3. S \in World /\ T \in World /\ r \in Seq(AnyOp) /\ Rest = r /\ S.run = "off" /\ Pre(o, S)
  BY <1>0, <1>1, <1>2, Ahead, FieldsNext
<1>4. /\ \A U \in World : After(o, S, U) => Good(r, U)
      /\ \A U \in World : Fail(o, S, U) => Good(Landing(r), U)
  BY <1>0, <1>1, <1>2, Ahead
<1>5. /\ Tame(S)
      /\ \A U \in World : AfterReset(S, U) => Good(r, U)
      /\ \A U \in World : FailReset(S, U) => Good(Landing(r), U)
  BY <1>2, <1>3, <1>4, Achieves DEF Pre
<1>6. PICK f \in MayFail("flr") :
        /\ Count(f)
        /\ IF f THEN Then(<<Op("wgr", None)>>) /\ UNCHANGED <<st, inited, hw>>
           ELSE Then(PfCycle) /\ Cleared
  BY DEF ResetVf
<1>7. (f => fails' # 0) /\ (~f => fails' = fails) /\ (fails' = 0 => fails = 0)
  BY <1>0, <1>6, FaultCount
<1>8. T.cur = S.cur /\ T.ent = S.ent /\ T.stat = S.stat /\ T.fa = S.fa /\ T.ff = S.ff
  BY <1>0, <1>1, Fields, FieldsNext DEF ResetVf, sched
<1>9. T.run = "off"
  <2>1. Stopped => Stopped'
    BY DEF ResetVf, Stopped
  <2> QED BY <1>0, <1>1, <1>3, <2>1, Fields, FieldsNext
<1>10. Held(S, T)
  <2>1. Clean(T) => Clean(S)
    BY <1>0, <1>1, <1>7, Fields, FieldsNext
  <2> QED BY <1>8, <1>9, <2>1 DEF Held, Stays
<1>11. /\ NoFlr(S, T) => Good(Cons(Op("wgr", None), r), T)
       /\ Flr(S, T) => Good(Cons(Op("load", PF), Cons(Op("save", None), r)), T)
  BY <1>3, <1>5, ResetBody
<1>12. Op("wgr", None) \in AnyOp /\ Op("load", PF) \in AnyOp /\ Op("save", None) \in AnyOp
  BY Known, OpsKnown, FnFacts DEF OfFn
<1>13. CASE f
  <2>1. Then(<<Op("wgr", None)>>) /\ ~Clean(T) /\ T.ini = S.ini
    BY <1>0, <1>1, <1>6, <1>7, <1>13, Fields, FieldsNext
  <2>2. NoFlr(S, T)
    BY <1>8, <1>9, <1>10, <2>1 DEF NoFlr, Vfs
  <2>3. Spells(<<Op("wgr", None)>> \o r, Cons(Op("wgr", None), r))
    BY <1>3, <1>12, SpelledCat
  <2> QED BY <1>3, <1>11, <2>1, <2>2, <2>3, ThenOps
<1>14. CASE ~f
  <2>1. Then(<<Op("load", PF), Op("save", None)>>)
    BY <1>6, <1>14 DEF PfCycle
  <2>2. T.st = "CLEAR" /\ T.ini = S.ini \ {S.cur}
    BY <1>0, <1>1, <1>6, <1>14, Fields, FieldsNext DEF Cleared
  <2>3. Flr(S, T)
    BY <1>8, <1>9, <1>10, <2>2 DEF Flr, On
  <2>4. Spells(<<Op("load", PF), Op("save", None)>> \o r, Cons(Op("load", PF), Cons(Op("save", None), r)))
    BY <1>3, <1>12, SpelledCat
  <2> QED BY <1>3, <1>11, <2>1, <2>3, <2>4, ThenOps
<1> QED BY <1>13, <1>14

LEMMA AutoGood ==
  ASSUME Going, TypeOK', ResetAuto, NEW T, T = Now'
  PROVE  Good(todo', T)
<1>0. todo # <<>> /\ TypeOK
  BY DEF ResetAuto, Doing, Going, IInv
<1>1. PICK S, o, r : S = Now /\ o = Head(todo) /\ r = Tail(todo)
  OBVIOUS
<1>2. o.op = "auto" /\ o.op \notin Jumping /\ o.op \notin FreeOps
  BY <1>1, Heads DEF Jumping, Tests, FreeOps
<1>3. S \in World /\ T \in World /\ r \in Seq(AnyOp) /\ Rest = r /\ S.run = "off" /\ Pre(o, S)
  BY <1>0, <1>1, <1>2, Ahead, FieldsNext
<1>4. /\ \A U \in World : After(o, S, U) => Good(r, U)
      /\ \A U \in World : Fail(o, S, U) => Good(Landing(r), U)
  BY <1>0, <1>1, <1>2, Ahead
<1>5. /\ AutoPre(S)
      /\ \A U \in World : AfterAuto(S, U) => Good(r, U)
      /\ \A U \in World : FailAuto(S, U) => Good(Landing(r), U)
  BY <1>2, <1>3, <1>4, Achieves DEF Pre
<1>6. PICK f \in MayFail("flr") :
        /\ f => st = "ABNORMAL" /\ cur # PF
        /\ Count(f)
        /\ IF st # "ABNORMAL" THEN Then(<<>>) /\ UNCHANGED <<st, inited, hw>>
           ELSE IF f \/ cur = PF THEN Then(<<Op("wgr", None)>>) /\ UNCHANGED <<st, inited, hw>>
           ELSE /\ Then((IF Active(cur) THEN <<Op("remove", cur)>> ELSE <<>>)
                        \o <<Op("AVAIL", cur)>> \o PfCycle)
                /\ Cleared
  BY DEF ResetAuto
<1>7. (f => fails' # 0) /\ (~f => fails' = fails) /\ (fails' = 0 => fails = 0)
  BY <1>0, <1>6, FaultCount
<1>8. T.cur = S.cur /\ T.ent = S.ent /\ T.stat = S.stat /\ T.fa = S.fa /\ T.ff = S.ff
  BY <1>0, <1>1, Fields, FieldsNext DEF ResetAuto, sched
<1>9. T.run = "off"
  <2>1. Stopped => Stopped'
    BY DEF ResetAuto, Stopped
  <2> QED BY <1>0, <1>1, <1>3, <2>1, Fields, FieldsNext
<1>10. Held(S, T) /\ (~Clean(S) => ~Clean(T))
  <2>1. Clean(T) => Clean(S)
    BY <1>0, <1>1, <1>7, Fields, FieldsNext
  <2> QED BY <1>8, <1>9, <2>1 DEF Held, Stays
<1>11. S.st = st /\ S.cur = cur /\ S.stat = status /\ T.st = st' /\ S.ini = inited /\ T.ini = inited'
  BY <1>0, <1>1, Fields, FieldsNext
<1>12. CASE st # "ABNORMAL"
  <2>1. Then(<<>>) /\ T.st = S.st /\ T.ini = S.ini
    BY <1>6, <1>11, <1>12
  <2>2. AfterAuto(S, T)
    BY <1>8, <1>10, <1>11, <1>12, <2>1 DEF AfterAuto, Vfs, On
  <2> QED BY <1>3, <1>5, <2>1, <2>2, ThenOps
<1>13. ASSUME st = "ABNORMAL" PROVE Good(todo', T)
  <2>1. PICK c, p, l, s : /\ c = Op("AVAIL", S.cur) /\ p = Op("load", PF) /\ l = Op("save", None)
                          /\ s = Cons(c, Cons(p, Cons(l, r)))
    OBVIOUS
  <2>2. /\ NoFlr(S, T) => Good(Cons(Op("wgr", None), r), T)
        /\ Flr(S, T) /\ S.cur # PF /\ S.stat[S.cur] = "ACTIVE" => Good(Cons(Op("remove", S.cur), s), T)
        /\ Flr(S, T) /\ S.cur # PF /\ S.stat[S.cur] # "ACTIVE" => Good(s, T)
    BY <1>3, <1>5, <1>11, <1>13, <2>1, AutoBody
  <2>3. Op("wgr", None) \in AnyOp /\ p \in AnyOp /\ l \in AnyOp
    BY <2>1, Known, OpsKnown, FnFacts DEF OfFn
  <2>4. ~Clean(T)
    BY <1>5, <1>10, <1>11, <1>13 DEF AutoPre, Down, Off
  <2>5. CASE f \/ cur = PF
    <3>1. Then(<<Op("wgr", None)>>) /\ T.ini = S.ini
      BY <1>6, <1>11, <1>13, <2>5
    <3>2. NoFlr(S, T)
      BY <1>8, <1>9, <1>10, <2>4, <3>1 DEF NoFlr, Vfs
    <3>3. Spells(<<Op("wgr", None)>> \o r, Cons(Op("wgr", None), r))
      BY <1>3, <2>3, SpelledCat
    <3> QED BY <1>3, <2>2, <3>1, <3>2, <3>3, ThenOps
  <2>6. CASE ~(f \/ cur = PF)
    <3>1. S.cur \in VF /\ S.cur # PF /\ S.cur \in Fn
      BY <1>3, <1>11, <2>6 DEF World, Fn
    <3>2. PICK d : d = Op("remove", S.cur)
      OBVIOUS
    <3>3. c \in AnyOp /\ d \in AnyOp
      BY <2>1, <3>1, <3>2, OpsKnown
    <3>4. T.st = "CLEAR" /\ T.ini = S.ini \ {S.cur}
      BY <1>6, <1>11, <1>13, <2>6 DEF Cleared
    <3>5. Flr(S, T)
      BY <1>8, <1>9, <1>10, <3>4 DEF Flr, On
    <3>6. PICK m : m = IF Active(cur) THEN <<d>> ELSE <<>>
      OBVIOUS
    <3>7. Then(m \o <<c>> \o <<p, l>>)
      BY <1>6, <1>11, <1>13, <2>1, <2>6, <3>2, <3>6 DEF PfCycle
    <3>8. Active(cur) <=> S.stat[S.cur] = "ACTIVE"
      BY <1>11, <3>1 DEF Active
    <3>9. /\ <<c>> \in Seq(AnyOp) /\ <<p, l>> \in Seq(AnyOp)
          /\ Cons(p, Cons(l, r)) \in Seq(AnyOp) /\ s \in Seq(AnyOp)
      <4>1. Cons(p, Cons(l, r)) \in Seq(AnyOp)
        BY <1>3, <2>3, ConsHead
      <4>2. s \in Seq(AnyOp)
        BY <2>1, <3>3, <4>1, ConsHead
      <4> QED BY <2>3, <3>3, <4>1, <4>2
    <3>10. ASSUME NEW q \in Seq(AnyOp) PROVE Spells((q \o <<c>> \o <<p, l>>) \o r, q \o s)
      <4>1. PICK a, b : a = <<c>> /\ b = <<p, l>>
        OBVIOUS
      <4>2. a \in Seq(AnyOp) /\ b \in Seq(AnyOp)
        BY <3>9, <4>1
      <4>3. q \o a \in Seq(AnyOp) /\ b \o r \in Seq(AnyOp)
        BY <1>3, <4>2, SpellsCat
      <4>4. Spells(((q \o a) \o b) \o r, (q \o a) \o (b \o r))
        BY <1>3, <4>2, <4>3, SpellsCat
      <4>5. Spells((q \o a) \o (b \o r), q \o (a \o (b \o r)))
        BY <4>2, <4>3, SpellsCat
      <4>6. Spells(b \o r, Cons(p, Cons(l, r)))
        BY <1>3, <2>3, <4>1, SpelledCat
      <4>7. Spells(a \o (b \o r), a \o Cons(p, Cons(l, r)))
        BY <4>6, SpellsIn
      <4>8. Spells(a \o Cons(p, Cons(l, r)), s)
        BY <2>1, <3>3, <3>9, <4>1, SpelledCat
      <4>9. Spells(a \o (b \o r), s)
        BY <4>7, <4>8, SpellsCat
      <4>10. Spells(q \o (a \o (b \o r)), q \o s)
        BY <4>9, SpellsIn
      <4>11. Spells(((q \o a) \o b) \o r, q \o s)
        BY <4>4, <4>5, <4>10, SpellsCat
      <4> QED BY <4>1, <4>11
    <3>11. CASE Active(cur)
      <4>1. PICK q : q = <<d>>
        OBVIOUS
      <4>2. m = q /\ q \in Seq(AnyOp)
        BY <3>3, <3>6, <3>11, <4>1
      <4>3. Spells((m \o <<c>> \o <<p, l>>) \o r, q \o s)
        BY <3>10, <4>2
      <4>4. Spells(q \o s, Cons(d, s))
        BY <3>3, <3>9, <4>1, SpelledCat
      <4>5. Spells((m \o <<c>> \o <<p, l>>) \o r, Cons(d, s))
        BY <4>3, <4>4, SpellsCat
      <4>6. Good(Cons(d, s), T)
        BY <2>2, <3>1, <3>2, <3>5, <3>8, <3>11
      <4> QED BY <1>3, <3>7, <4>5, <4>6, ThenOps
    <3>12. CASE ~Active(cur)
      <4>1. m = <<>>
        BY <3>6, <3>12
      <4>2. Spells((m \o <<c>> \o <<p, l>>) \o r, <<>> \o s)
        BY <3>10, <4>1, Empty
      <4>3. Spells(<<>> \o s, s)
        BY <3>9, SpellsCat
      <4>4. Spells((m \o <<c>> \o <<p, l>>) \o r, s)
        BY <4>2, <4>3, SpellsCat
      <4>5. Good(s, T)
        BY <2>2, <3>1, <3>5, <3>8, <3>12
      <4> QED BY <1>3, <3>7, <4>4, <4>5, ThenOps
    <3> QED BY <3>11, <3>12
  <2> QED BY <2>5, <2>6
<1> QED BY <1>12, <1>13

LEMMA GpuResetGood ==
  ASSUME Going, TypeOK', GpuReset, NEW T, T = Now'
  PROVE  Good(todo', T)
<1>0. todo # <<>> /\ TypeOK
  BY DEF GpuReset, Doing, Going, IInv
<1>1. PICK S, o, r : S = Now /\ o = Head(todo) /\ r = Tail(todo)
  OBVIOUS
<1>2. o.op = "gpureset" /\ o.op \notin Jumping /\ o.op \notin FreeOps
  BY <1>1, Heads DEF Jumping, Tests, FreeOps
<1>3. S \in World /\ T \in World /\ r \in Seq(AnyOp) /\ Rest = r /\ S.run = "off" /\ Pre(o, S)
  BY <1>0, <1>1, <1>2, Ahead, FieldsNext
<1>4. \A U \in World : After(o, S, U) => Good(r, U)
  BY <1>0, <1>1, <1>2, Ahead
<1>5. Tame(S) /\ \A U \in World : AfterWgr(S, U) => Good(r, U)
  BY <1>2, <1>3, <1>4, Achieves DEF Pre
<1>6. /\ T.ent = S.ent /\ T.stat = S.stat /\ T.fa = S.fa /\ T.ff = S.ff
      /\ On(T, PF, "SAVED") /\ (Clean(T) <=> Clean(S))
  BY <1>0, <1>1, Fields, FieldsNext DEF GpuReset, sched, On
<1>7. T.run = "off"
  <2>1. Stopped => Stopped'
    BY DEF GpuReset, Stopped
  <2> QED BY <1>0, <1>1, <1>3, <2>1, Fields, FieldsNext
<1>8. Tame(T) /\ \A u \in VF : u < 0 => Gone(T, u)
  BY <1>5, <1>6, FnFacts DEF Tame, VF
<1>9. ASSUME NEW U \in World, AfterWgr(T, U) PROVE Good(r, U)
  <2>1. AfterWgr(S, U)
    BY <1>6, <1>7, <1>9 DEF AfterWgr, Held, Stays
  <2> QED BY <1>5, <2>1
<1>10. Good(Cons(Op("expel", 0), r), T)
  BY <1>3, <1>6, <1>7, <1>8, <1>9, FnFacts, DoExpel
<1>11. Op("expel", 0) \in AnyOp
  BY Known, FnFacts DEF OfVf
<1>12. Spells(<<Op("expel", 0)>> \o r, Cons(Op("expel", 0), r))
  BY <1>3, <1>11, SpelledCat
<1>13. Then(<<Op("expel", 0)>>)
  BY DEF GpuReset
<1> QED BY <1>3, <1>10, <1>12, <1>13, ThenOps

\* The event thread keeps what it does good.
LEMMA EventOpGood ==
  ASSUME Going, TypeOK', EventOp, NEW T, T = Now'
  PROVE  Good(todo', T)
<1>1. CASE Branch \/ Call
  <2>1. Now' = Now
    BY <1>1 DEF Branch, Call, ws, sched, Now, Stopped
  <2> QED BY <1>1, <2>1, BranchGood, CallGood
<1> QED BY <1>1, PlainGood, ResetVfGood, AutoGood, GpuResetGood DEF EventOp

-----------------------------------------------------------------------------
(* The list.                                                               *)

\* A sequence that holds each member of a set once and nothing else.
OnceEach(s, E) ==
  /\ \A i, j \in 1 .. Len(s) : s[i] = s[j] => i = j
  /\ \A v : v \in E <=> \E i \in 1 .. Len(s) : s[i] = v

LEMMA RemoveOnce ==
  ASSUME NEW X, NEW s \in Seq(X), NEW E, OnceEach(s, E), NEW f \in E
  PROVE  OnceEach(RemoveFirst(s, f), E \ {f})
<1>0. PICK I : I = {i \in 1 .. Len(s) : s[i] = f}
  OBVIOUS
<1>1. I # {} /\ I \subseteq Nat
  BY <1>0 DEF OnceEach
<1>2. PICK p : p = Min(I)
  OBVIOUS
<1>3. p \in 1 .. Len(s) /\ s[p] = f
  BY <1>0, <1>1, <1>2, MinFacts
<1>4. PICK t : t = RemoveFirst(s, f)
  OBVIOUS
<1>5. t = RemoveAt(s, p)
  BY <1>0, <1>1, <1>2, <1>3, <1>4 DEF RemoveFirst, SelectInSeq
<1>6. Len(t) = Len(s) - 1 /\ \A i \in 1 .. Len(s) - 1 : t[i] = s[IF i < p THEN i ELSE i + 1]
  BY <1>3, <1>5, RemoveAtFacts
<1>7. Len(s) \in Nat
  OBVIOUS
<1>8. \A i, j \in 1 .. Len(t) : t[i] = t[j] => i = j
  BY <1>3, <1>6, <1>7 DEF OnceEach
<1>9. ASSUME NEW v, v \in E \ {f} PROVE \E i \in 1 .. Len(t) : t[i] = v
  <2>1. PICK k \in 1 .. Len(s) : s[k] = v
    BY <1>9 DEF OnceEach
  <2>2. k # p
    BY <1>3, <1>9, <2>1
  <2>3. PICK i : i = IF k < p THEN k ELSE k - 1
    OBVIOUS
  <2>4. i \in 1 .. Len(s) - 1 /\ (IF i < p THEN i ELSE i + 1) = k
    BY <1>3, <1>7, <2>1, <2>2, <2>3
  <2> QED BY <1>6, <2>1, <2>4
<1>10. ASSUME NEW i \in 1 .. Len(t) PROVE t[i] \in E \ {f}
  <2>1. PICK k : k = IF i < p THEN i ELSE i + 1
    OBVIOUS
  <2>2. k \in 1 .. Len(s) /\ k # p /\ t[i] = s[k]
    BY <1>3, <1>6, <1>7, <2>1
  <2> QED BY <1>3, <2>2 DEF OnceEach
<1> QED BY <1>4, <1>8, <1>9, <1>10 DEF OnceEach

LEMMA AppendOnce ==
  ASSUME NEW X, NEW s \in Seq(X), NEW E, OnceEach(s, E), NEW f \in X, f \notin E
  PROVE  OnceEach(Append(s, f), E \union {f})
<1>1. PICK t : t = Append(s, f)
  OBVIOUS
<1>2. /\ Len(t) = Len(s) + 1 /\ Len(s) \in Nat /\ t[Len(s) + 1] = f
      /\ \A i \in 1 .. Len(s) : t[i] = s[i]
  BY <1>1
<1>3. \A i \in 1 .. Len(s) : s[i] # f
  BY DEF OnceEach
<1>4. \A i, j \in 1 .. Len(t) : t[i] = t[j] => i = j
  BY <1>2, <1>3 DEF OnceEach
<1>5. \A v : v \in E \union {f} <=> \E i \in 1 .. Len(t) : t[i] = v
  <2>1. ASSUME NEW v, v \in E \union {f} PROVE \E i \in 1 .. Len(t) : t[i] = v
    <3>1. CASE v = f
      BY <1>2, <3>1
    <3>2. CASE v # f
      <4>1. PICK i \in 1 .. Len(s) : s[i] = v
        BY <2>1, <3>2 DEF OnceEach
      <4>2. i \in 1 .. Len(t) /\ t[i] = v
        BY <1>2, <4>1
      <4> QED BY <4>2
    <3> QED BY <3>1, <3>2
  <2>2. ASSUME NEW i \in 1 .. Len(t) PROVE t[i] \in E \union {f}
    BY <1>2 DEF OnceEach
  <2> QED BY <2>1, <2>2
<1> QED BY <1>1, <1>4, <1>5 DEF OnceEach

LEMMA OnceCount ==
  ASSUME NEW X, NEW s \in Seq(X), NEW E, OnceEach(s, E)
  PROVE  ToSet(s) = E /\ Len(s) = Cardinality(E)
<1>1. Len(s) \in Nat /\ DOMAIN s = 1 .. Len(s)
  OBVIOUS
<1>2. E = {s[i] : i \in 1 .. Len(s)}
  BY DEF OnceEach
<1>3. ToSet(s) = E
  BY <1>1, <1>2 DEF ToSet
<1>4. s \in Bijection(1 .. Len(s), E)
  <2>1. s \in [1 .. Len(s) -> E]
    BY <1>1, <1>2
  <2>2. s \in Injection(1 .. Len(s), E)
    BY <2>1 DEF OnceEach, Injection, IsInjective
  <2>3. s \in Surjection(1 .. Len(s), E)
    BY <2>1, <1>2 DEF Surjection
  <2> QED BY <2>2, <2>3 DEF Bijection
<1>5. ExistsBijection(1 .. Len(s), E)
  BY <1>4 DEF ExistsBijection
<1>6. IsFiniteSet(1 .. Len(s)) /\ Cardinality(1 .. Len(s)) = Len(s)
  BY <1>1, FS_Interval
<1>7. Cardinality(E) = Cardinality(1 .. Len(s))
  BY <1>5, <1>6, FS_Bijection
<1> QED BY <1>3, <1>6, <1>7

Listed == OnceEach(list, entry)

\* No step puts a VF into the list twice, or into the list and not into the
\* array of the world switch.
LEMMA ListedStep ==
  ASSUME Going, Listed, Next
  PROVE  Listed'
<1>0. list \in Seq(VF) /\ entry \subseteq VF /\ TypeOK
  BY DEF Going, IInv, TypeOK
<1>1. ASSUME NEW f PROVE OnceEach(Rotated(f), entry) /\ OnceEach(Without(f), entry \ {f})
  <2>1. CASE f \in entry
    <3>1. OnceEach(RemoveFirst(list, f), entry \ {f}) /\ RemoveFirst(list, f) \in Seq(VF)
      BY <1>0, <2>1, RemoveOnce, RemoveFirstType DEF Listed
    <3>2. OnceEach(Append(RemoveFirst(list, f), f), (entry \ {f}) \union {f})
      BY <1>0, <2>1, <3>1, AppendOnce
    <3>3. (entry \ {f}) \union {f} = entry
      BY <2>1
    <3>4. OnceEach(Append(RemoveFirst(list, f), f), entry)
      BY <3>2, <3>3
    <3> QED BY <2>1, <3>1, <3>4 DEF Rotated, Without
  <2>2. CASE f \notin entry
    <3>1. entry \ {f} = entry
      BY <2>2
    <3>2. Rotated(f) = list /\ Without(f) = list
      BY <2>2 DEF Rotated, Without
    <3> QED BY <3>1, <3>2 DEF Listed
  <2> QED BY <2>1, <2>2
<1>2. CASE list' = list /\ entry' = entry
  BY <1>2 DEF Listed
<1>3. CASE list' = Rotated(cur) /\ entry' = entry
  BY <1>1, <1>3 DEF Listed
<1>4. CASE WsThread \/ TimerFires
  BY <1>2, <1>3, <1>4 DEF WsThread, WsWake, WsSave, WsLoad, TimerFires
<1>5. CASE Stop
  BY <1>2, <1>3, <1>5 DEF Stop
<1>6. CASE AddVf
  <2>1. PICK o, S, r : o = Head(todo) /\ S = Now /\ r = Tail(todo)
    OBVIOUS
  <2>2. todo # <<>> /\ o.op = "add" /\ o.op \notin Jumping /\ o.op \in OfVf
    BY <1>6, <2>1 DEF AddVf, Doing, Jumping, Tests, OfVf
  <2>3. Pre(o, S) /\ Arg = o.f /\ o.f \in VF
    BY <2>1, <2>2, Ahead
  <2>4. S.ent = entry
    BY <1>0, <2>1, Fields
  <2>5. Arg \notin entry /\ Arg \in VF
    BY <2>2, <2>3, <2>4 DEF Pre
  <2>6. OnceEach(Append(list, Arg), entry \union {Arg})
    BY <1>0, <2>5, AppendOnce DEF Listed
  <2>7. list' = Append(list, Arg) /\ entry' = entry \union {Arg}
    BY <1>6 DEF AddVf
  <2> QED BY <2>6, <2>7 DEF Listed
<1>7. CASE RemoveVf
  <2>1. list' = Without(Arg) /\ entry' = entry \ {Arg}
    BY <1>7 DEF RemoveVf
  <2> QED BY <1>1, <2>1 DEF Listed
<1>8. CASE Branch \/ Call \/ Start \/ Save \/ Load \/ InitCtx \/ SetStatus \/ FullAccess \/ SetFlags \/ GoIdle
  BY <1>2, <1>8 DEF Branch, Call, Start, Save, Load, InitCtx, SetStatus, FullAccess, SetFlags, GoIdle, ws
<1>9. CASE ResetVf \/ ResetAuto \/ GpuReset \/ ShutdownVf
  BY <1>2, <1>9 DEF ResetVf, ResetAuto, GpuReset, ShutdownVf
<1>10. CASE Incoming \/ Queued
  BY <1>2, <1>10, IncomingTakes, QueuedTakes DEF ws
<1> QED BY <1>4, <1>5, <1>6, <1>7, <1>8, <1>9, <1>10 DEF Next, EventOp

-----------------------------------------------------------------------------
(* The switching thread.                                                   *)

\* Unless something has failed, the engines are as the switching thread
\* needs them whenever the world switch runs and wherever the thread is.
Awake ==
  /\ ~Stopped => Ready(Now)
  /\ fails = 0 /\ wt = "save" => st = "LOADED" /\ cur \in entry \union {PF}
  /\ fails = 0 /\ wt = "load" => st \in {"SAVED", "CLEAR"}

\* What Ready says of the variables.
EnginesOk == fails = 0 => st \in {"SAVED", "CLEAR"} \/ (st = "LOADED" /\ cur \in entry \union {PF})

LEMMA ReadyNow ==
  ASSUME TypeOK
  PROVE  Ready(Now) <=> EnginesOk
<1>1. PICK S : S = Now
  OBVIOUS
<1> QED BY <1>1, Fields DEF Ready, Off, EnginesOk

LEMMA ReadyNext ==
  ASSUME TypeOK'
  PROVE  Ready(Now)' <=> EnginesOk'
<1>1. PICK T : T = Now'
  OBVIOUS
<1>2. Ready(T) <=> EnginesOk'
  BY <1>1, FieldsNext DEF Ready, Off, EnginesOk
<1> QED BY <1>1, <1>2 DEF Ready, Off, Clean

LEMMA ThreadAwake ==
  ASSUME TypeOK, TypeOK', Listed, Awake, WsThread \/ TimerFires
  PROVE  /\ Awake'
         /\ Drifts(Now, Now')
<1>0. /\ ~Stopped => EnginesOk
      /\ Ready(Now)' <=> EnginesOk'
  BY ReadyNow, ReadyNext DEF Awake
<1>1. PICK S, T : S = Now /\ T = Now'
  OBVIOUS
<1>2. CASE WsWake \/ TimerFires
  <2>1. Stopped' <=> Stopped
    BY <1>2 DEF WsWake, TimerFires, Stopped, TypeOK
  <2>2. UNCHANGED <<st, cur, entry, inited, status, fa, faFor, fails>>
    BY <1>2 DEF WsWake, TimerFires, sched
  <2>3. Now' = Now
    BY <2>1, <2>2 DEF Now
  <2>4. EnginesOk' <=> EnginesOk
    BY <2>2 DEF EnginesOk
  <2>5. fails = 0 /\ wt' = "save" => st = "LOADED" /\ cur \in entry \union {PF}
    <3>1. CASE TimerFires
      BY <3>1 DEF TimerFires, Awake
    <3>2. CASE WsWake
      BY <1>0, <3>2 DEF WsWake, EnginesOk, Stopped
    <3> QED BY <1>2, <3>1, <3>2
  <2>6. fails = 0 /\ wt' = "load" => st \in {"SAVED", "CLEAR"}
    <3>1. CASE TimerFires
      BY <3>1 DEF TimerFires, Awake
    <3>2. CASE WsWake
      BY <1>0, <3>2 DEF WsWake, EnginesOk, Stopped
    <3> QED BY <1>2, <3>1, <3>2
  <2>7. Awake'
    BY <1>0, <2>1, <2>2, <2>4, <2>5, <2>6 DEF Awake
  <2> QED BY <2>3, <2>7 DEF Drifts
<1>3. ASSUME wt # "wait", Vfs(S, T), T.fa = S.fa, T.ff = S.ff, fails' = 0 => fails = 0, EnginesOk'
      PROVE  Drifts(Now, Now')
  <2>1. S.run = "on"
    BY <1>1, <1>3, Fields DEF Stopped, World
  <2>2. Clean(T) => Clean(S)
    BY <1>1, <1>3, Fields, FieldsNext
  <2>3. Ready(T)
    BY <1>1, <1>3, FieldsNext DEF Ready, Off, EnginesOk
  <2> QED BY <1>1, <1>3, <2>1, <2>2, <2>3 DEF Drifts
<1>4. CASE WsSave
  <2>1. PICK f \in CmdFail(cur) :
          /\ Count(f)
          /\ st' = IF f THEN "ABNORMAL" ELSE "SAVED"
          /\ wt' = IF f THEN "wait" ELSE "load"
    BY <1>4 DEF WsSave
  <2>2. (f => fails' # 0) /\ (fails' = 0 => fails = 0)
    BY <2>1, FaultCount
  <2>3. EnginesOk'
    BY <2>1, <2>2 DEF EnginesOk
  <2>4. Awake'
    BY <1>0, <2>1, <2>2, <2>3 DEF Awake
  <2>5. wt # "wait" /\ Vfs(S, T) /\ T.fa = S.fa /\ T.ff = S.ff
    BY <1>1, <1>4, Fields, FieldsNext DEF WsSave, Vfs
  <2> QED BY <1>3, <2>2, <2>3, <2>4, <2>5
<1>5. CASE WsLoad
  <2>1. PICK f \in CmdFail(cur') :
          /\ Count(f)
          /\ st' = IF f THEN "ABNORMAL" ELSE "LOADED"
    BY <1>5 DEF WsLoad
  <2>2. (f => fails' # 0) /\ (fails' = 0 => fails = 0)
    BY <2>1, FaultCount
  <2>3. cur' \in entry \union {PF}
    <3>1. CASE list = <<>>
      BY <1>5, <3>1 DEF WsLoad
    <3>2. CASE list # <<>>
      <4>1. list \in Seq(VF)
        BY DEF TypeOK
      <4>2. Head(list) = list[1] /\ 1 \in 1 .. Len(list)
        BY <3>2, <4>1, TailFacts
      <4>3. Head(list) \in entry
        BY <4>2 DEF Listed, OnceEach
      <4> QED BY <1>5, <3>2, <4>3 DEF WsLoad
    <3> QED BY <3>1, <3>2
  <2>4. entry' = entry /\ wt' = "wait"
    BY <1>5 DEF WsLoad
  <2>5. EnginesOk'
    BY <2>1, <2>2, <2>3, <2>4 DEF EnginesOk
  <2>6. Awake'
    BY <1>0, <2>4, <2>5 DEF Awake
  <2>7. wt # "wait" /\ Vfs(S, T) /\ T.fa = S.fa /\ T.ff = S.ff
    BY <1>1, <1>5, Fields, FieldsNext DEF WsLoad, Vfs
  <2> QED BY <1>3, <2>2, <2>5, <2>6, <2>7
<1> QED BY <1>2, <1>4, <1>5 DEF WsThread

\* While the thread holds the lock the event thread leaves the engines alone.
LEMMA EventAwake ==
  ASSUME Going, TypeOK', Awake, EventOp
  PROVE  Awake'
<1>0. TypeOK /\ todo # <<>>
  <2>1. todo # <<>>
    BY DEF EventOp, Branch, Call, Stop, Start, Save, Load, InitCtx, AddVf, RemoveVf, SetStatus,
           ResetVf, ResetAuto, GpuReset, ShutdownVf, FullAccess, SetFlags, GoIdle, Doing
  <2> QED BY <2>1 DEF Going, IInv
<1>1. /\ ~Stopped => EnginesOk
      /\ Ready(Now)' <=> EnginesOk'
  BY <1>0, ReadyNow, ReadyNext DEF Awake
<1>2. wt' = wt
  BY DEF EventOp, Branch, Call, Stop, Start, Save, Load, InitCtx, AddVf, RemoveVf, SetStatus,
         ResetVf, ResetAuto, GpuReset, ShutdownVf, FullAccess, SetFlags, GoIdle
<1>3. PICK S, T, o : S = Now /\ T = Now' /\ o = Head(todo)
  OBVIOUS
<1>4. /\ o.op \notin FreeOps => S.run = "off"
      /\ o.op \notin Jumping => Pre(o, S)
      /\ S.run = "off" => Stopped
      /\ Ready(S) <=> EnginesOk
      /\ Ready(T) <=> EnginesOk'
  <2>1. PICK r : r = Tail(todo)
    OBVIOUS
  <2> QED BY <1>0, <1>1, <1>3, <2>1, Ahead, Fields, FieldsNext DEF Ready, Off, EnginesOk
<1>5. ASSUME Stopped, Stopped' PROVE Awake'
  BY <1>5 DEF Awake, Stopped
<1>6. ASSUME LockFree, EnginesOk' PROVE Awake'
  BY <1>1, <1>2, <1>6 DEF Awake, LockFree
<1>7. ASSUME UNCHANGED <<st, cur, entry, fails>>, Stopped => Stopped' PROVE Awake'
  <2>1. EnginesOk' <=> EnginesOk
    BY <1>7 DEF EnginesOk
  <2> QED BY <1>1, <1>2, <1>7, <2>1 DEF Awake
<1>8. CASE Branch \/ Call \/ SetStatus \/ FullAccess \/ SetFlags \/ GoIdle
  BY <1>7, <1>8 DEF Branch, Call, SetStatus, FullAccess, SetFlags, GoIdle, ws, Stopped
<1>9. CASE ShutdownVf
  BY <1>7, <1>9 DEF ShutdownVf, Stopped
<1>10. CASE Stop
  <2>1. Stopped'
    BY <1>2, <1>10 DEF Stop, LockFree, Stopped
  <2> QED BY <1>2, <1>10, <2>1 DEF Awake, Stop, LockFree, Stopped
<1>11. CASE Start
  <2>1. Pre(o, S) /\ o.op = "start"
    BY <1>3, <1>4, <1>11, Heads DEF Jumping, Tests
  <2>2. EnginesOk
    BY <1>4, <2>1 DEF Pre
  <2>3. EnginesOk' /\ LockFree
    BY <1>11, <2>2 DEF Start, EnginesOk
  <2> QED BY <1>6, <2>3
<1>12. CASE AddVf \/ RemoveVf
  <2>1. LockFree
    BY <1>12 DEF AddVf, RemoveVf
  <2>2. CASE Stopped
    <3>1. AddVf => Stopped'
      BY <2>2 DEF AddVf, Stopped
    <3>2. RemoveVf => Stopped'
      BY <2>2 DEF RemoveVf, Stopped
    <3> QED BY <1>5, <1>12, <2>2, <3>1, <3>2
  <2>3. CASE ~Stopped
    <3>1. Ready(S)
      BY <1>1, <1>4, <2>3
    <3>2. Ready(S) => Ready(T)
      BY <1>0, <1>3, <1>12, AddDoes, RemoveDoes DEF AfterAdd, AfterRemove, Engines
    <3> QED BY <1>4, <1>6, <2>1, <3>1, <3>2
  <2> QED BY <2>2, <2>3
<1>13. CASE Save \/ Load \/ InitCtx \/ ResetVf \/ ResetAuto \/ GpuReset
  <2>1. o.op \in {"save", "load", "init", "resetvf", "auto", "gpureset"}
    BY <1>3, <1>13, Heads
  <2>2. Stopped
    BY <1>4, <2>1 DEF FreeOps
  <2>3. Stopped'
    <3>1. Save => ~running'
      BY <2>2 DEF Save, Stopped
    <3>2. Load => ~running'
      BY <2>2 DEF Load, Stopped
    <3>3. InitCtx \/ ResetVf \/ GpuReset => ~running'
      BY <2>2 DEF InitCtx, ResetVf, GpuReset, Stopped
    <3>4. ResetAuto => ~running'
      BY <2>2 DEF ResetAuto, Stopped
    <3> QED BY <1>2, <1>13, <2>2, <3>1, <3>2, <3>3, <3>4 DEF Stopped
  <2> QED BY <1>5, <2>2, <2>3
<1> QED BY <1>8, <1>9, <1>10, <1>11, <1>12, <1>13 DEF EventOp

-----------------------------------------------------------------------------
(* The handlers begin where they may.                                      *)

LEMMA IdleNow ==
  ASSUME Going, todo = <<>>, NEW S, S = Now
  PROVE  /\ S \in World /\ Final(S)
         /\ fa # None => S.cur = fa /\ S.st = "LOADED" /\ S.run = "off"
         /\ S.fa = fa /\ S.ff = faFor /\ S.stat = status
<1>1. TypeOK /\ Good(<<>>, S) /\ Holding
  BY DEF Going, IInv
<1>2. S \in World /\ S.st = st /\ S.cur = cur /\ (S.run = "off" <=> Stopped)
      /\ S.fa = fa /\ S.ff = faFor /\ S.stat = status
  BY <1>1, Fields
<1>3. Drifts(S, S)
  BY DEF Drifts
<1>4. Goes(GoodPairs, <<>>, S)
  BY <1>1, <1>2, <1>3, Empty, GoodGoes
<1>5. Final(S)
  BY <1>4 DEF Goes
<1>6. fa # None => Owned(fa)
  BY <1>1, HoldingIdle
<1> QED BY <1>2, <1>5, <1>6 DEF Owned

LEMMA TimeoutAlone ==
  ASSUME NEW S \in World, Final(S), NEW v \in VF, S.fa = v, S.cur = v, S.run = "off"
  PROVE  Good(<<Op("timeout", v)>>, S)
<1>1. PICK o : o = Op("timeout", v)
  OBVIOUS
<1>2. o \in AnyOp
  BY <1>1, OpsKnown
<1>3. Good(Cons(o, <<>>), S)
  BY <1>1, Empty, Finish, TimeoutGood
<1>4. Spells(<<o>>, Cons(o, <<>>))
  BY <1>2, Spelled
<1> QED BY <1>1, <1>3, <1>4, SpellsGood

LEMMA RequestGood ==
  ASSUME Going, NEW S, S = Now, NEW v \in VF, Request(v) \/ ForceReset(v)
  PROVE  Good(todo', S)
<1>1. todo = <<>> /\ fa = None
  BY DEF Request, ForceReset, Take, Normal
<1>2. S \in World /\ Final(S) /\ S.fa = None
  BY <1>1, IdleNow
<1>3. CASE Request(v)
  <2>1. todo' = EnterForInit(v) \/ todo' = EnterForFini(v)
    BY <1>3 DEF Request, Take
  <2>2. Good(EnterForInit(v), S) /\ Good(EnterForFini(v), S)
    BY <1>2, EnterForInitGood, EnterForFiniGood
  <2> QED BY <2>1, <2>2
<1>4. CASE ForceReset(v)
  <2>1. todo' = <<Op("stop", None), IfBad(AutoReset), Op("saved", v), Catch(AutoReset),
                  IfActive(v, <<Op("resetvf", v), Ignore>>), IfActive(v, <<Op("remove", v)>>),
                  Op("AVAIL", v)>>
    BY <1>4 DEF ForceReset, Take
  <2>2. Good(<<Op("stop", None), IfBad(AutoReset), Op("saved", v), Catch(AutoReset),
                  IfActive(v, <<Op("resetvf", v), Ignore>>), IfActive(v, <<Op("remove", v)>>),
                  Op("AVAIL", v)>>, S)
    BY <1>2, ForceResetGood
  <2> QED BY <2>1, <2>2
<1> QED BY <1>3, <1>4

LEMMA ReleaseGood ==
  ASSUME Going, NEW S, S = Now, NEW v \in VF, Release(v)
  PROVE  Good(todo', S)
<1>1. todo = <<>> /\ fa = v /\ fa # None
  BY FnFacts DEF Release, Take
<1>2. /\ S \in World /\ Final(S) /\ S.fa = v /\ S.cur = v /\ S.st = "LOADED" /\ S.run = "off"
      /\ S.ff = faFor
  BY <1>1, IdleNow
<1>3. \A b : Loop(b) \in Loops /\ (b => Loop(b) = <<>>)
  BY DEF Loop, Loops
<1>4. CASE faFor = "init" /\ \E ready \in BOOLEAN : Take("REL_GPU_INIT", ExitInit(v, ready))
  <2>1. PICK ready \in BOOLEAN : todo' = ExitInit(v, ready)
    BY <1>4 DEF Take
  <2>2. PICK b, l, c : b = (ActiveVfs = {}) /\ l = Loop(b) /\ c = Catch(AutoOrEnd \o l \o <<EndFa, Return>>)
    OBVIOUS
  <2>3. l \in Loops /\ (b => l = <<>>)
    BY <1>3, <2>2
  <2>4. /\ l = <<>> => Good(<<>> \o <<>> \o <<c>> \o <<Op("add", v)>> \o l \o <<EndFa>>, S)
        /\ Good(<<Op("save", None)>> \o <<>> \o <<c>> \o <<Op("add", v)>> \o l \o <<EndFa>>, S)
        /\ Good(<<Op("save", None)>> \o <<Op("shutdown", v)>> \o <<c>> \o <<>> \o l \o <<EndFa>>, S)
    BY <1>2, <1>4, <2>2, <2>3, ExitInitGood
  <2>5. todo' = (IF b /\ ready THEN <<>> ELSE <<Op("save", None)>>)
                \o (IF ready THEN <<>> ELSE <<Op("shutdown", v)>>)
                \o <<c>>
                \o (IF ready THEN <<Op("add", v)>> ELSE <<>>)
                \o l \o <<EndFa>>
    BY <2>1, <2>2, Zenon DEF ExitInit
  <2>6. CASE ready /\ b
    <3>1. todo' = <<>> \o <<>> \o <<c>> \o <<Op("add", v)>> \o l \o <<EndFa>>
      BY <2>5, <2>6, Zenon
    <3> QED BY <2>3, <2>4, <2>6, <3>1
  <2>7. CASE ready /\ ~b
    <3>1. todo' = <<Op("save", None)>> \o <<>> \o <<c>> \o <<Op("add", v)>> \o l \o <<EndFa>>
      BY <2>5, <2>7, Zenon
    <3> QED BY <2>4, <3>1
  <2>8. CASE ~ready
    <3>1. todo' = <<Op("save", None)>> \o <<Op("shutdown", v)>> \o <<c>> \o <<>> \o l \o <<EndFa>>
      BY <2>5, <2>8, Zenon
    <3> QED BY <2>4, <3>1
  <2> QED BY <2>6, <2>7, <2>8
<1>5. CASE Take("REL_GPU_FINI", ExitFini(v))
  <2>1. PICK l : l = Loop(ActiveVfs = {})
    OBVIOUS
  <2>2. l \in Loops
    BY <1>3, <2>1
  <2>3. Good(<<Op("save", None), Ignore, Op("shutdown", v), Op("AVAIL", v), IfBad(AutoOrEnd)>>
             \o l \o <<EndFa>>, S)
    BY <1>2, <2>2, ExitFiniGood
  <2>4. todo' = <<Op("save", None), Ignore, Op("shutdown", v), Op("AVAIL", v), IfBad(AutoOrEnd)>>
                \o l \o <<EndFa>>
    BY <1>5, <2>1, Zenon DEF ExitFini, Take
  <2> QED BY <2>3, <2>4
<1>6. CASE Take("REL_GPU_FINI", <<Op("timeout", v)>>)
  <2>1. todo' = <<Op("timeout", v)>>
    BY <1>6 DEF Take
  <2>2. Good(<<Op("timeout", v)>>, S)
    BY <1>2, TimeoutAlone
  <2> QED BY <2>1, <2>2
<1> QED BY <1>4, <1>5, <1>6 DEF Release

LEMMA HostGood ==
  ASSUME Going, NEW S, S = Now, NEW v \in VF, SuspendEvent(v) \/ ResumeEvent(v) \/ RemoveEvent(v)
  PROVE  Good(todo', S)
<1>1. todo = <<>>
  BY DEF SuspendEvent, ResumeEvent, RemoveEvent, Take
<1>2. /\ S \in World /\ Final(S) /\ S.fa = fa /\ S.stat = status
      /\ fa # None => S.cur = fa /\ S.run = "off"
  BY <1>1, IdleNow
<1>3. CASE SuspendEvent(v)
  <2>1. /\ S.fa # v /\ S.stat[v] = "ACTIVE"
        /\ todo' = <<Op("SUSPEND", v)>> \o (IF fa = None THEN <<Op("stop", None)>> ELSE <<>>)
                   \o <<Op("remove", v)>>
    BY <1>2, <1>3, Zenon DEF SuspendEvent, Take, Active
  <2>2. CASE fa = None
    <3>1. todo' = <<Op("SUSPEND", v)>> \o <<Op("stop", None)>> \o <<Op("remove", v)>>
      BY <2>1, <2>2, Zenon
    <3>2. Good(<<Op("SUSPEND", v)>> \o <<Op("stop", None)>> \o <<Op("remove", v)>>, S)
      BY <1>2, <2>1, <2>2, SuspendGood
    <3> QED BY <3>1, <3>2
  <2>3. CASE fa # None
    <3>1. todo' = <<Op("SUSPEND", v)>> \o <<>> \o <<Op("remove", v)>>
      BY <2>1, <2>3, Zenon
    <3>2. Good(<<Op("SUSPEND", v)>> \o <<>> \o <<Op("remove", v)>>, S)
      BY <1>2, <2>1, <2>3, SuspendGood
    <3> QED BY <3>1, <3>2
  <2> QED BY <2>2, <2>3
<1>4. CASE ResumeEvent(v)
  <2>1. /\ S.fa # v /\ S.stat[v] = "SUSPEND"
        /\ todo' = (IF fa = None THEN <<Op("stop", None)>> ELSE <<>>) \o <<Op("add", v)>>
    BY <1>2, <1>4, Zenon DEF ResumeEvent, Take
  <2>2. CASE fa = None
    <3>1. todo' = <<Op("stop", None)>> \o <<Op("add", v)>>
      BY <2>1, <2>2, Zenon
    <3>2. Good(<<Op("stop", None)>> \o <<Op("add", v)>>, S)
      BY <1>2, <2>1, <2>2, ResumeGood
    <3> QED BY <3>1, <3>2
  <2>3. CASE fa # None
    <3>1. todo' = <<>> \o <<Op("add", v)>>
      BY <2>1, <2>3, Zenon
    <3>2. Good(<<>> \o <<Op("add", v)>>, S)
      BY <1>2, <2>1, <2>3, ResumeGood
    <3> QED BY <3>1, <3>2
  <2> QED BY <2>2, <2>3
<1>5. CASE RemoveEvent(v)
  <2>1. todo' = (IF fa = v THEN <<Op("timeout", v)>> ELSE <<>>)
                \o <<IfActive(v, <<Op("remove", v)>>), Op("UNAVAIL", v)>>
    BY <1>5, Zenon DEF RemoveEvent, Take
  <2>2. CASE fa = v
    <3>1. todo' = <<Op("timeout", v)>> \o <<IfActive(v, <<Op("remove", v)>>), Op("UNAVAIL", v)>>
      BY <2>1, <2>2, Zenon
    <3>2. fa # None
      BY <2>2, FnFacts
    <3>3. Good(<<Op("timeout", v)>> \o <<IfActive(v, <<Op("remove", v)>>), Op("UNAVAIL", v)>>, S)
      BY <1>2, <2>2, <3>2, RemoveGood
    <3> QED BY <3>1, <3>3
  <2>3. CASE fa # v
    <3>1. todo' = <<>> \o <<IfActive(v, <<Op("remove", v)>>), Op("UNAVAIL", v)>>
      BY <2>1, <2>3, Zenon
    <3>2. Good(<<>> \o <<IfActive(v, <<Op("remove", v)>>), Op("UNAVAIL", v)>>, S)
      BY <1>2, <2>3, RemoveGood
    <3> QED BY <3>1, <3>2
  <2> QED BY <2>2, <2>3
<1> QED BY <1>3, <1>4, <1>5

LEMMA StopsGood ==
  ASSUME Going, NEW S, S = Now, NEW v \in VF, StopVf(v)
  PROVE  Good(todo', S)
<1>1. todo = <<>>
  BY DEF StopVf, Take
<1>2. S \in World /\ Final(S) /\ S.fa = fa /\ S.stat = status
  BY <1>1, IdleNow
<1>3. CASE fa # None
  <2>1. todo' = <<Op("crash", v)>>
    BY <1>3 DEF StopVf, Take
  <2>2. Op("crash", v) \in AnyOp
    BY OpsKnown
  <2>3. Good(Cons(Op("crash", v), <<>>), S)
    BY <1>2, NopGood
  <2>4. Spells(<<Op("crash", v)>>, Cons(Op("crash", v), <<>>))
    BY <2>2, Spelled
  <2> QED BY <2>1, <2>3, <2>4, SpellsGood
<1>4. CASE fa = None
  <2>1. PICK a, b, c : /\ a = <<Op("stop", None), Op("saved", v), Catch(AutoReset),
                                IfActive(v, <<Op("resetvf", v), Ignore, Op("remove", v)>>),
                                Op("shutdown", v)>>
                       /\ b = <<Op("shutdown", v)>>
                       /\ c = <<Op("shut", v), Op("AVAIL", v)>>
    OBVIOUS
  <2>2. /\ Good(a \o c, S)
        /\ S.stat[v] = "SUSPEND" => Good(b \o c, S)
        /\ S.stat[v] # "ACTIVE" => Good(<<>> \o c, S)
    BY <1>2, <1>4, <2>1, StopVfGood
  <2>3. todo' = (CASE Active(v) -> a [] status[v] = "SUSPEND" -> b [] OTHER -> <<>>) \o c
    BY <1>4, <2>1, Zenon DEF StopVf, Take
  <2>4. Active(v) <=> S.stat[v] = "ACTIVE"
    BY <1>2 DEF Active
  <2>5. PICK m : m = CASE Active(v) -> a [] status[v] = "SUSPEND" -> b [] OTHER -> <<>>
    OBVIOUS
  <2>6. todo' = m \o c
    BY <2>3, <2>5, Zenon
  <2>7. \/ m = a
        \/ m = b /\ S.stat[v] = "SUSPEND"
        \/ m = <<>> /\ S.stat[v] # "ACTIVE"
    BY <1>2, <2>4, <2>5
  <2> QED BY <2>2, <2>6, <2>7, Zenon
<1> QED BY <1>3, <1>4

LEMMA WholesGood ==
  ASSUME Going, NEW S, S = Now, InitVfFb \/ Whole
  PROVE  Good(todo', S)
<1>1. todo = <<>> /\ fa = None
  BY DEF InitVfFb, Whole, Take, Normal
<1>2. S \in World /\ Final(S) /\ S.fa = None
  BY <1>1, IdleNow
<1>3. \/ todo' = <<Op("stop", None), IfBad(AutoReset), Op("switch", PF), Catch(AutoReset),
                   Op("save", None), Catch(AutoReset)>>
      \/ todo' = <<Op("stop", None), IfBad(AutoReset), Op("lock", None)>>
      \/ todo' = <<Op("unlock", None)>>
      \/ todo' = <<Op("stop", None), Op("wgr", None), Ignore>>
  BY Zenon DEF InitVfFb, Whole, Take
<1>4. /\ Good(<<Op("stop", None), IfBad(AutoReset), Op("switch", PF), Catch(AutoReset),
                   Op("save", None), Catch(AutoReset)>>, S)
      /\ Good(<<Op("stop", None), IfBad(AutoReset), Op("lock", None)>>, S)
      /\ Good(<<Op("unlock", None)>>, S)
      /\ Good(<<Op("stop", None), Op("wgr", None), Ignore>>, S)
  BY <1>2, InitFbGood, WholeGood
<1> QED BY <1>3, <1>4, Zenon

LEMMA QueuedGood ==
  ASSUME Going, NEW S, S = Now, Queued
  PROVE  Good(todo', S)
<1>1. todo = <<>>
  BY QueuedTakes
<1>2. /\ S \in World /\ Final(S) /\ S.fa = fa /\ S.stat = status
      /\ fa # None => S.cur = fa /\ S.run = "off"
  BY <1>1, IdleNow
<1>3. Good(<<>>, S)
  BY <1>2, QueueGood
<1>4. ASSUME NEW v \in Fn, TakeReset(v) PROVE Good(todo', S)
  <2>1. fa = None /\ (todo' = <<>> \/ todo' = <<Op("stop", None), IfBad(AutoReset)>>)
    BY <1>4, Zenon DEF TakeReset, Normal
  <2>2. Good(<<Op("stop", None), IfBad(AutoReset)>>, S)
    BY <1>2, <2>1, QueueGood
  <2> QED BY <1>3, <2>1, <2>2
<1>5. ASSUME NEW v \in VF, TakeCrash(v) PROVE Good(todo', S)
  <2>1. PICK s : s = <<Op("stop", None), Op("saved", v), Catch(AutoReset),
                       IfActive(v, <<Op("resetvf", v), Ignore>>),
                       Op("orphan", v), Catch(GiveUp), Op("shut", v)>>
    OBVIOUS
  <2>2. fa = None /\ (todo' = <<>> \/ todo' = s)
    BY <1>5, <2>1, Zenon DEF TakeCrash, Normal
  <2>3. Good(s, S)
    BY <1>2, <2>1, <2>2, CrashGood
  <2> QED BY <1>3, <2>2, <2>3
<1>6. CASE Timeout
  <2>1. fa # None /\ todo' = <<Op("timeout", fa)>>
    BY <1>6 DEF Timeout
  <2>2. fa \in VF
    BY <2>1 DEF Going, IInv, TypeOK
  <2>3. Good(<<Op("timeout", fa)>>, S)
    BY <1>2, <2>1, <2>2, TimeoutAlone
  <2> QED BY <2>1, <2>3
<1>7. CASE Reactivate
  <2>1. \/ fa = None /\ todo' = <<Op("start", None), Op("idle", None)>>
        \/ todo' = <<Op("idle", None)>>
    BY <1>7 DEF Reactivate, Normal
  <2>2. /\ fa = None => Good(<<Op("start", None), Op("idle", None)>>, S)
        /\ Good(<<Op("idle", None)>>, S)
    BY <1>2, QueueGood
  <2> QED BY <2>1, <2>2
<1> QED BY <1>4, <1>5, <1>6, <1>7 DEF Queued

-----------------------------------------------------------------------------
(* The list and the assertions.                                            *)

CInv == Going /\ Listed /\ Awake

LEMMA InitGood == Init => CInv
<1> SUFFICES ASSUME Init PROVE CInv
  OBVIOUS
<1>1. IInv /\ TypeOK
  BY InitInv DEF IInv
<1>2. PICK S : S = Now
  OBVIOUS
<1>3. /\ S \in World /\ S.st = "SAVED" /\ S.cur = PF /\ S.ent = {} /\ S.fa = None
      /\ S.stat = [v \in VF |-> "AVAIL"]
  BY <1>1, <1>2, Fields DEF Init
<1>4. OkAll(S) /\ Ready(S)
  BY <1>3 DEF OkAll, OkVf, Ready, Off
<1>5. Good(<<>>, S)
  BY <1>3, <1>4, Finish
<1>6. Going
  BY <1>1, <1>2, <1>5 DEF Init, Going
<1>7. Listed
  BY DEF Init, Listed, OnceEach
<1>8. Awake
  BY <1>2, <1>4 DEF Init, Awake
<1> QED BY <1>6, <1>7, <1>8 DEF CInv

LEMMA NextGood == CInv /\ [Next]_vars => CInv'
<1> SUFFICES ASSUME CInv, [Next]_vars PROVE CInv'
  OBVIOUS
<1>0. Going /\ Listed /\ Awake /\ IInv /\ TypeOK /\ IInv' /\ TypeOK'
  BY NextInv DEF CInv, Going, IInv
<1>1. PICK S, T : S = Now /\ T = Now'
  OBVIOUS
<1>2. S \in World /\ T \in World /\ Good(todo, S) /\ todo \in Seq(AnyOp)
  BY <1>0, <1>1, Fields, FieldsNext DEF Going, IInv
<1>3. ASSUME Good(todo', T), Listed', Awake' PROVE CInv'
  <2>1. Good(todo, Now)'
    BY <1>1, <1>3 DEF Good
  <2> QED BY <1>0, <1>3, <2>1 DEF CInv, Going
<1>4. CASE Next
  <2>1. Listed'
    BY <1>0, <1>4, ListedStep
  <2>2. CASE WsThread \/ TimerFires
    <3>1. Awake' /\ Drifts(S, T)
      BY <1>0, <1>1, <2>2, ThreadAwake
    <3>2. todo' = todo
      BY <2>2 DEF WsThread, WsWake, WsSave, WsLoad, TimerFires
    <3>3. Good(todo', T)
      BY <1>2, <3>1, <3>2, GoodDrifts
    <3> QED BY <1>3, <2>1, <3>1, <3>3
  <2>3. CASE EventOp
    <3>1. Good(todo', T)
      BY <1>0, <1>1, <2>3, EventOpGood
    <3>2. Awake'
      BY <1>0, <2>3, EventAwake
    <3> QED BY <1>3, <2>1, <3>1, <3>2
  <2>4. CASE Incoming \/ Queued
    <3>1. UNCHANGED <<ws, wt, status, fa, faFor, fails>>
      BY <2>4, IncomingTakes, QueuedTakes DEF sched
    <3>2. Now' = Now /\ Stopped' = Stopped
      BY <3>1 DEF Now, ws, Stopped
    <3>3. Awake'
      BY <1>0, <3>1, <3>2 DEF Awake, ws, Ready, Off, Clean
    <3>4. Good(todo', S)
      BY <1>0, <1>1, <2>4, RequestGood, ReleaseGood, HostGood, StopsGood, WholesGood, QueuedGood
         DEF Incoming
    <3> QED BY <1>1, <1>3, <2>1, <3>2, <3>3, <3>4
  <2> QED BY <1>4, <2>2, <2>3, <2>4 DEF Next
<1>5. CASE UNCHANGED vars
  <2>1. Now' = Now /\ todo' = todo
    BY <1>5 DEF vars, ws, sched, Now, Stopped
  <2>2. Listed'
    BY <1>0, <1>5 DEF vars, ws, Listed
  <2>3. Awake'
    BY <1>0, <1>5, <2>1 DEF vars, ws, sched, Awake, Stopped, Ready, Off, Clean
  <2> QED BY <1>1, <1>2, <1>3, <2>1, <2>2, <2>3
<1> QED BY <1>4, <1>5

LEMMA GoodHolds == Spec => []CInv
BY InitGood, NextGood, PTL DEF Spec

-----------------------------------------------------------------------------
(* The theorems.                                                           *)

\* The variables hold what the code declares: no VF, no function and no
\* number leaves its range, whatever handler runs.
THEOREM TypeInvariant == Spec => []TypeOK
<1>1. IInv => TypeOK
  BY DEF IInv
<1> QED BY <1>1, InvHolds, PTL

\* The assertions of is_state_ok and clear_state hold whatever fails: the
\* event thread touches the engines only once it has stopped the world switch.
THEOREM StoppedAssertsHold == Spec => []StoppedAsserts
<1>1. IInv => StoppedAsserts
  <2> SUFFICES ASSUME IInv, NEW o \in {"load", "init", "save", "ifbad", "resetvf", "gpureset"}, Doing(o)
               PROVE  Stopped
    BY DEF StoppedAsserts, Stopped
  <2>1. todo # <<>> /\ todo[1].op = o /\ 1 \in 1 .. Len(todo)
    BY FirstFacts, TailFacts DEF IInv
  <2>2. ~Free(todo[1]) /\ ~(\E j \in 1 .. 1 - 1 : todo[j].op \in {"stop", "wgr"})
    BY <2>1 DEF Free, FreeOps
  <2> QED BY <2>1, <2>2 DEF IInv, Guarded
<1> QED BY <1>1, InvHolds, PTL

\* While a VF has full access the engines are on it and on nobody else, and
\* the switching thread cannot take them away, whatever failed on the way.
THEOREM FullAccessIsExclusive == Spec => []FullAccessExclusive
<1>1. IInv => FullAccessExclusive
  BY HoldingIdle DEF IInv, FullAccessExclusive, Owned, Stopped
<1> QED BY <1>1, InvHolds, PTL

\* What the scheduler records of the engines is what they do, whatever fails.
THEOREM HwAlwaysAgrees == Spec => []HwAgrees
<1>1. Init => HwAgrees
  BY DEF Init, HwAgrees
<1>2. HwAgrees /\ [Next]_vars => HwAgrees'
  <2> SUFFICES ASSUME HwAgrees, [Next]_vars PROVE HwAgrees'
    OBVIOUS
  <2>1. CASE WsThread \/ TimerFires
    BY <2>1 DEF WsThread, WsWake, WsSave, WsLoad, TimerFires, HwAgrees
  <2>2. CASE Branch \/ Call \/ Start \/ AddVf \/ SetStatus \/ FullAccess \/ SetFlags \/ GoIdle
    BY <2>2 DEF Branch, Call, Start, AddVf, SetStatus, FullAccess, SetFlags, GoIdle, ws, HwAgrees
  <2>3. CASE Stop \/ Save \/ Load \/ InitCtx \/ RemoveVf
    BY <2>3 DEF Stop, Save, Load, InitCtx, RemoveVf, HwAgrees
  <2>4. CASE ResetVf \/ ResetAuto
    BY <2>4 DEF ResetVf, ResetAuto, Cleared, HwAgrees
  <2>5. CASE GpuReset \/ ShutdownVf
    BY <2>5 DEF GpuReset, ShutdownVf, HwAgrees
  <2>6. CASE Incoming \/ Queued
    BY <2>6, IncomingTakes, QueuedTakes DEF ws, HwAgrees
  <2>7. CASE UNCHANGED vars
    BY <2>7 DEF vars, ws, HwAgrees
  <2> QED BY <2>1, <2>2, <2>3, <2>4, <2>5, <2>6, <2>7 DEF Next, EventOp
<1> QED BY <1>1, <1>2, PTL DEF Spec

\* Between events the active list holds each active VF once and nobody else,
\* each with a context to load, and the VF that is closing its driver is out
\* of it: whatever commands and resets have failed, in whatever handler.
THEOREM ListAlwaysMatches == Spec => []ListMatches
<1>1. CInv => ListMatches
  <2> SUFFICES ASSUME CInv, todo = <<>>
               PROVE  /\ ToSet(list) = entry /\ Len(list) = Cardinality(entry)
                      /\ entry = ActiveVfs \ (IF faFor = "fini" THEN {fa} ELSE {})
                      /\ entry \subseteq inited
    BY DEF ListMatches
  <2>1. Going /\ Listed /\ TypeOK
    BY DEF CInv, Going, IInv
  <2>2. PICK S : S = Now
    OBVIOUS
  <2>3. /\ Final(S) /\ S.fa = fa /\ S.ff = faFor /\ S.stat = status
        /\ S.ent = entry /\ S.ini = inited
    BY <2>1, <2>2, IdleNow, Fields
  <2>4. ToSet(list) = entry /\ Len(list) = Cardinality(entry)
    BY <2>1, OnceCount DEF Listed, TypeOK
  <2>5. ASSUME NEW u \in VF
        PROVE  /\ u \in entry <=> status[u] = "ACTIVE" /\ ~(faFor = "fini" /\ u = fa)
               /\ u \in entry => u \in inited
    BY <2>3 DEF Final, Settled, OkVf
  <2>6. entry \subseteq VF
    BY <2>1 DEF TypeOK
  <2>7. entry = ActiveVfs \ (IF faFor = "fini" THEN {fa} ELSE {})
    BY <2>5, <2>6 DEF ActiveVfs
  <2> QED BY <2>4, <2>5, <2>6, <2>7
<1> QED BY <1>1, GoodHolds, PTL

\* The assertions of init, load, save, stop and process hold in every handler
\* and in the switching thread, whatever the guests and the host ask for, as
\* long as no command and no reset fails.
THEOREM AssertsHoldWithoutFault == Spec => []AssertsWithoutFault
<1>1. CInv => AssertsWithoutFault
  <2> SUFFICES ASSUME CInv, fails = 0 PROVE ContextAsserts /\ EntryAssert
    BY DEF AssertsWithoutFault
  <2>1. Going /\ Awake /\ TypeOK
    BY DEF CInv, Going, IInv
  <2>2. PICK S, o, r : S = Now /\ o = Head(todo) /\ r = Tail(todo)
    OBVIOUS
  <2>3. S.st = st /\ S.cur = cur /\ S.ent = entry /\ Clean(S)
    BY <2>1, <2>2, Fields
  <2>4. ASSUME NEW x \in {"load", "init", "save", "stop"}, Doing(x) PROVE Pre(o, S) /\ o.op = x
    <3>1. todo # <<>> /\ o.op = x /\ o.op \notin Jumping
      BY <2>2, <2>4 DEF Doing, Jumping, Tests
    <3> QED BY <2>1, <2>2, <3>1, Ahead
  <2>5. Doing("load") \/ Doing("init") => st \in {"SAVED", "CLEAR"}
    BY <2>3, <2>4 DEF Pre, Down, Off
  <2>6. Doing("save") => st \in {"LOADED", "CLEAR"}
    BY <2>3, <2>4 DEF Pre
  <2>7. Doing("stop") /\ st = "LOADED" => cur \in entry \union {PF}
    BY <2>3, <2>4 DEF Pre, Ready, Off
  <2> QED BY <2>1, <2>5, <2>6, <2>7 DEF Awake, ContextAsserts, EntryAssert
<1> QED BY <1>1, GoodHolds, PTL

=============================================================================
