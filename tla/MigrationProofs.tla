-------------------------- MODULE MigrationProofs --------------------------
(***************************************************************************)
(* Theorems about live migration, for any number of pages, any sizes of    *)
(* the ring and of the reads, any failures and resets, and any of libgv's  *)
(* answers refused or dropped by a full access.                            *)
(***************************************************************************)
EXTENDS Migration, ListLemmas, FiniteSetTheorems, TLAPS

-----------------------------------------------------------------------------
(* The inductive invariant.                                                *)

Section == {"STATIC", "DYNAMIC", "BITMAP"}
Unit == [ver : {0, 1}, secs : SUBSET Section, len : Nat, bm : SUBSET Page, v : Nat]

Bounds == [{"write", "call", "attempt", "fault"} -> Nat]

\* The data that the argument is about.
Marks == fb \in [Page -> Nat] /\ dbit \subseteq Page /\ acc \subseteq Page /\ shadow \subseteq Page
Units == msg \in Unit /\ ring \in Seq(Unit) /\ buf \in Seq(Unit) /\ got \in Seq(Unit)
Sizes == room \in Nat /\ took \in Nat /\ used \in Bounds
Data == Marks /\ Units /\ Sizes

\* What the copy thread has in hand fits into the room it found, which a
\* read or the end of the migration can only enlarge.
Room ==
    /\ Len(ring) <= RingSize
    /\ tpc = "wait" => buf = <<>>
    /\ tpc # "wait" => room >= 1 /\ Len(ring) + room <= RingSize /\ Len(buf) <= room
    /\ tpc = "page" /\ msg.bm # {} => Len(buf) < room

\* A read takes only what is in the ring, and leaves it there until it
\* returns.
Taken ==
    /\ took <= Len(ring)
    /\ upc # "ring" => took = 0

\* A VF that is believed to be stopped is, or the migration is marked; and a
\* read that goes on has seen that it is not marked.  Or the mark was dropped.
Slipped == ~Marked({"suspend"})

Halted ==
    /\ dev = "STOP_COPY" => abort \/ ~running \/ Slipped
    /\ dev = "STOP_COPY" /\ upc \in {"ring", "mask", "wake", "eof"} => ~running \/ Slipped
    /\ upc = "eof" => dev = "STOP_COPY"
    /\ tdev = "RUNNING" => upc = "gone" /\ (~running \/ Slipped)

\* What the target holds: its frame buffer, the pages it still waits for and
\* the sections it has.
Target(t) ==
    /\ t = [fb |-> t.fb, bm |-> t.bm, copied |-> t.copied, ok |-> t.ok, gap |-> t.gap]
    /\ t.fb \in [Page -> Nat] /\ t.bm \subseteq Page
    /\ t.ok \in BOOLEAN /\ t.gap \in BOOLEAN

\* A migration under way that nothing has failed in yet, on the source.
Alive ==
    /\ dev \in {"PRE_COPY", "STOP_COPY"} /\ upc # "failed"
    /\ ~abort /\ Marked({"query", "thread"})

\* libgv knows of a migration under way; a VF that is not migrated has a
\* stopped copy thread and an empty ring, once the thread has been joined.
Phase ==
    /\ dev \in {"PRE_COPY", "STOP_COPY"} => mig \in {"PRE_COPY", "STOP_COPY"}
    /\ upc \in {"ring", "mask", "wake"} => dev \in {"PRE_COPY", "STOP_COPY"}
    /\ upc = "join" => dev = "RUNNING"
    /\ dev = "RUNNING" => state # "RUNNING"
    /\ dev = "RUNNING" /\ upc # "join" => ring = <<>> /\ tpc = "wait" /\ msg = Blank

\* The copy thread at work on a header, before it is in the ring.
Building == {"export", "STATIC", "DYNAMIC", "BITMAP", "clear", "seal"}

\* A new message starts from a cleared buffer.
Held ==
    /\ tpc \in Building => buf = <<>>
    /\ tpc \in {"pause", "done"} => msg = Blank
    /\ Alive /\ (tpc = "export" \/ (tpc = "wait" /\ ~mid)) => msg = Blank
    /\ Alive /\ tpc \in {"STATIC", "DYNAMIC", "BITMAP"} => msg.bm = {}

\* A read that is to return as much as it took returns just that.
Returned ==
    /\ Len(got) <= took
    /\ Len(got) = took => got = SubSeq(ring, 1, took)

\* The source and the target agree, over whatever is on its way, on which
\* pages are still to follow the last header; and a page on which they will
\* differ is marked.
Between == tpc \in Building \/ (tpc = "wait" /\ ~mid)
Matches == Arrived.bm = IF Between THEN {} ELSE msg.bm
Dirty(p) == p \in dbit \cup shadow \cup msg.bm \cup IF first THEN acc ELSE {}
Differing == \A p \in Page : fb[p] \notin {0, Arrived.fb[p]} => Dirty(p)
Follows == Sound => Matches /\ Differing

Base == /\ Data /\ Room /\ Taken /\ Halted /\ WrittenIsMarked
        /\ Phase /\ Held /\ Returned /\ Target(target)

IInv == Base /\ Follows

-----------------------------------------------------------------------------
(* The data.                                                               *)

LEMMA UnitFacts ==
    /\ Blank \in Unit /\ Blank.bm = {}
    /\ \A v \in Nat : Content(v) \in Unit
    /\ \A S \in SUBSET Page : Cardinality(S) \in Nat
<1>1. ASSUME NEW S \in SUBSET Page PROVE Cardinality(S) \in Nat
  <2>1. IsFiniteSet(1 .. NumPages)
    BY FS_Interval, MigrationAssumption
  <2> QED BY <2>1, FS_Subset, FS_CardinalityType DEF Page
<1> QED BY <1>1 DEF Blank, Content, Unit

\* The bounds are counted in used.
LEMMA Counted ==
    ASSUME used \in Bounds, NEW w \in {"write", "call", "attempt", "fault"}, NEW m, Count(w, m)
    PROVE  used' \in Bounds /\ used'[w] = used[w] + 1
BY DEF Count, Bounds

LEMMA FaultCounted ==
    ASSUME used \in Bounds, NEW f, Fault(f)
    PROVE  used' \in Bounds
BY Counted DEF Fault

\* What the copy thread does to the header of the message.
LEMMA HeaderFacts ==
    ASSUME NEW u \in Unit
    PROVE  /\ \A b \in Section : [u EXCEPT !.secs = @ \cup {b}] \in Unit
           /\ \A S \in SUBSET Page :
                [u EXCEPT !.bm = S, !.len = @ + Cardinality(S), !.secs = @ \cup {"BITMAP"}] \in Unit
           /\ [u EXCEPT !.ver = 1, !.len = @ + 1] \in Unit
           /\ \A S : [u EXCEPT !.bm = @ \ S] \in Unit /\ [u EXCEPT !.bm = @ \ S].bm = u.bm \ S
<1>1. \A b \in Section : [u EXCEPT !.secs = @ \cup {b}] \in Unit
  BY DEF Unit
<1>2. ASSUME NEW S \in SUBSET Page
      PROVE  [u EXCEPT !.bm = S, !.len = @ + Cardinality(S), !.secs = @ \cup {"BITMAP"}] \in Unit
  <2>1. Cardinality(S) \in Nat
    BY UnitFacts
  <2>2. PICK x : x = [u EXCEPT !.bm = S]
    OBVIOUS
  <2>3. PICK y : y = [x EXCEPT !.len = @ + Cardinality(S)]
    OBVIOUS
  <2>4. x \in Unit
    BY <2>2 DEF Unit
  <2>5. y \in Unit
    BY <2>1, <2>3, <2>4 DEF Unit
  <2>6. [y EXCEPT !.secs = @ \cup {"BITMAP"}] \in Unit
    BY <2>5 DEF Unit, Section
  <2> QED BY <2>2, <2>3, <2>6
<1>3. [u EXCEPT !.ver = 1, !.len = @ + 1] \in Unit
  <2>1. PICK x : x = [u EXCEPT !.ver = 1]
    OBVIOUS
  <2>2. x \in Unit
    BY <2>1 DEF Unit
  <2>3. [x EXCEPT !.len = @ + 1] \in Unit
    BY <2>2 DEF Unit
  <2> QED BY <2>1, <2>3
<1>4. \A S : [u EXCEPT !.bm = @ \ S] \in Unit /\ [u EXCEPT !.bm = @ \ S].bm = u.bm \ S
  BY DEF Unit
<1> QED BY <1>1, <1>2, <1>3, <1>4

LEMMA StreamFacts ==
    /\ <<>> \in Seq(Unit) /\ Len(<<>>) = 0
    /\ \A u \in Unit : <<u>> \in Seq(Unit) /\ Len(<<u>>) = 1
    /\ \A s, t \in Seq(Unit) : s \o t \in Seq(Unit) /\ Len(s \o t) = Len(s) + Len(t)
    /\ \A s \in Seq(Unit) : \A u \in Unit : Append(s, u) \in Seq(Unit) /\ Len(Append(s, u)) = Len(s) + 1
    /\ \A s \in Seq(Unit) : Len(s) \in Nat
<1>1. ASSUME NEW u \in Unit PROVE <<u>> \in Seq(Unit) /\ Len(<<u>>) = 1
  OBVIOUS
<1>2. ASSUME NEW s \in Seq(Unit), NEW t \in Seq(Unit)
      PROVE  s \o t \in Seq(Unit) /\ Len(s \o t) = Len(s) + Len(t)
  OBVIOUS
<1>3. ASSUME NEW s \in Seq(Unit), NEW u \in Unit
      PROVE  Append(s, u) \in Seq(Unit) /\ Len(Append(s, u)) = Len(s) + 1
  OBVIOUS
<1> QED BY <1>1, <1>2, <1>3

LEMMA PartFacts ==
    ASSUME NEW s \in Seq(Unit), NEW m \in Nat, NEW n \in Nat, m <= n + 1, n <= Len(s), m > 0
    PROVE  SubSeq(s, m, n) \in Seq(Unit) /\ Len(SubSeq(s, m, n)) = n + 1 - m
OBVIOUS

\* A read passes a number of units of the ring.
LEMMA ReadPasses ==
    ASSUME Data, ReadRing
    PROVE  \E n \in Nat, x \in Seq(Unit) :
             /\ took' = took + n /\ took + n <= Len(ring) /\ ring' = ring
             /\ x = SubSeq(ring, took + 1, took + n) /\ Len(x) = n
             /\ got' = SubSeq(got \o x, 1, n) /\ got' \in Seq(Unit)
<1>0. /\ ring \in Seq(Unit) /\ got \in Seq(Unit) /\ took \in Nat /\ ReadLen \in Nat
      /\ Len(ring) \in Nat /\ Len(got) \in Nat
  BY MigrationAssumption, StreamFacts DEF Data, Units, Sizes
<1>1. PICK a \in Nat, b \in Nat : a = Len(ring) - took /\ b = ReadLen - Len(got)
  <2>1. Len(ring) - took \in Nat /\ ReadLen - Len(got) \in Nat
    BY <1>0 DEF ReadRing
  <2> QED BY <2>1, Zenon
<1>2. PICK n : n = Min({a, b})
  OBVIOUS
<1>3. n \in Nat /\ n <= a /\ n <= b
  <2>1. {a, b} \subseteq Nat /\ {a, b} # {}
    OBVIOUS
  <2>2. n \in {a, b} /\ \A y \in {a, b} : n <= y
    BY <1>2, <2>1, MinFacts
  <2> QED BY <2>2
<1>4. /\ took' = took + n /\ ring' = ring
      /\ got' = SubSeq(got \o SubSeq(ring, took + 1, took + n), 1, n)
  BY <1>1, <1>2 DEF ReadRing
<1>5. took + n <= Len(ring) /\ took + n \in Nat /\ took + 1 \in Nat
  BY <1>0, <1>1, <1>3
<1>6. PICK x \in Seq(Unit) : x = SubSeq(ring, took + 1, took + n) /\ Len(x) = n
  <2>1. /\ SubSeq(ring, took + 1, took + n) \in Seq(Unit)
        /\ Len(SubSeq(ring, took + 1, took + n)) = took + n + 1 - (took + 1)
    BY <1>0, <1>3, <1>5, PartFacts
  <2>2. took + n + 1 - (took + 1) = n
    BY <1>0, <1>3
  <2> QED BY <2>1, <2>2, Zenon
<1>7. PICK y \in Seq(Unit) : y = got \o x /\ Len(y) = Len(got) + n
  <2>1. got \o x \in Seq(Unit) /\ Len(got \o x) = Len(got) + n
    BY <1>0, <1>6, StreamFacts
  <2> QED BY <2>1, Zenon
<1>8. SubSeq(y, 1, n) \in Seq(Unit)
  BY <1>0, <1>3, <1>7, PartFacts
<1> QED BY <1>3, <1>4, <1>5, <1>6, <1>7, <1>8

LEMMA DataStep ==
    ASSUME Data, Taken, Next
    PROVE  Data'
<1>0. /\ \A f : Fault(f) => used' \in Bounds
      /\ \A w \in {"write", "call", "attempt", "fault"} : \A m : Count(w, m) => used' \in Bounds
  BY Counted, FaultCounted DEF Data, Sizes
<1>w. ASSUME NEW p \in Page, Write(p) PROVE Data'
  <2>1. used' \in Bounds /\ fb' \in [Page -> Nat]
    BY <1>w, Counted DEF Write, Data, Marks, Sizes, Bounds
  <2> QED BY <1>w, <2>1 DEF Write, Data, Marks, Units, Sizes, thread, user, read
<1>1. CASE Flr
  <2>1. Marks'
    BY <1>1 DEF Flr, AbortCheck, Data, Marks, dirt
  <2>2. Units'
    BY <1>1, UnitFacts DEF Flr, AbortCheck, Data, Units, Marks, Unit, Section, thread, user, read
  <2>3. Sizes'
    BY <1>1, <1>0, MigrationAssumption DEF Flr, AbortCheck, Data, Sizes, Units, thread, user, read
  <2> QED BY <2>1, <2>2, <2>3 DEF Data
<1>2. CASE Wake
  <2>1. Marks'
    BY <1>2 DEF Wake, Data, Marks, dirt
  <2>2. Units'
    BY <1>2, UnitFacts, StreamFacts DEF Wake, Data, Units, thread, user, read
  <2>3. Sizes'
    BY <1>2, <1>0, MigrationAssumption DEF Wake, Data, Sizes, Units, thread, user, read
  <2> QED BY <2>1, <2>2, <2>3 DEF Data
<1>3. CASE Export
  <2>1. Marks'
    BY <1>3 DEF Export, AfterHeader, Data, Marks, dirt
  <2>2. Units'
    BY <1>3, StreamFacts DEF Export, Data, Units, thread, user, read
  <2>3. Sizes'
    BY <1>3, <1>0, MigrationAssumption DEF Export, AfterHeader, Data, Sizes, Units, thread, user, read
  <2> QED BY <2>1, <2>2, <2>3 DEF Data
<1>4. CASE ExportBitmap
  <2>1. Marks'
    BY <1>4 DEF ExportBitmap, Data, Marks, dirt
  <2>2. Units'
    BY <1>4, HeaderFacts DEF ExportBitmap, Marks, Data, Units, thread, user, read
  <2>3. Sizes'
    BY <1>4, <1>0, MigrationAssumption DEF ExportBitmap, Data, Sizes, Units, thread, user, read
  <2> QED BY <2>1, <2>2, <2>3 DEF Data
<1>5. CASE SkipSection
  <2>1. Marks'
    BY <1>5 DEF SkipSection, Data, Marks, dirt
  <2>2. Units'
    BY <1>5, UnitFacts DEF SkipSection, Data, Units, Marks, Unit, Section, thread, user, read
  <2>3. Sizes'
    BY <1>5, <1>0, MigrationAssumption DEF SkipSection, Data, Sizes, Units, thread, user, read
  <2> QED BY <2>1, <2>2, <2>3 DEF Data
<1>6. CASE ExportFails
  <2>1. Marks'
    BY <1>6 DEF ExportFails, ThreadFails, Data, Marks, dirt
  <2>2. Units'
    BY <1>6, UnitFacts, StreamFacts DEF ExportFails, ThreadFails, Data, Units, thread, user, read
  <2>3. Sizes'
    BY <1>6, <1>0, MigrationAssumption DEF ExportFails, ThreadFails, Data, Sizes, Units, thread, user, read
  <2> QED BY <2>1, <2>2, <2>3 DEF Data
<1>7. CASE Clear
  <2>1. Marks'
    BY <1>7 DEF Clear, TakeSection, Data, Marks, dirt
  <2>2. Units'
    <3>1. msg' \in Unit
      <4>1. PICK x \in Section : msg' = [msg EXCEPT !.secs = @ \cup {x}] \/ msg' = msg
        BY <1>7 DEF Clear, TakeSection, Section
      <4>2. [msg EXCEPT !.secs = @ \cup {x}] \in Unit
        BY HeaderFacts DEF Data, Units
      <4> QED BY <4>1, <4>2 DEF Data, Units
    <3> QED BY <1>7, <3>1 DEF Clear, TakeSection, Data, Units, user, read
  <2>3. Sizes'
    BY <1>7, <1>0, MigrationAssumption DEF Clear, TakeSection, Data, Sizes, Units, thread, user, read
  <2> QED BY <2>1, <2>2, <2>3 DEF Data
<1>8. CASE Collide
  <2>1. Marks'
    BY <1>8 DEF Collide, TakeSection, AddWanted, Data, Marks, dirt
  <2>2. Units'
    <3>1. msg' \in Unit
      <4>1. PICK x \in Section : msg' = [msg EXCEPT !.secs = @ \cup {x}] \/ msg' = msg
        BY <1>8 DEF Collide, TakeSection, Section
      <4>2. [msg EXCEPT !.secs = @ \cup {x}] \in Unit
        BY HeaderFacts DEF Data, Units
      <4> QED BY <4>1, <4>2 DEF Data, Units
    <3> QED BY <1>8, <3>1 DEF Collide, TakeSection, AddWanted, Data, Units, user, read
  <2>3. Sizes'
    BY <1>8, <1>0, MigrationAssumption DEF Collide, TakeSection, AddWanted, Data, Sizes, Units, thread, user, read
  <2> QED BY <2>1, <2>2, <2>3 DEF Data
<1>9. CASE Seal
  <2>1. Marks'
    BY <1>9 DEF Seal, AfterHeader, Data, Marks, dirt
  <2>2. Units'
    BY <1>9, HeaderFacts, StreamFacts DEF Seal, Data, Units, thread, user, read
  <2>3. Sizes'
    BY <1>9, <1>0, MigrationAssumption DEF Seal, AfterHeader, Data, Sizes, Units, thread, user, read
  <2> QED BY <2>1, <2>2, <2>3 DEF Data
<1>10. CASE CopyPage
  <2>1. Marks'
    BY <1>10 DEF CopyPage, Data, Marks, dirt
  <2>2. Units'
    <3>1. PICK p \in msg.bm : p = Min(msg.bm)
      <4>1. msg.bm \subseteq Nat
        BY DEF Data, Units, Unit, Page
      <4> QED BY <1>10, <4>1, MinFacts DEF CopyPage
    <3>2. fb[p] \in Nat
      BY <3>1 DEF Data, Units, Unit, Marks
    <3>3. msg' \in Unit /\ buf' \in Seq(Unit)
      BY <1>10, <3>1, <3>2, UnitFacts, HeaderFacts, StreamFacts DEF CopyPage, Data, Units
    <3> QED BY <1>10, <3>3 DEF CopyPage, Data, Units, thread, user, read
  <2>3. Sizes'
    BY <1>10, <1>0, MigrationAssumption DEF CopyPage, Data, Sizes, Units, thread, user, read
  <2> QED BY <2>1, <2>2, <2>3 DEF Data
<1>11. CASE CopyFails
  <2>1. Marks'
    BY <1>11 DEF CopyFails, ThreadFails, Data, Marks, dirt
  <2>2. Units'
    BY <1>11, UnitFacts, StreamFacts DEF CopyFails, ThreadFails, Data, Units, thread, user, read
  <2>3. Sizes'
    BY <1>11, <1>0, MigrationAssumption DEF CopyFails, ThreadFails, Data, Sizes, Units, thread, user, read
  <2> QED BY <2>1, <2>2, <2>3 DEF Data
<1>12. CASE MessageDone
  <2>1. Marks'
    BY <1>12 DEF MessageDone, Data, Marks, dirt
  <2>2. Units'
    BY <1>12, UnitFacts DEF MessageDone, Data, Units, Marks, Unit, Section, thread, user, read
  <2>3. Sizes'
    BY <1>12, <1>0, MigrationAssumption DEF MessageDone, Data, Sizes, Units, thread, user, read
  <2> QED BY <2>1, <2>2, <2>3 DEF Data
<1>13. CASE Pause
  <2>1. Marks'
    BY <1>13 DEF Pause, Data, Marks, dirt
  <2>2. Units'
    BY <1>13, UnitFacts DEF Pause, Data, Units, Marks, Unit, Section, thread, user, read
  <2>3. Sizes'
    BY <1>13, <1>0, MigrationAssumption DEF Pause, Data, Sizes, Units, thread, user, read
  <2> QED BY <2>1, <2>2, <2>3 DEF Data
<1>14. CASE Publish
  <2>1. Marks'
    BY <1>14 DEF Publish, Data, Marks, dirt
  <2>2. Units'
    BY <1>14, StreamFacts DEF Publish, Data, Units, thread, user, read
  <2>3. Sizes'
    BY <1>14, <1>0, MigrationAssumption DEF Publish, Data, Sizes, Units, thread, user, read
  <2> QED BY <2>1, <2>2, <2>3 DEF Data
<1>15. CASE PreCopy
  <2>1. Marks'
    BY <1>15 DEF PreCopy, Data, Marks, dirt
  <2>2. Units'
    BY <1>15, UnitFacts DEF PreCopy, Data, Units, Marks, Unit, Section, thread, user, read
  <2>3. Sizes'
    BY <1>15, <1>0, MigrationAssumption DEF PreCopy, Data, Sizes, Units, thread, user, read
  <2> QED BY <2>1, <2>2, <2>3 DEF Data
<1>16. CASE PreCopyFails
  <2>1. Marks'
    BY <1>16 DEF PreCopyFails, Data, Marks, dirt
  <2>2. Units'
    BY <1>16, UnitFacts DEF PreCopyFails, Data, Units, Marks, Unit, Section, thread, user, read
  <2>3. Sizes'
    BY <1>16, <1>0, MigrationAssumption DEF PreCopyFails, Data, Sizes, Units, thread, user, read
  <2> QED BY <2>1, <2>2, <2>3 DEF Data
<1>17. CASE AskSize
  <2>1. Marks'
    BY <1>17 DEF AskSize, Data, Marks, dirt
  <2>2. Units'
    BY <1>17, UnitFacts DEF AskSize, Data, Units, Marks, Unit, Section, thread, user, read
  <2>3. Sizes'
    BY <1>17, <1>0, MigrationAssumption DEF AskSize, Data, Sizes, Units, thread, user, read
  <2> QED BY <2>1, <2>2, <2>3 DEF Data
<1>18. CASE StopCopy
  <2>1. Marks'
    BY <1>18 DEF StopCopy, Data, Marks, dirt
  <2>2. Units'
    BY <1>18, UnitFacts DEF StopCopy, Data, Units, Marks, Unit, Section, thread, user, read
  <2>3. Sizes'
    BY <1>18, <1>0, MigrationAssumption DEF StopCopy, Data, Sizes, Units, thread, user, read
  <2> QED BY <2>1, <2>2, <2>3 DEF Data
<1>19. CASE Validate
  <2>1. Marks'
    BY <1>19 DEF Validate, Data, Marks, dirt
  <2>2. Units'
    BY <1>19, UnitFacts DEF Validate, Data, Units, Marks, Unit, Section, thread, user, read
  <2>3. Sizes'
    BY <1>19, <1>0, MigrationAssumption DEF Validate, Data, Sizes, Units, thread, user, read
  <2> QED BY <2>1, <2>2, <2>3 DEF Data
<1>20. CASE Set
  <2>1. Marks'
    BY <1>20 DEF Set, AddWanted, Data, Marks, dirt
  <2>2. Units'
    BY <1>20, UnitFacts DEF Set, AddWanted, Data, Units, Marks, Unit, Section, thread, user, read
  <2>3. Sizes'
    BY <1>20, <1>0, MigrationAssumption DEF Set, AddWanted, Data, Sizes, Units, thread, user, read
  <2> QED BY <2>1, <2>2, <2>3 DEF Data
<1>21. CASE UpdateShadow
  <2>1. Marks'
    BY <1>21 DEF UpdateShadow, QueryDirtybit, QueryFails, Data, Marks, dirt
  <2>2. Units'
    BY <1>21, UnitFacts DEF UpdateShadow, QueryDirtybit, QueryFails, Data, Units, Marks, Unit, Section, thread, user, read
  <2>3. Sizes'
    BY <1>21, <1>0, MigrationAssumption DEF UpdateShadow, QueryDirtybit, QueryFails, Data, Sizes, Units, thread, user, read
  <2> QED BY <2>1, <2>2, <2>3 DEF Data
<1>22. CASE StateSize
  <2>1. Marks'
    BY <1>22 DEF StateSize, QueryDirtybit, QueryFails, Data, Marks, dirt
  <2>2. Units'
    BY <1>22, UnitFacts DEF StateSize, QueryDirtybit, QueryFails, Data, Units, Marks, Unit, Section, thread, user, read
  <2>3. Sizes'
    BY <1>22, <1>0, MigrationAssumption DEF StateSize, QueryDirtybit, QueryFails, Data, Sizes, Units, thread, user, read
  <2> QED BY <2>1, <2>2, <2>3 DEF Data
<1>23. CASE Read
  <2>1. Marks'
    BY <1>23 DEF Read, Data, Marks, dirt
  <2>2. Units'
    BY <1>23, UnitFacts DEF Read, Data, Units, Marks, Unit, Section, thread, user, read
  <2>3. Sizes'
    BY <1>23, <1>0, MigrationAssumption DEF Read, Data, Sizes, Units, thread, user, read
  <2> QED BY <2>1, <2>2, <2>3 DEF Data
<1>24. CASE ReadRing
  <2>1. Marks'
    BY <1>24 DEF ReadRing, Data, Marks, dirt
  <2>2. Units'
    BY <1>24, ReadPasses DEF ReadRing, Data, Units, thread, user, read
  <2>3. Sizes'
    <3>1. took' \in Nat
      BY <1>24, ReadPasses DEF Data, Sizes
    <3> QED BY <1>24, <3>1 DEF ReadRing, Data, Sizes, thread
  <2> QED BY <2>1, <2>2, <2>3 DEF Data
<1>25. CASE ReadReturns
  <2>1. Marks'
    BY <1>25 DEF ReadReturns, Data, Marks, dirt
  <2>2. Units'
    <3>1. Len(ring) \in Nat /\ took + 1 \in Nat
      BY StreamFacts DEF Data, Units, Sizes
    <3>2. SubSeq(ring, took + 1, Len(ring)) \in Seq(Unit)
      BY <3>1, PartFacts DEF Data, Units, Sizes, Taken
    <3> QED BY <1>25, <3>2, StreamFacts DEF ReadReturns, Data, Units, thread, user, read
  <2>3. Sizes'
    BY <1>25, <1>0, MigrationAssumption DEF ReadReturns, Data, Sizes, Units, thread, user, read
  <2> QED BY <2>1, <2>2, <2>3 DEF Data
<1>26. CASE RingEmpty
  <2>1. Marks'
    BY <1>26 DEF RingEmpty, Data, Marks, dirt
  <2>2. Units'
    BY <1>26, UnitFacts DEF RingEmpty, Data, Units, Marks, Unit, Section, thread, user, read
  <2>3. Sizes'
    BY <1>26, <1>0, MigrationAssumption DEF RingEmpty, Data, Sizes, Units, thread, user, read
  <2> QED BY <2>1, <2>2, <2>3 DEF Data
<1>27. CASE ReadMask
  <2>1. Marks'
    BY <1>27 DEF ReadMask, SleepOrTimeOut, Data, Marks, dirt
  <2>2. Units'
    BY <1>27, UnitFacts DEF ReadMask, SleepOrTimeOut, Data, Units, Marks, Unit, Section, thread, user, read
  <2>3. Sizes'
    BY <1>27, <1>0, MigrationAssumption DEF ReadMask, SleepOrTimeOut, Data, Sizes, Units, thread, user, read
  <2> QED BY <2>1, <2>2, <2>3 DEF Data
<1>28. CASE ReadWakes
  <2>1. Marks'
    BY <1>28 DEF ReadWakes, SleepOrTimeOut, Data, Marks, dirt
  <2>2. Units'
    BY <1>28, UnitFacts DEF ReadWakes, SleepOrTimeOut, Data, Units, Marks, Unit, Section, thread, user, read
  <2>3. Sizes'
    BY <1>28, <1>0, MigrationAssumption DEF ReadWakes, SleepOrTimeOut, Data, Sizes, Units, thread, user, read
  <2> QED BY <2>1, <2>2, <2>3 DEF Data
<1>29. CASE Complete
  <2>1. Marks'
    BY <1>29 DEF Complete, FinishCopy, Data, Marks, dirt
  <2>2. Units'
    BY <1>29, UnitFacts DEF Complete, FinishCopy, Data, Units, Marks, Unit, Section, thread, user, read
  <2>3. Sizes'
    BY <1>29, <1>0, MigrationAssumption DEF Complete, FinishCopy, Data, Sizes, Units, thread, user, read
  <2> QED BY <2>1, <2>2, <2>3 DEF Data
<1>30. CASE Release
  <2>1. Marks'
    BY <1>30 DEF Release, FinishCopy, Data, Marks, dirt
  <2>2. Units'
    BY <1>30, UnitFacts DEF Release, FinishCopy, Data, Units, Marks, Unit, Section, thread, user, read
  <2>3. Sizes'
    BY <1>30, <1>0, MigrationAssumption DEF Release, FinishCopy, Data, Sizes, Units, thread, user, read
  <2> QED BY <2>1, <2>2, <2>3 DEF Data
<1>31. CASE Join
  <2>1. Marks'
    BY <1>31 DEF Join, Data, Marks, dirt
  <2>2. Units'
    BY <1>31, UnitFacts, StreamFacts DEF Join, Data, Units, thread, user, read
  <2>3. Sizes'
    BY <1>31, <1>0, MigrationAssumption DEF Join, Data, Sizes, Units, thread, user, read
  <2> QED BY <2>1, <2>2, <2>3 DEF Data
<1>32. CASE GuestInit \/ GpuReset
  <2>1. Marks'
    BY <1>32 DEF GuestInit, GpuReset, StartAnew, Data, Marks
  <2>2. Units'
    BY <1>32 DEF GuestInit, GpuReset, StartAnew, Data, Units, thread, user, read
  <2>3. Sizes'
    BY <1>32, <1>0 DEF GuestInit, GpuReset, StartAnew, Data, Sizes, thread, user, read
  <2> QED BY <2>1, <2>2, <2>3 DEF Data
<1> QED BY <1>w, <1>1, <1>2, <1>3, <1>4, <1>5, <1>6, <1>7, <1>8, <1>9, <1>10, <1>11, <1>12, <1>13, <1>14, <1>15, <1>16, <1>17, <1>18, <1>19, <1>20, <1>21, <1>22, <1>23, <1>24, <1>25, <1>26, <1>27, <1>28, <1>29, <1>30, <1>31, <1>32 DEF Next, CopyThread, User, ReadLoop

-----------------------------------------------------------------------------
(* The ring.                                                               *)

LEMMA RoomStep ==
    ASSUME Data, Room, Taken, Next
    PROVE  Room'
<1>0. /\ ring \in Seq(Unit) /\ buf \in Seq(Unit) /\ msg \in Unit /\ room \in Nat /\ took \in Nat
      /\ Len(ring) \in Nat /\ Len(buf) \in Nat /\ RingSize \in Nat \ {0}
  BY MigrationAssumption, StreamFacts DEF Data, Units, Sizes
<1>1. CASE UNCHANGED <<ring, tpc, room, buf, msg>>
  BY <1>1 DEF Room
<1>2. CASE \/ \E p \in Page : Write(p)
           \/ Flr \/ GuestInit \/ GpuReset \/ PreCopy \/ PreCopyFails \/ AskSize \/ StopCopy \/ Validate \/ Set
           \/ UpdateShadow \/ StateSize \/ Read \/ ReadRing \/ RingEmpty \/ ReadMask \/ ReadWakes
  BY <1>2, <1>1 DEF Write, Flr, GuestInit, GpuReset, StartAnew, PreCopy, PreCopyFails, AskSize, StopCopy, Validate, Set, UpdateShadow,
                    StateSize, Read, ReadRing, RingEmpty, ReadMask, ReadWakes, thread
<1>3. CASE Wake
  <2>1. /\ room' \in 1 .. RingSize - Len(ring) /\ buf' = <<>> /\ ring' = ring
        /\ tpc' \in {"page", "export"}
    BY <1>3 DEF Wake
  <2>2. Len(buf') = 0
    BY <2>1, StreamFacts
  <2> QED BY <2>1, <2>2, <1>0 DEF Room
<1>4. CASE Export
  <2>1. Len(<<msg>>) = 1
    BY <1>0, StreamFacts
  <2> QED BY <1>4, <1>0, <2>1 DEF Export, AfterHeader, Room
<1>5. CASE ExportBitmap \/ SkipSection \/ Clear \/ Collide
  <2>1. /\ tpc # "wait" /\ tpc' \notin {"wait", "page"}
        /\ ring' = ring /\ buf' = buf /\ room' = room
    <3>1. CASE ExportBitmap
      BY <3>1 DEF ExportBitmap
    <3>2. CASE SkipSection
      BY <3>2 DEF SkipSection, AfterSection
    <3>3. CASE Clear
      BY <3>3 DEF Clear, TakeSection, AfterSection
    <3>4. CASE Collide
      BY <3>4 DEF Collide, TakeSection, AfterSection
    <3> QED BY <3>1, <3>2, <3>3, <3>4, <1>5
  <2> QED BY <2>1 DEF Room
<1>6. CASE Seal
  <2>1. PICK u \in Unit : u = msg' /\ buf' = <<u>>
    <3>1. msg' \in Unit
      BY <1>6, <1>0, HeaderFacts DEF Seal
    <3> QED BY <3>1, <1>6 DEF Seal
  <2>2. Len(buf') = 1
    BY <2>1, StreamFacts
  <2> QED BY <1>6, <1>0, <2>2 DEF Seal, AfterHeader, Room
<1>7. CASE CopyPage
  <2>1. Len(buf') = Len(buf) + 1
    <3>1. PICK u \in Unit : buf' = Append(buf, u)
      <4>1. buf' \in Seq(Unit)
        BY <1>7, DataStep DEF Data, Units
      <4>2. msg.bm \subseteq Nat /\ msg.bm \subseteq Page /\ msg.bm # {}
        BY <1>0, <1>7 DEF Unit, Page, CopyPage
      <4>3. Min(msg.bm) \in Page
        BY <4>2, MinFacts
      <4>4. Content(fb[Min(msg.bm)]) \in Unit
        BY <4>3, UnitFacts DEF Data, Marks
      <4> QED BY <4>4, <1>7 DEF CopyPage
    <3> QED BY <3>1, <1>0, StreamFacts
  <2>2. Len(buf) < room /\ tpc # "wait" /\ ring' = ring /\ room' = room
    BY <1>7 DEF CopyPage, Room
  <2>3. tpc' = "publish" \/ (tpc' = "page" /\ (msg'.bm = {} \/ Len(buf') < room))
    BY <1>7 DEF CopyPage
  <2> QED BY <2>1, <2>2, <2>3, <1>0 DEF Room
<1>8. CASE ExportFails \/ CopyFails
  BY <1>8 DEF ExportFails, CopyFails, ThreadFails, Room
<1>9. CASE MessageDone \/ Pause
  BY <1>9 DEF MessageDone, Pause, Room
<1>10. CASE Publish
  <2>1. tpc # "wait" /\ ring' = ring \o buf /\ buf' = <<>> /\ tpc' = "wait"
    BY <1>10 DEF Publish
  <2>2. Len(ring') = Len(ring) + Len(buf)
    BY <2>1, <1>0, StreamFacts
  <2> QED BY <2>1, <2>2, <1>0 DEF Room
<1>11. CASE ReadReturns
  <2>1. Len(ring') = Len(ring) - took
    <3>1. Len(SubSeq(ring, took + 1, Len(ring))) = Len(ring) + 1 - (took + 1)
      BY <1>0, PartFacts DEF Taken
    <3> QED BY <1>11, <3>1, <1>0 DEF ReadReturns
  <2>2. UNCHANGED <<tpc, room, buf, msg>>
    BY <1>11 DEF ReadReturns, thread
  <2> QED BY <2>1, <2>2, <1>0 DEF Room
<1>12. CASE Complete \/ Release
  <2>1. UNCHANGED <<ring, tpc, room, buf>> /\ msg' = Blank
    BY <1>12 DEF Complete, Release, FinishCopy, thread
  <2> QED BY <2>1, UnitFacts DEF Room
<1>13. CASE Join
  <2>1. tpc = "wait" /\ UNCHANGED <<tpc, room, buf>> /\ ring' = <<>>
    BY <1>13 DEF Join, thread
  <2> QED BY <2>1, <1>0, StreamFacts DEF Room
<1> QED BY <1>2, <1>3, <1>4, <1>5, <1>6, <1>7, <1>8, <1>9, <1>10, <1>11, <1>12, <1>13
        DEF Next, CopyThread, User, ReadLoop

LEMMA TakenStep ==
    ASSUME Data, Room, Taken, Next
    PROVE  Taken'
<1>0. ring \in Seq(Unit) /\ buf \in Seq(Unit) /\ took \in Nat /\ Len(ring) \in Nat /\ Len(buf) \in Nat
  BY StreamFacts DEF Data, Units, Sizes
<1>1. CASE \/ \E p \in Page : Write(p)
           \/ Flr \/ GuestInit \/ GpuReset \/ Wake \/ Export \/ ExportBitmap \/ SkipSection \/ ExportFails \/ Clear \/ Seal
           \/ CopyPage \/ CopyFails \/ MessageDone \/ Pause
  <2>1. UNCHANGED <<ring, took, upc>>
    BY <1>1 DEF Write, Flr, GuestInit, GpuReset, StartAnew, Wake, Export, ExportBitmap, SkipSection, ExportFails, Clear, Seal, CopyPage,
                CopyFails, MessageDone, Pause, ThreadFails, user, read
  <2> QED BY <2>1 DEF Taken
<1>2. CASE \/ PreCopy \/ PreCopyFails \/ AskSize \/ StopCopy \/ Validate \/ Set \/ Collide \/ Read
           \/ UpdateShadow \/ StateSize \/ RingEmpty \/ ReadMask \/ ReadWakes \/ Complete \/ Release
  <2>1. UNCHANGED <<ring, took>>
    BY <1>2 DEF PreCopy, PreCopyFails, AskSize, StopCopy, Validate, Set, Collide, Read, UpdateShadow, AddWanted,
                StateSize, RingEmpty, ReadMask, ReadWakes, Complete, Release, user, read
  <2>2. upc # "ring" \/ RingEmpty
    BY <1>2 DEF PreCopy, PreCopyFails, AskSize, StopCopy, Validate, Set, Collide, Read, UpdateShadow, AddWanted,
                StateSize, ReadMask, ReadWakes, Complete, Release
  <2>3. RingEmpty => took = 0
    BY <1>0, StreamFacts DEF RingEmpty, Taken
  <2> QED BY <2>1, <2>2, <2>3 DEF Taken
<1>3. CASE Publish
  <2>1. ring' = ring \o buf /\ UNCHANGED <<took, upc>>
    BY <1>3 DEF Publish, user, read
  <2>2. Len(ring') = Len(ring) + Len(buf)
    BY <2>1, <1>0, StreamFacts
  <2> QED BY <2>1, <2>2, <1>0 DEF Taken
<1>4. CASE ReadRing
  BY <1>4, ReadPasses DEF ReadRing, Taken
<1>5. CASE ReadReturns
  <2>1. took' = 0 /\ ring' \in Seq(Unit)
    BY <1>5, DataStep DEF ReadReturns, Data, Units
  <2>2. Len(ring') \in Nat
    BY <2>1, StreamFacts
  <2> QED BY <2>1, <2>2 DEF Taken
<1>6. CASE Join
  <2>1. took = 0 /\ took' = 0 /\ ring' = <<>>
    BY <1>6 DEF Join, Taken, read
  <2> QED BY <2>1, StreamFacts DEF Taken
<1> QED BY <1>1, <1>2, <1>3, <1>4, <1>5, <1>6 DEF Next, CopyThread, User, ReadLoop

-----------------------------------------------------------------------------
(* Where the VF runs.                                                      *)

\* A mark stays until the end of the attempt, unless the guest initialises
\* the VF, and what was dropped is not forgotten before it is given up.
LEMMA MarkSteps ==
    ASSUME Next
    PROVE  /\ ~Release => lost \subseteq lost'
           /\ abort => abort' \/ "init" \in lost' \/ Complete \/ Release
<1>1. CASE UNCHANGED mark
  BY <1>1 DEF mark
<1>2. CASE \E p \in Page : Write(p)
  BY <1>1, <1>2 DEF Write
<1>3. CASE Flr
  BY <1>3 DEF Flr, AbortCheck
<1>4. CASE GuestInit
  BY <1>4 DEF GuestInit
<1>5. CASE GpuReset
  BY <1>1, <1>5 DEF GpuReset, AbortCheck
<1>6. CASE ExportFails \/ CopyFails
  BY <1>6 DEF ExportFails, CopyFails, ThreadFails, SetAbort
<1>7. CASE CopyThread /\ ~ExportFails /\ ~CopyFails
  BY <1>1, <1>7 DEF CopyThread, Wake, Export, ExportBitmap, SkipSection, Clear, Collide, Seal, CopyPage,
                    MessageDone, Pause, Publish
<1>8. CASE PreCopyFails
  BY <1>8 DEF PreCopyFails, SetAbort
<1>9. CASE StopCopy
  BY <1>1, <1>9 DEF StopCopy, SetAbort
<1>10. CASE Validate
  BY <1>1, <1>10 DEF Validate, SetAbort
<1>11. CASE UpdateShadow \/ StateSize
  <2>1. UNCHANGED mark \/ \E why : SetAbort(why)
    BY <1>11 DEF UpdateShadow, StateSize, QueryDirtybit, QueryFails
  <2> QED BY <2>1, <1>1 DEF SetAbort
<1>12. CASE PreCopy \/ AskSize \/ Set \/ Read \/ ReadLoop \/ Join
  BY <1>1, <1>12 DEF PreCopy, AskSize, Set, Read, ReadLoop, ReadRing, ReadReturns, RingEmpty, ReadMask, ReadWakes, Join
<1>13. CASE Complete \/ Release
  BY <1>13 DEF Complete
<1> QED BY <1>2, <1>3, <1>4, <1>5, <1>6, <1>7, <1>8, <1>9, <1>10, <1>11, <1>12, <1>13 DEF Next, User

\* The user's steps, and what each of them does to the marks of the VF.
LEMMA HaltedStep ==
    ASSUME Halted, Next
    PROVE  Halted'
<1>0. /\ ~Release => (Slipped => Slipped')
      /\ ~Complete /\ ~Release => (abort => abort' \/ Slipped')
  BY MarkSteps DEF Slipped, Marked
<1>1. CASE \/ \E p \in Page : Write(p)
           \/ Flr \/ GuestInit \/ GpuReset \/ (CopyThread /\ ~Collide)
  <2>1. UNCHANGED <<dev, upc, running, tdev>>
    BY <1>1 DEF Write, Flr, GuestInit, GpuReset, StartAnew, CopyThread, Wake, Export, ExportBitmap, SkipSection,
                Clear, Seal, CopyPage, MessageDone, Pause, Publish, ExportFails, CopyFails, ThreadFails, user, remote
  <2>2. ~Complete /\ ~Release
    BY <2>1 DEF Complete, Release
  <2> QED BY <1>0, <2>1, <2>2 DEF Halted
<1>2. CASE AskSize \/ Validate \/ Set \/ Collide \/ UpdateShadow \/ StateSize
  <2>1. UNCHANGED <<dev, running, tdev>>
    BY <1>2 DEF AskSize, Validate, Set, Collide, UpdateShadow, StateSize, remote
  <2>2. upc # "gone" /\ upc' \notin {"ring", "mask", "wake", "eof", "gone", "join"}
    BY <1>2 DEF AskSize, Validate, Set, Collide, AddWanted, UpdateShadow, StateSize
  <2>3. ~Complete /\ ~Release
    BY <2>1, <2>2 DEF Complete, Release
  <2> QED BY <1>0, <2>1, <2>2, <2>3 DEF Halted
<1>3. CASE PreCopy \/ PreCopyFails
  BY <1>3 DEF PreCopy, PreCopyFails, Halted, user, remote
<1>4. CASE StopCopy
  <2>1. dev' = "STOP_COPY" /\ UNCHANGED tdev /\ upc = "idle" /\ upc' \in {"idle", "validate"}
    BY <1>4 DEF StopCopy, remote
  <2>2. ~running' \/ abort' \/ Slipped'
    BY <1>4 DEF StopCopy, SetAbort, Slipped, Marked
  <2> QED BY <2>1, <2>2 DEF Halted
<1>5. CASE Read
  <2>1. UNCHANGED <<dev, running, tdev, abort, lost>> /\ upc = "idle" /\ upc' \in {"ring", "failed"}
    BY <1>5 DEF Read, remote, mark
  <2>2. upc' = "ring" => ~abort
    BY <1>5 DEF Read
  <2>3. Slipped' = Slipped
    BY <2>1 DEF Slipped, Marked
  <2> QED BY <2>1, <2>2, <2>3 DEF Halted
<1>6. CASE ReadLoop
  <2>1. /\ UNCHANGED <<dev, running, abort, lost, tdev>> /\ upc \in {"ring", "mask", "wake"}
        /\ upc' = "eof" => dev = "STOP_COPY"
    BY <1>6 DEF ReadLoop, ReadRing, ReadReturns, RingEmpty, ReadMask, ReadWakes, SleepOrTimeOut, remote, mark
  <2>2. Slipped' = Slipped
    BY <2>1 DEF Slipped, Marked
  <2> QED BY <2>1, <2>2 DEF Halted
<1>7. CASE Complete
  <2>1. upc = "eof" /\ upc' = "gone" /\ dev' = "STOP" /\ lost' = lost /\ (running' = running \/ ~running')
    BY <1>7 DEF Complete
  <2>2. Slipped' = Slipped
    BY <2>1 DEF Slipped, Marked
  <2> QED BY <2>1, <2>2 DEF Halted
<1>8. CASE Release
  BY <1>8 DEF Release, Halted
<1>9. CASE Join
  BY <1>0, <1>9 DEF Join, Halted, remote, Complete, Release
<1> QED BY <1>1, <1>2, <1>3, <1>4, <1>5, <1>6, <1>7, <1>8, <1>9 DEF Next, User

-----------------------------------------------------------------------------
(* The marks of the pages.                                                 *)

LEMMA MarkedStep ==
    ASSUME Data, WrittenIsMarked, Next
    PROVE  WrittenIsMarked'
<1>1. CASE UNCHANGED <<fb, dbit, acc>>
  BY <1>1 DEF WrittenIsMarked
<1>2. ASSUME NEW p \in Page, Write(p) PROVE WrittenIsMarked'
  <2>1. fb' = [fb EXCEPT ![p] = used'.write] /\ dbit' = dbit \cup {p} /\ acc' = acc
    BY <1>2 DEF Write
  <2> QED BY <2>1 DEF WrittenIsMarked, Data, Marks
<1>3. CASE Flr \/ GuestInit \/ GpuReset
  BY <1>3 DEF Flr, GuestInit, GpuReset, StartAnew, WrittenIsMarked
<1>4. CASE UpdateShadow \/ StateSize
  BY <1>4 DEF UpdateShadow, StateSize, QueryDirtybit, QueryFails, dirt, WrittenIsMarked
<1>5. CASE CopyThread
  BY <1>5, <1>1 DEF CopyThread, Wake, Export, ExportBitmap, SkipSection, ExportFails, Clear, Collide, Seal,
                    CopyPage, CopyFails, MessageDone, Pause, Publish, ThreadFails, dirt
<1>6. CASE \/ PreCopy \/ PreCopyFails \/ AskSize \/ StopCopy \/ Validate \/ Set \/ Read \/ ReadLoop
           \/ Complete \/ Release \/ Join
  BY <1>6, <1>1 DEF PreCopy, PreCopyFails, AskSize, StopCopy, Validate, Set, Read, ReadLoop, ReadRing,
                    ReadReturns, RingEmpty, ReadMask, ReadWakes, Complete, Release, Join, dirt
<1> QED BY <1>2, <1>3, <1>4, <1>5, <1>6 DEF Next, User

-----------------------------------------------------------------------------
(* What the target imports.  The library's fold is the recursive function  *)
(* on the sets of positions that takes the last position off; that there   *)
(* is one, and what it is, is shown by least counterexample.               *)

Imported(t, s) == FoldLeft(Import, t, s)

\* g is that function, for the first n positions.
IsFold(g, t, s, n) ==
    g = [x \in SUBSET (1 .. n) |->
           IF x = {} THEN t ELSE Import(g[x \ {Max(x)}], s[Max(x)])]

LEMMA FoldExists ==
    ASSUME NEW t, NEW s, NEW n \in Nat
    PROVE  \E g : IsFold(g, t, s, n)
<1> DEFINE S == {m \in Nat : ~ \E g : IsFold(g, t, s, m)}
<1> SUFFICES ASSUME S # {} PROVE FALSE
  OBVIOUS
<1>1. PICK m \in Nat : m \in S /\ \A k \in Nat : k < m => k \notin S
  <2>1. Min(S) \in S /\ \A y \in S : Min(S) <= y
    BY MinFacts
  <2>2. S \subseteq Nat
    OBVIOUS
  <2> HIDE DEF S
  <2>3. PICK m \in Nat : m \in S /\ \A y \in S : m <= y
    BY <2>1, <2>2, Zenon
  <2> QED BY <2>3, <2>2
<1>2. m # 0
  <2>1. SUBSET (1 .. 0) = {{}}
    OBVIOUS
  <2>2. IsFold([x \in SUBSET (1 .. 0) |-> t], t, s, 0)
    BY <2>1 DEF IsFold
  <2> QED BY <2>2, <1>1
<1>3. PICK j \in Nat : m = j + 1
  <2>1. m - 1 \in Nat /\ m = (m - 1) + 1
    BY <1>2
  <2> QED BY <2>1, Zenon
<1>4. PICK g : IsFold(g, t, s, j)
  BY <1>1, <1>3
<1>5. PICK h : h = [x \in SUBSET (1 .. m) |-> IF m \in x THEN Import(g[x \ {m}], s[m]) ELSE g[x]]
  OBVIOUS
<1>6. ASSUME NEW x \in SUBSET (1 .. m)
      PROVE  h[x] = IF x = {} THEN t ELSE Import(h[x \ {Max(x)}], s[Max(x)])
  <2>1. CASE m \in x
    <3>1. Max(x) = m
      <4>1. x \subseteq Nat /\ \A y \in x : y <= m
        OBVIOUS
      <4> QED BY <4>1, <2>1, MaxIs
    <3>2. x \ {m} \in SUBSET (1 .. m) /\ m \notin x \ {m}
      OBVIOUS
    <3>3. h[x \ {m}] = g[x \ {m}]
      BY <3>2, <1>5
    <3>4. h[x] = Import(g[x \ {m}], s[m])
      BY <2>1, <1>5
    <3> QED BY <3>1, <3>3, <3>4, <2>1
  <2>2. CASE m \notin x
    <3>1. x \in SUBSET (1 .. j) /\ h[x] = g[x]
      BY <2>2, <1>3, <1>5
    <3>2. g[x] = IF x = {} THEN t ELSE Import(g[x \ {Max(x)}], s[Max(x)])
      BY <3>1, <1>4 DEF IsFold
    <3>3. x \ {Max(x)} \in SUBSET (1 .. m) /\ m \notin x \ {Max(x)}
      BY <2>2
    <3>4. h[x \ {Max(x)}] = g[x \ {Max(x)}]
      BY <3>3, <1>5
    <3> QED BY <3>1, <3>2, <3>4
  <2> QED BY <2>1, <2>2
<1>7. h = [x \in SUBSET (1 .. m) |-> IF x = {} THEN t ELSE Import(h[x \ {Max(x)}], s[Max(x)])]
  BY <1>5, <1>6
<1> QED BY <1>7, <1>1 DEF IsFold

\* F holds what there is after each unit.
IsRun(F, t, s) ==
    /\ F[0] = t
    /\ \A i \in 1 .. Len(s) : F[i] = Import(F[i - 1], s[i])

\* The fold is the end of a run.
LEMMA FoldRuns ==
    ASSUME NEW t, NEW s \in Seq(Unit)
    PROVE  \E F : IsRun(F, t, s) /\ Imported(t, s) = F[Len(s)]
<1>1. PICK n \in Nat : n = Len(s) /\ DOMAIN s = 1 .. n
  BY LenProperties
<1>2. PICK g : g = CHOOSE f : IsFold(f, t, s, n)
  OBVIOUS
<1>3. IsFold(g, t, s, n)
  BY <1>2, FoldExists
<1>4. Imported(t, s) = g[1 .. n]
  BY <1>1, <1>2 DEF Imported, FoldLeft, MapThenFoldSet, IsFold
<1>5. PICK F : F = [i \in 0 .. n |-> g[1 .. i]]
  OBVIOUS
<1>6. F[0] = t
  <2>1. 1 .. 0 = {} /\ {} \in SUBSET (1 .. n) /\ 0 \in 0 .. n
    OBVIOUS
  <2>2. g[{}] = t
    BY <2>1, <1>3 DEF IsFold
  <2> QED BY <2>1, <2>2, <1>5
<1>7. ASSUME NEW i \in 1 .. n PROVE F[i] = Import(F[i - 1], s[i])
  <2>1. Max(1 .. i) = i
    <3>1. 1 .. i \subseteq Nat /\ i \in 1 .. i /\ \A y \in 1 .. i : y <= i
      OBVIOUS
    <3> QED BY <3>1, MaxIs
  <2>2. (1 .. i) \ {i} = 1 .. (i - 1) /\ 1 .. i \in SUBSET (1 .. n) /\ 1 .. i # {}
    <3>1. 1 \in 1 .. i
      OBVIOUS
    <3>2. (1 .. i) \ {i} = 1 .. (i - 1)
      OBVIOUS
    <3>3. 1 .. i \in SUBSET (1 .. n)
      OBVIOUS
    <3> QED BY <3>1, <3>2, <3>3
  <2>3. g[1 .. i] = Import(g[(1 .. i) \ {i}], s[i])
    BY <2>1, <2>2, <1>3 DEF IsFold
  <2>4. i \in 0 .. n /\ i - 1 \in 0 .. n
    OBVIOUS
  <2> QED BY <2>2, <2>3, <2>4, <1>5
<1>8. F[n] = g[1 .. n]
  BY <1>5
<1> QED BY <1>1, <1>4, <1>6, <1>7, <1>8 DEF IsRun

\* Two runs agree as long as what they import does.
LEMMA RunsAgree ==
    ASSUME NEW t, NEW s \in Seq(Unit), NEW r \in Seq(Unit), NEW F, NEW G, IsRun(F, t, s), IsRun(G, t, r),
           NEW k \in Nat, k <= Len(s), k <= Len(r), \A i \in 1 .. k : s[i] = r[i]
    PROVE  \A i \in 0 .. k : F[i] = G[i]
<1> DEFINE S == {i \in Nat : i <= k /\ F[i] # G[i]}
<1> SUFFICES ASSUME S # {} PROVE FALSE
  OBVIOUS
<1>1. Min(S) \in S /\ \A y \in S : Min(S) <= y
  BY MinFacts
<1>2. PICK m \in Nat : m \in S /\ \A y \in S : m <= y
  BY <1>1, Zenon
<1>3. m # 0
  BY <1>2 DEF IsRun
<1>4. m - 1 \in Nat /\ m - 1 <= k /\ m - 1 \notin S
  BY <1>2, <1>3
<1>5. F[m - 1] = G[m - 1]
  BY <1>4
<1>6. m \in 1 .. Len(s) /\ m \in 1 .. Len(r) /\ s[m] = r[m]
  BY <1>2, <1>3
<1>7. F[m] = G[m]
  BY <1>5, <1>6 DEF IsRun
<1> QED BY <1>2, <1>7

LEMMA ImportedIs ==
    ASSUME NEW t, NEW s \in Seq(Unit), NEW F, IsRun(F, t, s)
    PROVE  Imported(t, s) = F[Len(s)]
<1>1. PICK G : IsRun(G, t, s) /\ Imported(t, s) = G[Len(s)]
  BY FoldRuns
<1>2. Len(s) \in Nat /\ Len(s) \in 0 .. Len(s)
  BY LenProperties
<1>3. F[Len(s)] = G[Len(s)]
  <2>1. PICK k \in Nat : k = Len(s)
    BY <1>2, Zenon
  <2>2. k <= Len(s) /\ k \in 0 .. k /\ \A i \in 1 .. k : s[i] = s[i]
    BY <2>1
  <2>3. \A i \in 0 .. k : F[i] = G[i]
    BY <2>2, <1>1, RunsAgree
  <2> QED BY <2>1, <2>2, <2>3
<1> QED BY <1>1, <1>3

\* Importing nothing, and importing one unit.
LEMMA ImportedOne ==
    ASSUME NEW t
    PROVE  /\ Imported(t, <<>>) = t
           /\ \A u \in Unit : Imported(t, <<u>>) = Import(t, u)
<1>1. Imported(t, <<>>) = t
  <2>1. PICK s \in Seq(Unit) : s = <<>> /\ Len(s) = 0
    <3>1. <<>> \in Seq(Unit) /\ Len(<<>>) = 0
      OBVIOUS
    <3> QED BY <3>1, Zenon
  <2>2. PICK F : IsRun(F, t, s) /\ Imported(t, s) = F[Len(s)]
    BY FoldRuns
  <2> QED BY <2>1, <2>2 DEF IsRun
<1>2. ASSUME NEW u \in Unit PROVE Imported(t, <<u>>) = Import(t, u)
  <2>1. PICK s \in Seq(Unit) : s = <<u>> /\ Len(s) = 1 /\ s[1] = u
    <3>1. <<u>> \in Seq(Unit) /\ Len(<<u>>) = 1 /\ <<u>>[1] = u
      OBVIOUS
    <3> QED BY <3>1, Zenon
  <2>2. PICK F : IsRun(F, t, s) /\ Imported(t, s) = F[Len(s)]
    BY FoldRuns
  <2>3. F[1] = Import(F[0], s[1]) /\ F[0] = t
    BY <2>1, <2>2 DEF IsRun
  <2> QED BY <2>1, <2>2, <2>3
<1> QED BY <1>1, <1>2

\* What is sent in two parts is imported in two parts.
LEMMA ImportedConcat ==
    ASSUME NEW t, NEW a \in Seq(Unit), NEW b \in Seq(Unit)
    PROVE  Imported(t, a \o b) = Imported(Imported(t, a), b)
<1>1. PICK c \in Seq(Unit), m \in Nat, n \in Nat :
        /\ c = a \o b /\ m = Len(a) /\ n = Len(b) /\ Len(c) = m + n
        /\ \A i \in 1 .. m : c[i] = a[i]
        /\ \A i \in 1 .. n : c[m + i] = b[i]
  <2>1. a \o b \in Seq(Unit) /\ Len(a) \in Nat /\ Len(b) \in Nat /\ Len(a \o b) = Len(a) + Len(b)
    BY ConcatProperties, LenProperties
  <2>2. \A i \in 1 .. Len(a) : (a \o b)[i] = a[i]
    OBVIOUS
  <2>3. \A i \in 1 .. Len(b) : (a \o b)[Len(a) + i] = b[i]
    OBVIOUS
  <2> QED BY <2>1, <2>2, <2>3, Zenon
<1>2. PICK F : IsRun(F, t, c) /\ Imported(t, c) = F[m + n]
  <2>1. \E F : IsRun(F, t, c) /\ Imported(t, c) = F[Len(c)]
    BY FoldRuns
  <2> QED BY <2>1, <1>1, Zenon
<1>3. IsRun(F, t, a)
  <2>1. ASSUME NEW i \in 1 .. m PROVE F[i] = Import(F[i - 1], a[i])
    <3>1. i \in 1 .. Len(c) /\ c[i] = a[i]
      BY <1>1
    <3> QED BY <3>1, <1>2 DEF IsRun
  <2> QED BY <2>1, <1>1, <1>2 DEF IsRun
<1>4. Imported(t, a) = F[m]
  BY <1>1, <1>3, ImportedIs
<1>5. PICK G : G = [i \in 0 .. n |-> F[m + i]]
  OBVIOUS
<1>6. IsRun(G, F[m], b)
  <2>1. G[0] = F[m]
    BY <1>5
  <2>2. ASSUME NEW i \in 1 .. n PROVE G[i] = Import(G[i - 1], b[i])
    <3>1. m + i \in 1 .. Len(c) /\ c[m + i] = b[i] /\ (m + i) - 1 = m + (i - 1)
      BY <1>1
    <3>2. F[m + i] = Import(F[(m + i) - 1], c[m + i])
      BY <3>1, <1>2 DEF IsRun
    <3>3. G[i] = F[m + i] /\ G[i - 1] = F[m + (i - 1)]
      BY <1>5
    <3> QED BY <3>1, <3>2, <3>3
  <2> QED BY <2>1, <2>2, <1>1 DEF IsRun
<1>7. G[n] = F[m + n]
  BY <1>5
<1>8. Imported(F[m], b) = G[n]
  BY <1>1, <1>6, ImportedIs
<1> QED BY <1>1, <1>2, <1>4, <1>7, <1>8

LEMMA TargetFacts ==
    /\ Target(Fresh) /\ Fresh.bm = {} /\ Fresh.ok /\ ~Fresh.gap
    /\ \A p \in Page : Fresh.fb[p] = 0
    /\ \A g \in BOOLEAN : Target(Failed(g)) /\ ~Failed(g).ok /\ Failed(g).gap = g
<1>1. /\ Target(Fresh) /\ Fresh.bm = {} /\ Fresh.ok /\ ~Fresh.gap
      /\ \A p \in Page : Fresh.fb[p] = 0
  BY DEF Target, Fresh
<1>2. ASSUME NEW g \in BOOLEAN PROVE Target(Failed(g)) /\ ~Failed(g).ok /\ Failed(g).gap = g
  <2>1. PICK x : x = [fb |-> [p \in Page |-> 0], bm |-> {}, copied |-> {}, ok |-> FALSE, gap |-> g]
    OBVIOUS
  <2>2. Failed(g) = x
    <3>1. PICK y : y = [Fresh EXCEPT !.ok = FALSE]
      OBVIOUS
    <3>2. y = [fb |-> [p \in Page |-> 0], bm |-> {}, copied |-> {}, ok |-> FALSE, gap |-> FALSE]
      BY <3>1 DEF Fresh
    <3>3. Failed(g) = [y EXCEPT !.gap = g]
      BY <3>1 DEF Failed
    <3> QED BY <2>1, <3>2, <3>3
  <2> QED BY <2>1, <2>2 DEF Target
<1> QED BY <1>1, <1>2

\* The two ways a unit is imported.
LEMMA ImportPage ==
    ASSUME NEW t, Target(t), NEW u \in Unit, t.ok, t.bm # {}
    PROVE  /\ Target(Import(t, u)) /\ Import(t, u).ok = t.ok /\ Import(t, u).gap = t.gap
           /\ Import(t, u).bm = t.bm \ {Min(t.bm)}
           /\ Min(t.bm) \in Page
           /\ Import(t, u).fb = [t.fb EXCEPT ![Min(t.bm)] = u.v]
<1>1. PICK p \in Page : p = Min(t.bm)
  <2>1. t.bm \subseteq Nat /\ t.bm \subseteq Page
    BY DEF Target, Page
  <2> QED BY <2>1, MinFacts
<1>2. Import(t, u) = [t EXCEPT !.fb[Min(t.bm)] = u.v, !.bm = @ \ {Min(@)}]
  BY DEF Import
<1>3. PICK x : x = [t EXCEPT !.fb[p] = u.v, !.bm = @ \ {p}]
  OBVIOUS
<1>4. Import(t, u) = x
  BY <1>1, <1>2, <1>3, Zenon
<1>5. x = [fb |-> [t.fb EXCEPT ![p] = u.v], bm |-> t.bm \ {p}, copied |-> t.copied, ok |-> t.ok, gap |-> t.gap]
  BY <1>3 DEF Target
<1>6. [t.fb EXCEPT ![p] = u.v] \in [Page -> Nat] /\ t.bm \ {p} \subseteq Page
  BY DEF Target, Unit
<1>7. Target(x)
  BY <1>5, <1>6 DEF Target
<1> QED BY <1>1, <1>4, <1>5, <1>7

LEMMA ImportHeader ==
    ASSUME NEW t, Target(t), NEW u \in Unit, t.ok, t.bm = {}
    PROVE  /\ Target(Import(t, u)) /\ Import(t, u).gap = t.gap
           /\ \/ ~Import(t, u).ok
              \/ u.ver = 1 /\ Import(t, u).bm = u.bm /\ Import(t, u).fb = t.fb
<1>1. CASE u.ver = 1 /\ u.secs \cap t.copied \cap {"STATIC", "DYNAMIC"} = {}
  <2>1. Import(t, u) = [t EXCEPT !.copied = @ \cup u.secs, !.bm = u.bm]
    BY <1>1 DEF Import
  <2>2. PICK x : x = [fb |-> t.fb, bm |-> u.bm, copied |-> t.copied \cup u.secs, ok |-> t.ok, gap |-> t.gap]
    OBVIOUS
  <2>3. Import(t, u) = x
    BY <2>1, <2>2 DEF Target
  <2>4. Target(x)
    BY <2>2 DEF Target, Unit
  <2> QED BY <1>1, <2>2, <2>3, <2>4
<1>2. CASE ~(u.ver = 1 /\ u.secs \cap t.copied \cap {"STATIC", "DYNAMIC"} = {})
  <2>1. Import(t, u) = Failed(t.gap) /\ t.gap \in BOOLEAN
    BY <1>2, Zenon DEF Import, Target
  <2> QED BY <2>1, TargetFacts
<1> QED BY <1>1, <1>2

\* A target that has failed imports nothing; the gap is no matter of the import.
LEMMA ImportKeeps ==
    ASSUME NEW t, Target(t), NEW u \in Unit
    PROVE  /\ Target(Import(t, u)) /\ Import(t, u).gap = t.gap
           /\ ~t.ok => Import(t, u) = t
<1>1. CASE ~t.ok
  BY <1>1 DEF Import
<1>2. CASE t.ok /\ t.bm # {}
  BY <1>2, ImportPage
<1>3. CASE t.ok /\ t.bm = {}
  BY <1>3, ImportHeader
<1> QED BY <1>1, <1>2, <1>3

LEMMA ImportedKeeps ==
    ASSUME NEW t, Target(t), NEW s \in Seq(Unit)
    PROVE  /\ Target(Imported(t, s)) /\ Imported(t, s).gap = t.gap
           /\ ~t.ok => Imported(t, s) = t
<1>1. PICK F : IsRun(F, t, s) /\ Imported(t, s) = F[Len(s)]
  BY FoldRuns
<1>2. Len(s) \in Nat
  BY LenProperties
<1> DEFINE Kept(x) == Target(x) /\ x.gap = t.gap /\ (~t.ok => x = t)
           S == {i \in Nat : i <= Len(s) /\ ~Kept(F[i])}
<1>3. S = {}
  <2> SUFFICES ASSUME S # {} PROVE FALSE
    OBVIOUS
  <2>1. Min(S) \in S /\ \A y \in S : Min(S) <= y
    BY MinFacts
  <2>2. PICK m \in Nat : m \in S /\ \A y \in S : m <= y
    BY <2>1, Zenon
  <2>3. m # 0
    BY <1>1, <2>2 DEF IsRun
  <2>4. m - 1 \in Nat /\ m - 1 <= Len(s) /\ m - 1 \notin S
    BY <1>2, <2>2, <2>3
  <2>5. Kept(F[m - 1])
    BY <2>4
  <2>6. m \in 1 .. Len(s) /\ s[m] \in Unit
    BY <1>2, <2>2, <2>3
  <2>7. F[m] = Import(F[m - 1], s[m])
    BY <1>1, <2>6 DEF IsRun
  <2>8. Kept(F[m])
    <3>1. PICK x : x = F[m - 1]
      OBVIOUS
    <3>2. Kept(x) /\ F[m] = Import(x, s[m])
      BY <2>5, <2>7, <3>1
    <3> QED BY <3>2, <2>6, ImportKeeps
  <2> QED BY <2>2, <2>8
<1>4. Kept(F[Len(s)])
  BY <1>2, <1>3
<1> QED BY <1>1, <1>4

-----------------------------------------------------------------------------
(* The phases of a migration, the message and the read.                    *)

LEMMA PhaseStep ==
    ASSUME Phase, Halted, Next
    PROVE  Phase'
<1>1. CASE \/ \E p \in Page : Write(p)
           \/ Flr \/ GuestInit \/ GpuReset \/ PreCopyFails \/ Validate \/ Set \/ UpdateShadow \/ StateSize
  <2>1. UNCHANGED <<dev, state, ring, tpc, msg>>
    BY <1>1 DEF Write, Flr, GuestInit, GpuReset, StartAnew, PreCopyFails, Validate, Set, UpdateShadow, StateSize, thread
  <2>2. mig' = mig \/ (dev = "RUNNING" /\ mig' = "PRE_COPY")
    BY <1>1 DEF Write, Flr, GuestInit, GpuReset, StartAnew, PreCopyFails, SetMigState, Refused, Validate, Set,
                UpdateShadow, StateSize
  <2>3. upc' = upc \/ (upc' \notin {"ring", "mask", "wake", "join"} /\ upc # "join")
    BY <1>1 DEF Write, Flr, GuestInit, GpuReset, StartAnew, PreCopyFails, Validate, Set, AddWanted, UpdateShadow, StateSize, user
  <2> QED BY <2>1, <2>2, <2>3 DEF Phase
<1>2. CASE Wake
  BY <1>2 DEF Wake, Phase, user
<1>3. CASE CopyThread /\ ~Wake
  <2>1. tpc # "wait" /\ UNCHANGED <<dev, mig>> /\ (state' = state \/ state' \in {"ABNORMAL", "PAUSED"})
    <3>1. CASE Export \/ ExportBitmap \/ SkipSection \/ Clear \/ Collide \/ Seal \/ CopyPage \/ MessageDone \/ Publish
      BY <3>1 DEF Export, ExportBitmap, SkipSection, Clear, Collide, TakeSection, Seal, CopyPage, MessageDone, Publish
    <3>2. CASE ExportFails \/ CopyFails \/ Pause
      BY <3>2 DEF ExportFails, CopyFails, ThreadFails, Pause
    <3> QED BY <1>3, <3>1, <3>2 DEF CopyThread
  <2>2. upc' = upc \/ (upc' \notin {"ring", "mask", "wake", "join"} /\ upc # "join")
    <3>1. CASE Collide
      BY <3>1 DEF Collide, AddWanted
    <3>2. CASE ~Collide
      BY <1>3, <3>2 DEF CopyThread, Export, ExportBitmap, SkipSection, Clear, Seal, CopyPage, MessageDone, Publish,
                        ExportFails, CopyFails, ThreadFails, Pause, user
    <3> QED BY <3>1, <3>2
  <2> QED BY <2>1, <2>2 DEF Phase
<1>4. CASE PreCopy
  BY <1>4 DEF PreCopy, SetMigState, Phase, user, thread
<1>5. CASE AskSize \/ Read
  BY <1>5 DEF AskSize, Read, Phase, thread
<1>6. CASE StopCopy
  BY <1>6 DEF StopCopy, SetMigState, Refused, Phase, thread
<1>7. CASE ReadRing \/ ReadReturns \/ RingEmpty \/ ReadMask \/ ReadWakes
  <2>1. dev' = dev /\ mig' = mig /\ upc \in {"ring", "mask", "wake"} /\ upc' # "join"
    BY <1>7 DEF ReadRing, ReadReturns, RingEmpty, ReadMask, ReadWakes, SleepOrTimeOut
  <2> QED BY <2>1 DEF Phase
<1>8. CASE Complete
  BY <1>8 DEF Complete, Phase
<1>9. CASE Release
  BY <1>9 DEF Release, FinishCopy, Phase
<1>10. CASE Join
  BY <1>10 DEF Join, Phase, thread
<1> QED BY <1>1, <1>2, <1>3, <1>4, <1>5, <1>6, <1>7, <1>8, <1>9, <1>10 DEF Next, User, ReadLoop

\* A migration without a failure had none before.
LEMMA AliveBefore ==
    ASSUME Phase, Next, Alive'
    PROVE  Alive \/ PreCopy
<1>0. ~Complete /\ ~Release
  BY DEF Complete, Release, Alive
<1>1. ~abort /\ Marked({"query", "thread"})
  BY <1>0, MarkSteps DEF Alive, Marked
<1>2. PreCopy \/ (dev \in {"PRE_COPY", "STOP_COPY"} /\ (upc = "failed" => upc' = "failed"))
  <2>1. CASE \/ \E p \in Page : Write(p)
             \/ Flr \/ GuestInit \/ GpuReset
    <3>1. UNCHANGED <<dev, upc>>
      BY <2>1 DEF Write, Flr, GuestInit, GpuReset, StartAnew, user
    <3> QED BY <3>1 DEF Alive
  <2>2. CASE CopyThread
    <3>1. dev' = dev /\ (upc' = upc \/ upc \in {"set", "setBitmap"})
      BY <2>2 DEF CopyThread, Wake, Export, ExportBitmap, SkipSection, Clear, Collide, AddWanted, Seal, CopyPage,
                  MessageDone, Publish, ExportFails, CopyFails, ThreadFails, Pause, user
    <3> QED BY <3>1 DEF Alive
  <2>3. CASE AskSize \/ Validate \/ Set \/ UpdateShadow \/ StateSize \/ Read \/ ReadLoop \/ Join \/ PreCopyFails
    <3>1. dev' = dev /\ upc # "failed"
      BY <2>3 DEF AskSize, Validate, Set, AddWanted, UpdateShadow, StateSize, Read, ReadLoop,
                  ReadRing, ReadReturns, RingEmpty, ReadMask, ReadWakes, Join, PreCopyFails
    <3> QED BY <3>1 DEF Alive
  <2>4. CASE StopCopy
    BY <2>4 DEF StopCopy
  <2> QED BY <1>0, <2>1, <2>2, <2>3, <2>4 DEF Next, User
<1> QED BY <1>1, <1>2 DEF Alive

LEMMA HeldStep ==
    ASSUME Data, Phase, Held, Next
    PROVE  Held'
<1>0. Alive' => Alive \/ PreCopy
  BY AliveBefore
<1>1. CASE PreCopy
  <2>1. UNCHANGED <<tpc, buf, mid, msg>> /\ dev = "RUNNING" /\ upc = "idle"
    BY <1>1 DEF PreCopy, thread
  <2> QED BY <2>1 DEF Phase, Held, Building
<1>2. CASE ~PreCopy /\ UNCHANGED <<tpc, buf, mid, msg>>
  BY <1>0, <1>2 DEF Held
<1>3. CASE \/ \E p \in Page : Write(p)
           \/ Flr \/ GuestInit \/ GpuReset \/ PreCopyFails \/ AskSize \/ StopCopy \/ Validate \/ Set \/ UpdateShadow \/ StateSize
           \/ Read \/ ReadRing \/ ReadReturns \/ RingEmpty \/ ReadMask \/ ReadWakes
  <2>1. UNCHANGED <<tpc, buf, mid, msg>>
    BY <1>3 DEF Write, Flr, GuestInit, GpuReset, StartAnew, PreCopyFails, AskSize, StopCopy, Validate, Set, UpdateShadow, StateSize,
                Read, ReadRing, ReadReturns, RingEmpty, ReadMask, ReadWakes, thread
  <2> QED BY <2>1, <1>1, <1>2
<1>4. CASE Wake
  <2>1. /\ tpc = "wait" /\ buf' = <<>> /\ msg' = msg
        /\ tpc' = "page" \/ (~mid /\ tpc' = "export")
    BY <1>4 DEF Wake
  <2>2. ~PreCopy
    BY <1>4 DEF PreCopy, Wake, thread
  <2> QED BY <2>1, <2>2, <1>0 DEF Held, Building
<1>5. CASE ~PreCopy /\ Export
  <2>1. msg' = msg /\ tpc = "export" /\ (tpc' \in {"page", "publish"} \/ (tpc' = "STATIC" /\ buf' = buf))
    BY <1>5 DEF Export, AfterHeader
  <2>2. tpc' = "STATIC" /\ Alive => msg.bm = {}
    BY <2>1, UnitFacts DEF Held
  <2> QED BY <2>1, <2>2, <1>0, <1>5 DEF Held, Building
<1>6. CASE ExportBitmap
  BY <1>6 DEF ExportBitmap, Held, Building
<1>7. CASE ~PreCopy /\ SkipSection
  <2>1. msg' = msg /\ buf' = buf /\ tpc \in {"STATIC", "DYNAMIC", "BITMAP"} /\ tpc' \in {"DYNAMIC", "BITMAP", "seal"}
    BY <1>7 DEF SkipSection, AfterSection
  <2> QED BY <2>1, <1>0, <1>7 DEF Held, Building
<1>8. CASE ~PreCopy /\ (Clear \/ Collide)
  <2>1. PICK b \in {"STATIC", "DYNAMIC", "BITMAP"} : TakeSection(b)
    BY <1>8 DEF Clear, Collide
  <2>2. buf' = buf
    BY <2>1 DEF TakeSection
  <2>3. \/ tpc \in {"STATIC", "DYNAMIC"} /\ tpc' \in {"DYNAMIC", "BITMAP"} /\ msg' = [msg EXCEPT !.secs = @ \cup {b}]
        \/ tpc = "clear" /\ tpc' = "seal"
    BY <2>1 DEF TakeSection, AfterSection
  <2>4. [msg EXCEPT !.secs = @ \cup {b}].bm = msg.bm
    BY DEF Data, Units, Unit
  <2> QED BY <2>2, <2>3, <2>4, <1>0, <1>8 DEF Held, Building
<1>9. CASE Seal \/ CopyPage
  <2>1. tpc' \in {"page", "publish"}
    BY <1>9 DEF Seal, AfterHeader, CopyPage
  <2> QED BY <2>1 DEF Held, Building
<1>10. CASE ~PreCopy /\ (ExportFails \/ CopyFails)
  <2>1. ~Alive' /\ tpc' = "wait"
    BY <1>10 DEF ExportFails, CopyFails, ThreadFails, SetAbort, Alive, Marked
  <2> QED BY <2>1 DEF Held, Building
<1>11. CASE MessageDone \/ Pause
  <2>1. tpc' \in {"pause", "done"} /\ msg' = Blank
    BY <1>11 DEF MessageDone, Pause, Held
  <2> QED BY <2>1 DEF Held, Building
<1>12. CASE Publish
  <2>1. tpc' = "wait" /\ msg' = msg /\ (mid' \/ tpc = "done")
    BY <1>12 DEF Publish
  <2> QED BY <2>1 DEF Held, Building
<1>13. CASE Complete \/ Release
  <2>1. UNCHANGED <<tpc, buf>> /\ msg' = Blank /\ dev' \notin {"PRE_COPY", "STOP_COPY"}
    BY <1>13 DEF Complete, Release, FinishCopy, thread
  <2> QED BY <2>1 DEF Held, Building, Alive
<1>14. CASE Join
  BY <1>14 DEF Join, Held, Building, thread
<1>15. CASE PreCopy \/ ~PreCopy
  BY <1>15, <1>1, <1>3, <1>4, <1>5, <1>6, <1>7, <1>8, <1>9, <1>10, <1>11, <1>12, <1>13, <1>14
     DEF Next, CopyThread, User, ReadLoop
<1> QED BY <1>15

\* The first units of a stream that grows at its end.
LEMMA FrontFacts ==
    ASSUME NEW a \in Seq(Unit), NEW b \in Seq(Unit), NEW n \in Nat, n <= Len(a)
    PROVE  SubSeq(a \o b, 1, n) = SubSeq(a, 1, n)
<1>0. Len(a) \in Nat
  BY StreamFacts
<1>1. CASE n = 0
  BY <1>1, SubSeqEmpty
<1>2. CASE n # 0
  <2>1. 1 \in 1 .. Len(a) /\ n \in 1 .. Len(a)
    BY <1>0, <1>2
  <2> QED BY <2>1, SubSeqOfConcat1
<1> QED BY <1>1, <1>2

\* What a read took and what it left make up the ring.
LEMMA SplitFacts ==
    ASSUME NEW a \in Seq(Unit), NEW n \in Nat, n <= Len(a)
    PROVE  SubSeq(a, 1, n) \o SubSeq(a, n + 1, Len(a)) = a
<1>1. Len(a) \in Nat
  BY StreamFacts
<1>2. 1 \in 1 .. Len(a) + 1 /\ n \in 1 - 1 .. Len(a) /\ Len(a) \in n .. Len(a)
  BY <1>1
<1>3. SubSeq(a, 1, n) \o SubSeq(a, n + 1, Len(a)) = SubSeq(a, 1, Len(a))
  BY <1>2, ConcatAdjacentSubSeq
<1> QED BY <1>3, SubSeqFull

LEMMA ReturnedStep ==
    ASSUME Data, Taken, Returned, Next
    PROVE  Returned'
<1>0. /\ ring \in Seq(Unit) /\ buf \in Seq(Unit) /\ got \in Seq(Unit) /\ took \in Nat
      /\ Len(ring) \in Nat /\ Len(got) \in Nat /\ took <= Len(ring)
  BY StreamFacts DEF Data, Units, Sizes, Taken
<1>1. CASE UNCHANGED <<got, took, ring>>
  BY <1>1 DEF Returned
<1>2. CASE ~Publish /\ ~ReadRing /\ ~ReadReturns /\ ~Join
  <2>1. UNCHANGED <<got, took, ring>>
    <3>1. CASE \E p \in Page : Write(p)
      BY <3>1 DEF Write, user, read
    <3>2. CASE Flr \/ GuestInit \/ GpuReset
      BY <3>2 DEF Flr, GuestInit, GpuReset, StartAnew, user, read
    <3>3. CASE CopyThread
      BY <1>2, <3>3 DEF CopyThread, Wake, Export, ExportBitmap, SkipSection, Clear, Collide, AddWanted, Seal,
                CopyPage, MessageDone, ExportFails, CopyFails, ThreadFails, Pause, user, read
    <3>4. CASE User
      BY <1>2, <3>4 DEF User, PreCopy, PreCopyFails, AskSize, StopCopy, Validate, Set, AddWanted, UpdateShadow,
                StateSize, Read, ReadLoop, RingEmpty, ReadMask, ReadWakes, Complete, Release, user, read
    <3> QED BY <3>1, <3>2, <3>3, <3>4 DEF Next
  <2> QED BY <2>1, <1>1
<1>3. CASE Publish
  <2>1. ring' = ring \o buf /\ UNCHANGED <<got, took>>
    BY <1>3 DEF Publish, user, read
  <2>2. SubSeq(ring', 1, took) = SubSeq(ring, 1, took)
    BY <1>0, <2>1, FrontFacts
  <2> QED BY <2>1, <2>2 DEF Returned
<1>4. CASE ReadReturns
  <2>1. got' = <<>> /\ took' = 0
    BY <1>4 DEF ReadReturns
  <2>2. SubSeq(ring', 1, 0) = <<>>
    BY SubSeqEmpty
  <2> QED BY <2>1, <2>2, StreamFacts DEF Returned
<1>5. CASE Join
  <2>1. upc # "ring" /\ UNCHANGED <<got, took>>
    BY <1>5 DEF Join, read
  <2>2. took = 0
    BY <2>1 DEF Taken
  <2>3. got = <<>>
    BY <1>0, <2>2, EmptySeq DEF Returned
  <2>4. SubSeq(ring', 1, 0) = <<>>
    BY SubSeqEmpty
  <2> QED BY <2>1, <2>2, <2>3, <2>4, StreamFacts DEF Returned
<1>6. CASE ReadRing
  <2>1. PICK n \in Nat, x \in Seq(Unit) :
          /\ took' = took + n /\ ring' = ring
          /\ x = SubSeq(ring, took + 1, took + n) /\ Len(x) = n
          /\ got' = SubSeq(got \o x, 1, n)
    BY <1>6, ReadPasses
  <2>2. PICK y \in Seq(Unit) : y = got \o x /\ Len(y) = Len(got) + n
    <3>1. got \o x \in Seq(Unit) /\ Len(got \o x) = Len(got) + n
      BY <1>0, <2>1, StreamFacts
    <3> QED BY <3>1, Zenon
  <2>3. Len(got') = n
    BY <1>0, <2>1, <2>2, PartFacts
  <2>4. CASE took # 0
    BY <2>1, <2>3, <2>4, <1>0 DEF Returned
  <2>5. CASE took = 0
    <3>1. got = <<>>
      BY <1>0, <2>5, EmptySeq DEF Returned
    <3>2. got \o x = x
      BY <3>1, ConcatEmptySeq
    <3>3. SubSeq(x, 1, n) = x
      BY <2>1, SubSeqFull
    <3>4. 0 + 1 = 1 /\ 0 + n = n
      OBVIOUS
    <3>5. got' = SubSeq(ring, 1, n) /\ took' = n
      BY <2>1, <2>5, <3>2, <3>3, <3>4
    <3> QED BY <3>5, <2>1, <2>3 DEF Returned
  <2> QED BY <2>4, <2>5
<1> QED BY <1>2, <1>3, <1>4, <1>5, <1>6

-----------------------------------------------------------------------------
(* The stream: what has arrived once all that is on its way is imported.   *)

LEMMA ArrivedFacts ==
    ASSUME Data, Target(target)
    PROVE  /\ Arrived = Imported(target, ring \o buf) /\ ring \o buf \in Seq(Unit)
           /\ Target(Arrived) /\ Arrived.gap = target.gap
<1>1. ring \o buf \in Seq(Unit)
  BY StreamFacts DEF Data, Units
<1>2. Arrived = Imported(target, ring \o buf)
  BY DEF Arrived, Imported
<1> QED BY <1>1, <1>2, ImportedKeeps

\* What a read that returns sends to the target.
LEMMA TargetStep ==
    ASSUME Data, Target(target), Next
    PROVE  Target(target')
<1>1. CASE ReadReturns
  <2>1. PICK g \in BOOLEAN :
          \/ target' = [Imported(target, got) EXCEPT !.gap = g]
          \/ target' = Failed(g)
    <3>1. (target.gap \/ Len(got) < took) \in BOOLEAN
      OBVIOUS
    <3> QED BY <1>1, <3>1, Zenon DEF ReadReturns, Imported
  <2>2. PICK x : x = Imported(target, got)
    OBVIOUS
  <2>3. Target(x)
    BY <2>2, ImportedKeeps DEF Data, Units
  <2>4. [x EXCEPT !.gap = g] = [fb |-> x.fb, bm |-> x.bm, copied |-> x.copied, ok |-> x.ok, gap |-> g]
    BY <2>3 DEF Target
  <2>5. Target([x EXCEPT !.gap = g])
    BY <2>3, <2>4 DEF Target
  <2> QED BY <2>1, <2>2, <2>5, TargetFacts
<1>2. CASE ~ReadReturns
  <2>1. target' = target \/ target' = Fresh
    <3>1. CASE \E p \in Page : Write(p)
      BY <3>1 DEF Write, remote
    <3>2. CASE Flr \/ GuestInit \/ GpuReset
      BY <3>2 DEF Flr, GuestInit, GpuReset, StartAnew, remote
    <3>3. CASE CopyThread
      BY <1>2, <3>3 DEF CopyThread, Wake, Export, ExportBitmap, SkipSection, Clear, Collide, Seal, Publish,
                CopyPage, MessageDone, ExportFails, CopyFails, ThreadFails, Pause, remote
    <3>4. CASE User
      BY <1>2, <3>4 DEF User, PreCopy, PreCopyFails, AskSize, StopCopy, Validate, Set, UpdateShadow, Join,
                StateSize, Read, ReadLoop, ReadRing, RingEmpty, ReadMask, ReadWakes, Complete, Release, remote
    <3> QED BY <3>1, <3>2, <3>3, <3>4 DEF Next
  <2> QED BY <2>1, TargetFacts
<1> QED BY <1>1, <1>2

LEMMA SoundIs == Sound <=> Alive /\ Arrived.ok /\ ~Arrived.gap
BY DEF Sound, Alive

\* A step that sends nothing new.
LEMMA QuietStep ==
    ASSUME Base, Follows, Next, Sound', ~PreCopy, Arrived' = Arrived
    PROVE  Sound /\ Matches /\ Differing
<1>1. Sound' => Alive' /\ Arrived'.ok /\ ~Arrived'.gap
  BY DEF Sound, Alive
<1>2. Alive
  BY <1>1, AliveBefore DEF Base
<1> QED BY <1>1, <1>2, SoundIs DEF Follows

\* A step that puts unit u at the end of the stream.
LEMMA SendStep ==
    ASSUME Base, Follows, Next, Sound', ~PreCopy, NEW u \in Unit,
           target' = target, ring' \o buf' = (ring \o buf) \o <<u>>
    PROVE  /\ Sound /\ Matches /\ Differing
           /\ Target(Arrived) /\ Arrived' = Import(Arrived, u)
<1>1. PICK s \in Seq(Unit) : s = ring \o buf /\ Arrived = Imported(target, s) /\ Target(Arrived)
  BY ArrivedFacts, Zenon DEF Base
<1>2. Arrived' = Imported(target, s \o <<u>>)
  BY <1>1 DEF Arrived, Imported
<1>3. Arrived' = Import(Arrived, u)
  <2>1. <<u>> \in Seq(Unit)
    BY StreamFacts
  <2>2. Imported(target, s \o <<u>>) = Imported(Imported(target, s), <<u>>)
    BY <2>1, ImportedConcat
  <2>3. Imported(Arrived, <<u>>) = Import(Arrived, u)
    BY ImportedOne
  <2> QED BY <1>1, <1>2, <2>2, <2>3
<1>4. Alive' /\ Arrived'.ok /\ ~Arrived'.gap
  BY DEF Sound, Alive
<1>5. Alive
  BY <1>4, AliveBefore DEF Base
<1>6. Arrived.ok /\ ~Arrived.gap
  BY <1>1, <1>3, <1>4, ImportKeeps
<1> QED BY <1>1, <1>3, <1>5, <1>6, SoundIs DEF Follows

LEMMA NotPreCopy == ASSUME UNCHANGED dev, Next PROVE ~PreCopy
BY DEF PreCopy

\* The copy thread moves marks from the shadow to the message and sends the
\* pages the target expects, in the order it expects them.
LEMMA ThreadFollows ==
    ASSUME Base, Follows, CopyThread, Sound'
    PROVE  Matches' /\ Differing'
<1>0. Next
  BY DEF Next
<1>1. UNCHANGED <<dev, fb, dbit, acc, first, target>>
  BY DEF CopyThread, Wake, Export, ExportBitmap, SkipSection, ExportFails, Clear, Collide, Seal,
         CopyPage, CopyFails, ThreadFails, MessageDone, Pause, Publish, dirt, remote
<1>2. ~PreCopy
  BY <1>0, <1>1, NotPreCopy
<1>3. msg \in Unit /\ ring \in Seq(Unit) /\ buf \in Seq(Unit)
  BY DEF Base, Data, Units
<1>4. ASSUME ring' \o buf' = ring \o buf
      PROVE  Arrived' = Arrived /\ Sound /\ Matches /\ Differing /\ Alive
  <2>1. Arrived' = Arrived
    BY <1>1, <1>4 DEF Arrived
  <2> QED BY <2>1, <1>0, <1>2, QuietStep, SoundIs
<1>5. CASE Wake
  <2>1. /\ tpc = "wait" /\ buf' = <<>> /\ UNCHANGED <<ring, msg, shadow>>
        /\ tpc' = IF mid THEN "page" ELSE "export"
    BY <1>5 DEF Wake
  <2>2. ring' \o buf' = ring \o buf
    BY <2>1 DEF Base, Room
  <2>3. Matches'
    BY <1>4, <2>1, <2>2 DEF Matches, Between, Building
  <2>4. Differing'
    BY <1>1, <1>4, <2>1, <2>2 DEF Differing, Dirty
  <2> QED BY <2>3, <2>4
<1>6. CASE Export
  <2>1. CASE tpc' = "STATIC"
    <3>1. tpc = "export" /\ UNCHANGED <<ring, buf, msg, shadow>>
      BY <1>6, <2>1 DEF Export, AfterHeader
    <3>2. Matches'
      BY <1>4, <2>1, <3>1 DEF Matches, Between, Building
    <3>3. Differing'
      BY <1>1, <1>4, <3>1 DEF Differing, Dirty
    <3> QED BY <3>2, <3>3
  <2>2. CASE tpc' # "STATIC"
    <3>1. tpc = "export" /\ buf' = <<msg>> /\ ring' = ring
      BY <1>6, <2>2 DEF Export
    <3>2. buf = <<>>
      BY <3>1 DEF Base, Held, Building
    <3>3. ring' \o buf' = (ring \o buf) \o <<msg>>
      BY <1>3, <3>1, <3>2, ConcatEmptySeq
    <3>4. Sound /\ Matches /\ Target(Arrived) /\ Arrived' = Import(Arrived, msg)
      BY <1>0, <1>1, <1>2, <1>3, <3>3, SendStep
    <3>5. msg = Blank /\ Arrived.bm = {} /\ Arrived.ok
      BY <3>1, <3>4, SoundIs DEF Base, Held, Matches, Between, Building
    <3>6. msg.ver # 1
      BY <3>5 DEF Blank
    <3>7. ~Arrived'.ok
      BY <1>3, <3>4, <3>5, <3>6, ImportHeader
    <3> QED BY <3>7 DEF Sound
  <2> QED BY <2>1, <2>2
<1>7. CASE ExportBitmap
  <2>1. /\ tpc = "BITMAP" /\ tpc' = "clear" /\ UNCHANGED <<ring, buf>>
        /\ msg' = [msg EXCEPT !.bm = shadow, !.len = @ + Cardinality(shadow), !.secs = @ \cup {"BITMAP"}]
        /\ shadow' = {}
    BY <1>7 DEF ExportBitmap
  <2>2. msg'.bm = shadow
    BY <1>3, <2>1 DEF Unit
  <2>3. msg.bm = {}
    BY <1>4, <2>1 DEF Base, Held
  <2>4. Matches'
    BY <1>4, <2>1 DEF Matches, Between, Building
  <2>5. Differing'
    BY <1>1, <1>4, <2>1, <2>2, <2>3 DEF Differing, Dirty
  <2> QED BY <2>4, <2>5
<1>8. CASE SkipSection
  <2>1. UNCHANGED <<ring, buf, msg, shadow>> /\ tpc \in Building /\ tpc' \in Building
    BY <1>8 DEF SkipSection, AfterSection, Building
  <2>2. Matches'
    BY <1>4, <2>1 DEF Matches, Between
  <2>3. Differing'
    BY <1>1, <1>4, <2>1 DEF Differing, Dirty
  <2> QED BY <2>2, <2>3
<1>9. CASE ExportFails \/ CopyFails
  BY <1>9 DEF ExportFails, CopyFails, ThreadFails, SetAbort, Sound, Marked
<1>10. CASE Clear \/ Collide
  <2>1. PICK b \in Section : TakeSection(b) /\ UNCHANGED <<ring, shadow>>
    BY <1>10 DEF Clear, Collide, Section
  <2>2. buf' = buf /\ tpc \in Building /\ tpc' \in Building
    BY <2>1 DEF TakeSection, AfterSection, Building
  <2>3. msg'.bm = msg.bm
    BY <1>3, <2>1 DEF TakeSection, Unit
  <2>4. Matches'
    BY <1>4, <2>1, <2>2 DEF Matches, Between
  <2>5. Differing'
    BY <1>1, <1>4, <2>1, <2>2, <2>3 DEF Differing, Dirty
  <2> QED BY <2>4, <2>5
<1>11. CASE Seal
  <2>1. /\ tpc = "seal" /\ UNCHANGED <<ring, shadow>> /\ buf' = <<msg'>> /\ tpc' \in {"page", "publish"}
        /\ msg' = [msg EXCEPT !.ver = 1, !.len = @ + 1]
    BY <1>11 DEF Seal, AfterHeader
  <2>2. PICK u \in Unit : u = msg' /\ u.bm = msg.bm
    <3>1. msg' \in Unit
      BY <1>3, <2>1, HeaderFacts
    <3>2. msg'.bm = msg.bm
      BY <1>3, <2>1 DEF Unit
    <3> QED BY <3>1, <3>2
  <2>3. buf = <<>>
    BY <2>1 DEF Base, Held, Building
  <2>4. ring' \o buf' = (ring \o buf) \o <<u>>
    BY <1>3, <2>1, <2>2, <2>3, ConcatEmptySeq
  <2>5. Sound /\ Matches /\ Differing /\ Target(Arrived) /\ Arrived' = Import(Arrived, u)
    BY <1>0, <1>1, <1>2, <2>4, SendStep
  <2>6. Arrived.ok /\ Arrived.bm = {} /\ Arrived'.ok
    BY <2>1, <2>5, SoundIs DEF Matches, Between, Building, Sound
  <2>7. Arrived'.bm = msg'.bm /\ Arrived'.fb = Arrived.fb
    BY <2>2, <2>5, <2>6, ImportHeader
  <2>8. Matches'
    BY <2>1, <2>7 DEF Matches, Between, Building
  <2>9. Differing'
    BY <1>1, <2>1, <2>2, <2>5, <2>7 DEF Differing, Dirty
  <2> QED BY <2>8, <2>9
<1>12. CASE CopyPage
  <2>1. /\ tpc = "page" /\ tpc' \in {"page", "publish"} /\ msg.bm # {} /\ UNCHANGED <<ring, shadow>>
        /\ buf' = Append(buf, Content(fb[Min(msg.bm)]))
        /\ msg' = [msg EXCEPT !.bm = @ \ {Min(msg.bm)}]
    BY <1>12 DEF CopyPage
  <2>2. PICK p \in Page : p = Min(msg.bm)
    <3>1. msg.bm \subseteq Nat /\ msg.bm \subseteq Page
      BY <1>3 DEF Unit, Page
    <3> QED BY <3>1, <2>1, MinFacts
  <2>3. PICK u \in Unit : u = Content(fb[p]) /\ u.v = fb[p]
    <3>1. fb[p] \in Nat
      BY DEF Base, Data, Marks
    <3>2. Content(fb[p]) \in Unit /\ Content(fb[p]).v = fb[p]
      BY <3>1, UnitFacts DEF Content, Blank
    <3> QED BY <3>2
  <2>4. ring' \o buf' = (ring \o buf) \o <<u>>
    <3>1. buf' = buf \o <<u>> /\ ring' = ring
      BY <1>3, <2>1, <2>2, <2>3
    <3>2. <<u>> \in Seq(Unit)
      BY StreamFacts
    <3> QED BY <1>3, <3>1, <3>2, ConcatAssociative
  <2>5. Sound /\ Matches /\ Differing /\ Target(Arrived) /\ Arrived' = Import(Arrived, u)
    BY <1>0, <1>1, <1>2, <2>4, SendStep
  <2>6. Arrived.ok /\ Arrived.bm = msg.bm
    BY <2>1, <2>5, SoundIs DEF Matches, Between, Building
  <2>7. Arrived'.bm = msg.bm \ {p} /\ Arrived'.fb = [Arrived.fb EXCEPT ![p] = fb[p]]
    BY <2>1, <2>2, <2>3, <2>5, <2>6, ImportPage
  <2>8. msg'.bm = msg.bm \ {p}
    BY <1>3, <2>1, <2>2, HeaderFacts
  <2>9. Matches'
    BY <2>1, <2>7, <2>8 DEF Matches, Between, Building
  <2>10. Differing'
    <3>1. Arrived.fb \in [Page -> Nat]
      BY <2>5 DEF Target
    <3> QED BY <1>1, <2>1, <2>5, <2>7, <2>8, <3>1 DEF Differing, Dirty
  <2> QED BY <2>9, <2>10
<1>13. CASE MessageDone
  <2>1. /\ tpc = "page" /\ tpc' \in {"pause", "done"} /\ msg.bm = {} /\ msg' = Blank
        /\ UNCHANGED <<ring, buf, shadow>>
    BY <1>13 DEF MessageDone
  <2>2. Matches'
    BY <1>4, <2>1, UnitFacts DEF Matches, Between, Building
  <2>3. Differing'
    BY <1>1, <1>4, <2>1, UnitFacts DEF Differing, Dirty
  <2> QED BY <2>2, <2>3
<1>14. CASE Pause
  <2>1. tpc = "pause" /\ tpc' = "done" /\ UNCHANGED <<ring, buf, msg, shadow>>
    BY <1>14 DEF Pause
  <2>2. Matches'
    BY <1>4, <2>1 DEF Matches, Between, Building
  <2>3. Differing'
    BY <1>1, <1>4, <2>1 DEF Differing, Dirty
  <2> QED BY <2>2, <2>3
<1>15. CASE Publish
  <2>1. /\ tpc \in {"publish", "done"} /\ tpc' = "wait" /\ (mid' = (tpc = "publish"))
        /\ UNCHANGED <<msg, shadow>> /\ ring' = ring \o buf /\ buf' = <<>>
    BY <1>15 DEF Publish
  <2>2. ring' \o buf' = ring \o buf
    <3>1. ring \o buf \in Seq(Unit)
      BY <1>3, StreamFacts
    <3> QED BY <3>1, <2>1, ConcatEmptySeq
  <2>3. tpc = "done" => msg.bm = {}
    BY UnitFacts DEF Base, Held
  <2>4. Matches'
    BY <1>4, <2>1, <2>2, <2>3 DEF Matches, Between, Building
  <2>5. Differing'
    BY <1>1, <1>4, <2>1, <2>2 DEF Differing, Dirty
  <2> QED BY <2>4, <2>5
<1> QED BY <1>5, <1>6, <1>7, <1>8, <1>9, <1>10, <1>11, <1>12, <1>13, <1>14, <1>15 DEF CopyThread

LEMMA StreamAssociative ==
    ASSUME NEW a \in Seq(Unit), NEW b \in Seq(Unit), NEW c \in Seq(Unit)
    PROVE  (a \o b) \o c = a \o (b \o c)
BY ConcatAssociative

\* A read that returns: what it hands over leaves the ring and enters the
\* target, unless it left a gap.
LEMMA ReturnsFollows ==
    ASSUME Base, Follows, ReadReturns, Sound'
    PROVE  Matches' /\ Differing'
<1>0. Next
  BY DEF Next, User, ReadLoop
<1>1. /\ UNCHANGED <<dev, fb, dbit, acc, first, shadow, msg, tpc, mid, buf>>
      /\ ring' = SubSeq(ring, took + 1, Len(ring))
  BY DEF ReadReturns, dirt, thread
<1>2. ~PreCopy
  BY <1>0, <1>1, NotPreCopy
<1>3. /\ ring \in Seq(Unit) /\ buf \in Seq(Unit) /\ got \in Seq(Unit) /\ took \in Nat /\ took <= Len(ring)
      /\ Len(got) \in Nat /\ Target(target)
  BY StreamFacts DEF Base, Data, Units, Sizes, Taken
<1>4. Target(target') /\ Data'
  BY <1>0, TargetStep, DataStep DEF Base
<1>5. PICK t : \E r \in Seq(Unit) : t = target' /\ Target(t) /\ r = ring' \o buf' /\ Arrived' = Imported(t, r)
  <2>1. ring' \o buf' \in Seq(Unit)
    BY <1>4, StreamFacts DEF Data, Units
  <2>2. Arrived' = Imported(target', ring' \o buf')
    BY DEF Arrived, Imported
  <2>3. PICK r : r = ring' \o buf'
    OBVIOUS
  <2>4. PICK t : t = target'
    OBVIOUS
  <2>5. r \in Seq(Unit) /\ Target(t) /\ Arrived' = Imported(t, r)
    BY <1>4, <2>1, <2>2, <2>3, <2>4
  <2> QED BY <2>3, <2>4, <2>5
<1>r. PICK r \in Seq(Unit) : t = target' /\ Target(t) /\ r = ring' \o buf' /\ Arrived' = Imported(t, r)
  BY <1>5
<1>6. Arrived'.ok /\ ~Arrived'.gap
  BY DEF Sound
<1>7. t.ok /\ ~t.gap
  <2>1. Imported(t, r).gap = t.gap /\ (~t.ok => Imported(t, r) = t)
    BY <1>r, ImportedKeeps
  <2> QED BY <2>1, <1>r, <1>6
<1>8. PICK g \in BOOLEAN : /\ g = (target.gap \/ Len(got) < took)
                           /\ t = [Imported(target, got) EXCEPT !.gap = g] \/ t = Failed(g)
  <2>1. (target.gap \/ Len(got) < took) \in BOOLEAN
    OBVIOUS
  <2> QED BY <2>1, <1>r, Zenon DEF ReadReturns, Imported
<1>9. PICK x : x = Imported(target, got) /\ Target(x) /\ x.gap = target.gap
  BY <1>3, ImportedKeeps
<1>10. t = [x EXCEPT !.gap = g]
  BY <1>7, <1>8, <1>9, TargetFacts
<1>11. [x EXCEPT !.gap = g] = [fb |-> x.fb, bm |-> x.bm, copied |-> x.copied, ok |-> x.ok, gap |-> g]
  BY <1>9 DEF Target
<1>12. ~g
  BY <1>7, <1>10, <1>11
<1>13. ~target.gap /\ ~(Len(got) < took)
  BY <1>8, <1>12
<1>14. x.gap = g
  BY <1>3, <1>8, <1>9, <1>12, <1>13 DEF Target
<1>15. t = x
  BY <1>9, <1>10, <1>11, <1>14 DEF Target
<1>16. got = SubSeq(ring, 1, took)
  BY <1>3, <1>13 DEF Base, Returned
<1>17. Arrived' = Arrived
  <2>1. PICK rest \in Seq(Unit) : rest = SubSeq(ring, took + 1, Len(ring))
    <3>1. SubSeq(ring, took + 1, Len(ring)) \in Seq(Unit)
      BY <1>3, PartFacts, StreamFacts
    <3> QED BY <3>1, Zenon
  <2>2. got \o rest = ring
    BY <1>3, <1>16, <2>1, SplitFacts
  <2>3. r = rest \o buf
    BY <1>1, <1>r, <2>1
  <2>4. ring \o buf = got \o r
    <3>0. got \in Seq(Unit) /\ rest \in Seq(Unit) /\ buf \in Seq(Unit)
      BY <1>3
    <3>1. (got \o rest) \o buf = got \o (rest \o buf)
      BY <3>0, StreamAssociative
    <3> QED BY <2>2, <2>3, <3>1, Zenon
  <2>5. Arrived = Imported(target, got \o r)
    BY <2>4, ArrivedFacts DEF Base
  <2>6. Imported(target, got \o r) = Imported(x, r)
    BY <1>3, <1>r, <1>9, ImportedConcat
  <2> QED BY <1>r, <1>15, <2>5, <2>6
<1>18. Matches /\ Differing
  BY <1>0, <1>2, <1>17, QuietStep
<1>19. Matches'
  BY <1>1, <1>17, <1>18 DEF Matches, Between
<1>20. Differing'
  BY <1>1, <1>17, <1>18 DEF Differing, Dirty
<1> QED BY <1>19, <1>20

\* A migration starts: the target holds nothing, and every page that was
\* written is in acc_bits, which the first query returns.
LEMMA PreCopyFollows ==
    ASSUME Base, PreCopy
    PROVE  Matches' /\ Differing'
<1>1. /\ dev = "RUNNING" /\ upc = "idle" /\ target' = Fresh /\ first'
      /\ UNCHANGED <<fb, dbit, acc, ring, msg, tpc, buf>>
  BY DEF PreCopy, SetMigState, thread
<1>2. ring = <<>> /\ buf = <<>> /\ msg = Blank
  BY <1>1 DEF Base, Phase, Room
<1>3. ring' \o buf' = <<>>
  BY <1>1, <1>2, StreamFacts, ConcatEmptySeq
<1>4. Arrived' = Fresh
  BY <1>1, <1>3, ImportedOne DEF Arrived, Imported
<1>5. Matches'
  BY <1>1, <1>2, <1>4, UnitFacts, TargetFacts DEF Matches
<1>6. Differing'
  BY <1>1, <1>4, TargetFacts DEF Base, WrittenIsMarked, Differing, Dirty
<1> QED BY <1>5, <1>6

\* The VF marks what it writes, and a query moves the marks to the shadow.
LEMMA FollowsStep ==
    ASSUME Base, Follows, Next
    PROVE  Follows'
<1> SUFFICES ASSUME Sound' PROVE Matches' /\ Differing'
  BY DEF Follows
<1>1. CASE CopyThread
  BY <1>1, ThreadFollows
<1>2. CASE ReadReturns
  BY <1>2, ReturnsFollows
<1>3. CASE PreCopy
  BY <1>3, PreCopyFollows
<1>4. ASSUME ~PreCopy, UNCHANGED <<target, ring, buf, tpc, mid, msg>>
      PROVE  Arrived' = Arrived /\ Matches' /\ Differing
  <2>1. Arrived' = Arrived
    BY <1>4 DEF Arrived
  <2>2. Matches /\ Differing
    BY <1>4, <2>1, QuietStep
  <2> QED BY <1>4, <2>1, <2>2 DEF Matches, Between
<1>5. CASE \E p \in Page : Write(p)
  <2>1. PICK p \in Page : Write(p)
    BY <1>5
  <2>2. /\ UNCHANGED <<target, ring, buf, tpc, mid, msg, dev, shadow, first, acc>>
        /\ fb' = [fb EXCEPT ![p] = used'.write] /\ dbit' = dbit \cup {p}
    BY <2>1 DEF Write, thread, remote
  <2>3. ~PreCopy
    BY <2>2 DEF PreCopy
  <2>4. Differing'
    BY <1>4, <2>2, <2>3 DEF Differing, Dirty, Base, Data, Marks
  <2> QED BY <1>4, <2>2, <2>3, <2>4
<1>6. CASE \/ AskSize \/ StopCopy \/ Validate \/ Set \/ Read
           \/ ReadRing \/ RingEmpty \/ ReadMask \/ ReadWakes
  <2>1. UNCHANGED <<target, ring, buf, tpc, mid, msg, fb, dbit, acc, shadow>> /\ (first => first')
    <3>1. CASE StopCopy
      <4>1. CASE SetMigState("STOP_COPY")
        <5>1. first' = (first \/ mig # "PRE_COPY")
          BY <4>1 DEF SetMigState
        <5> QED BY <3>1, <5>1 DEF StopCopy, thread, remote
      <4>2. CASE Refused
        BY <3>1, <4>2 DEF StopCopy, Refused, thread, remote
      <4> QED BY <3>1, <4>1, <4>2 DEF StopCopy
    <3>2. CASE ~StopCopy
      BY <1>6, <3>2 DEF AskSize, Validate, Set, Read, ReadRing, RingEmpty, ReadMask, ReadWakes, thread, remote, dirt
    <3> QED BY <3>1, <3>2
  <2>2. ~PreCopy
    BY <1>6 DEF AskSize, StopCopy, Validate, Set, Read, ReadRing, RingEmpty, ReadMask, ReadWakes, PreCopy
  <2>3. Differing'
    BY <1>4, <2>1, <2>2 DEF Differing, Dirty
  <2> QED BY <1>4, <2>1, <2>2, <2>3
<1>7. CASE UpdateShadow \/ StateSize
  <2>1. UNCHANGED <<target, ring, buf, tpc, mid, msg, fb, dev>>
    BY <1>7 DEF UpdateShadow, StateSize, thread, remote
  <2>2. ~PreCopy
    BY <2>1 DEF PreCopy
  <2>3. QueryDirtybit \/ UNCHANGED <<dbit, acc, first, shadow>>
    BY <1>7 DEF UpdateShadow, StateSize, QueryFails, SetAbort, Sound, Marked, dirt
  <2>4. CASE QueryDirtybit
    BY <1>4, <2>1, <2>2, <2>4 DEF Differing, Dirty, QueryDirtybit
  <2>5. CASE UNCHANGED <<dbit, acc, first, shadow>>
    BY <1>4, <2>1, <2>2, <2>5 DEF Differing, Dirty
  <2> QED BY <1>4, <2>1, <2>2, <2>3, <2>4, <2>5
<1>8. CASE Flr \/ PreCopyFails \/ Complete \/ Release \/ Join
  <2>1. ~PreCopy
    BY <1>8 DEF Flr, PreCopyFails, Complete, Release, Join, PreCopy
  <2>2. Alive
    BY <2>1, AliveBefore DEF Base, Sound, Alive
  <2>3. CASE Flr
    BY <2>2, <2>3 DEF Flr, AbortCheck, Base, Phase, Alive, Sound
  <2>4. CASE PreCopyFails
    BY <2>2, <2>4 DEF PreCopyFails, Alive
  <2>5. CASE Complete \/ Release
    BY <2>5 DEF Complete, Release, Sound
  <2>6. CASE Join
    BY <2>2, <2>6 DEF Join, Base, Phase, Alive
  <2> QED BY <1>8, <2>3, <2>4, <2>5, <2>6
<1>9. CASE GuestInit \/ GpuReset
  <2>1. UNCHANGED <<target, ring, buf, tpc, mid, msg, dev>> /\ \A p \in Page : fb'[p] = 0
    BY <1>9 DEF GuestInit, GpuReset, StartAnew, thread, remote
  <2>2. ~PreCopy
    BY <2>1 DEF PreCopy
  <2>3. Differing'
    BY <2>1 DEF Differing
  <2> QED BY <1>4, <2>1, <2>2, <2>3
<1> QED BY <1>1, <1>2, <1>3, <1>5, <1>6, <1>7, <1>8, <1>9 DEF Next, User, ReadLoop

-----------------------------------------------------------------------------
(* The theorems.                                                           *)

LEMMA InitInv == Init => IInv
<1> SUFFICES ASSUME Init PROVE IInv
  OBVIOUS
<1>1. Data
  <2>1. fb \in [Page -> Nat] /\ used \in Bounds
    BY DEF Init, Bounds
  <2> QED BY <2>1, UnitFacts, StreamFacts DEF Init, Data, Marks, Units, Sizes
<1>2. Room /\ Taken
  BY StreamFacts, MigrationAssumption DEF Init, Room, Taken
<1>3. Halted /\ WrittenIsMarked
  BY DEF Init, Halted, Slipped, Marked, WrittenIsMarked
<1>4. Phase /\ Held /\ Follows
  BY DEF Init, Phase, Held, Building, Alive, Follows, Sound
<1>5. Returned
  <2>1. SubSeq(ring, 1, 0) = <<>>
    BY SubSeqEmpty
  <2> QED BY <2>1, StreamFacts DEF Init, Returned
<1>6. Target(target)
  BY TargetFacts DEF Init
<1> QED BY <1>1, <1>2, <1>3, <1>4, <1>5, <1>6 DEF IInv, Base

LEMMA NextInv == IInv /\ [Next]_vars => IInv'
<1> SUFFICES ASSUME IInv, [Next]_vars PROVE IInv'
  OBVIOUS
<1>1. CASE Next
  <2>1. Follows'
    BY <1>1, FollowsStep DEF IInv
  <2>2. Target(target')
    BY <1>1, TargetStep DEF IInv, Base
  <2>3. Base'
    BY <1>1, <2>2, DataStep, RoomStep, TakenStep, HaltedStep, MarkedStep, PhaseStep, HeldStep, ReturnedStep
       DEF IInv, Base
  <2> QED BY <2>1, <2>3 DEF IInv
<1>2. CASE UNCHANGED vars
  <2>1. Base'
    BY <1>2 DEF IInv, Base, Data, Marks, Units, Sizes, Room, Taken, Halted, WrittenIsMarked, Phase, Held, Alive,
                Slipped, Marked, Returned, vars, mark, dirt, thread, user, read, remote
  <2>2. Follows'
    BY <1>2 DEF IInv, Follows, Sound, Marked, Matches, Differing, Dirty, Arrived, Between,
                vars, mark, dirt, thread, user, read, remote
  <2> QED BY <2>1, <2>2 DEF IInv
<1> QED BY <1>1, <1>2

LEMMA InvHolds == Spec => []IInv
BY InitInv, NextInv, PTL DEF Spec

\* The VF does not run on both hosts after a suspend that failed or was not
\* tried, which the user is not told of: the next read finds out, as long as
\* the mark it looks for was set and stayed.  That it may be dropped by a full
\* access or cleared by the guest's initialisation is all that can go wrong.
THEOREM NeverTwice == Spec => []RunsOnce
<1>1. IInv => RunsOnce
  BY DEF IInv, Base, Halted, Slipped, RunsOnce
<1> QED BY <1>1, InvHolds, PTL

\* Through resets that clear the hardware's bits, queries that lose them or
\* are refused and migrations given up half way, marked or not, a page the VF
\* has written since it was initialised is known to be dirty.
THEOREM WritesStayMarked == Spec => []WrittenIsMarked
<1>1. IInv => WrittenIsMarked
  BY DEF IInv, Base
<1> QED BY <1>1, InvHolds, PTL

\* No dirty page is lost on the way between the VF, which writes while it is
\* copied, the hardware's bits, acc_bits, the shadow, the message and the
\* ring: where the target will differ from the source, the page is still
\* marked.  It holds through refused queries, suspends and resets whose mark
\* was dropped, and after a failed query or copy that was marked; only one
\* that a full access kept from being marked, or a mark the guest cleared,
\* is excepted.  For any pages and sizes.
THEOREM NothingForgotten == Spec => []NoPageForgotten
<1>1. IInv => NoPageForgotten
  BY DEF IInv, Base, Follows, Differing, Dirty, NoPageForgotten
<1> QED BY <1>1, InvHolds, PTL

\* The copy thread and the reader share the ring without a lock: what the
\* thread holds fits behind what is still to be read, and a read takes no
\* more than is there.
RingFits == Len(ring) + Len(buf) <= RingSize /\ took <= Len(ring)

\* No unit of the stream is written over before it is read, and none is read
\* before it is written, for every size of the ring and of the reads.
THEOREM RingNeverOverrun == Spec => []RingFits
<1>1. IInv => RingFits
  <2> SUFFICES ASSUME IInv PROVE RingFits
    OBVIOUS
  <2>1. Len(ring) \in Nat /\ Len(buf) \in Nat /\ room \in Nat /\ RingSize \in Nat
    BY MigrationAssumption, StreamFacts DEF IInv, Base, Data, Units, Sizes
  <2>2. tpc = "wait" => Len(buf) = 0
    BY StreamFacts DEF IInv, Base, Room
  <2> QED BY <2>1, <2>2 DEF IInv, Base, Room, Taken, RingFits
<1> QED BY <1>1, InvHolds, PTL
=============================================================================
