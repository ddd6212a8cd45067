---------------------------- MODULE MemMgrProofs ----------------------------
(***************************************************************************)
(* Theorems about the memory manager, for every region, every page size,   *)
(* every request and any number of clients and bad pages.                  *)
(***************************************************************************)
EXTENDS MemMgr, ListLemmas, FiniteSetTheorems, TLAPS

\* The order of the list, for any two blocks and not only for neighbours.
Sorted(s) == \A i, j \in 1 .. Len(s) : i < j => s[i].end <= Start(s[j])

\* Every block lies in the region.  Only the placeholder of an NPS candidate
\* may begin in front of it.
Bounded ==
  \A i \in 1 .. Len(allocs) :
    /\ Offset <= allocs[i].end /\ allocs[i].end <= Offset + size
    /\ allocs[i].kind # "nps" => Offset <= Start(allocs[i])

\* What a block can be; a block outside the list belongs to a client.
Sound(b) ==
  /\ b.len > 0 /\ b.al > 0
  /\ b.kind = "mem" => b.h \in Client /\ (down => b.len % b.al = 0)
  /\ b.kind = "bad" /\ ~down => b.len = PageLen /\ Start(b) \in Pages
  /\ b.kind = "nps" => b.len = PageLen

\* A client has one block, wherever it is.
Same(b, d) == b.kind = "mem" /\ d.kind = "mem" /\ b.h = d.h
OneEach(s) == \A i, j \in 1 .. Len(s) : Same(s[i], s[j]) => i = j
Disjoint(s, t) == \A i \in 1 .. Len(s), j \in 1 .. Len(t) : ~Same(s[i], t[j])

\* The list: in order, in the region, and tom where it ends.
ListOk ==
  /\ Sorted(allocs) /\ tom = EndOf(Len(allocs)) /\ Bounded
  /\ \A i \in 1 .. Len(allocs) : Sound(allocs[i])
  /\ OneEach(allocs)

\* The blocks that wait for a place.
Waiting(s) ==
  /\ \A i \in 1 .. Len(s) : Sound(s[i]) /\ s[i].kind = "mem"
  /\ OneEach(s) /\ Disjoint(allocs, s)

\* What the list holds in each phase, and what the phase has still to see to.
Phases ==
  /\ phase = "early" => allocs = <<>>
  /\ phase \in {"ready", "replace", "rehome"} =>
       \A i \in 1 .. Len(allocs) : allocs[i].kind # "nps"
  /\ phase \notin {"early", "nps", "defer", "dead"} => reserves = <<>>
  /\ phase \notin {"replace", "rehome"} => moved = <<>>
  /\ phase \in {"nps", "replace", "rehome"} => ~down
  /\ phase \in {"early", "nps"} =>
       todo \in Seq(Pages) /\ \A i, j \in 1 .. Len(todo) : i < j => todo[i] < todo[j]
  /\ phase = "replace" => \A i \in 1 .. Len(todo) : todo[i] \in 1 .. Len(bps)

\* A page that is bad in some mode is still to come, out of reach, or taken.
Beyond(p) == p + PageLen < Offset \/ Offset + size <= p
Taken(p) == \E i \in 1 .. Len(allocs) :
              allocs[i].kind = "nps" /\ Start(allocs[i]) = p /\ allocs[i].len = PageLen
Covered ==
  ~down =>
    /\ phase \in {"early", "nps"} =>
         \A p \in nps : Beyond(p) \/ Taken(p) \/ \E i \in 1 .. Len(todo) : todo[i] = p
    /\ phase = "defer" => \A p \in nps : Beyond(p) \/ Taken(p)

\* The block of a bad page, by its position.
Marked(p) == \E j \in 1 .. Len(allocs) :
               allocs[j].kind = "bad" /\ allocs[j].len = PageLen /\ Start(allocs[j]) = p
Kept == ~down => \A i \in 1 .. Len(bps) : bpsMem[i] # None => Marked(bps[i])

IInv ==
  /\ TypeOK /\ ListOk /\ Waiting(reserves) /\ Waiting(moved)
  /\ Phases /\ Covered /\ AvoidsNps /\ Kept

-----------------------------------------------------------------------------
(* Rounding.                                                               *)

LEMMA AlignFacts ==
  ASSUME NEW a \in Nat, NEW d \in Nat \ {0}
  PROVE  Align(a, d) \in Nat /\ a <= Align(a, d) /\ Align(a, d) < a + d
<1> DEFINE x == a + d - 1
           q == x \div d
<1>1. x \in Nat
  OBVIOUS
<1>2. q \in Nat /\ d * q <= x /\ x < d * q + d
  BY <1>1, DivFacts
<1>3. Align(a, d) = q * d
  BY DEF Align
<1> HIDE DEF q
<1>4. q * d = d * q /\ d * q \in Nat
  BY <1>2
<1> QED BY <1>2, <1>3, <1>4

\* A rounded address is a multiple, and the first one that is not before.
LEMMA AlignLeast ==
  ASSUME NEW a \in Nat, NEW d \in Nat \ {0}, NEW k \in Nat, a <= d * k
  PROVE  Align(a, d) <= d * k
<1> DEFINE x == a + d - 1
           q == x \div d
<1>1. x \in Nat
  OBVIOUS
<1>2. q \in Nat /\ d * q <= x /\ x < d * q + d
  BY <1>1, DivFacts
<1>3. Align(a, d) = q * d
  BY DEF Align
<1> HIDE DEF q
<1>4. q * d = d * q /\ d * q \in Nat /\ d * k \in Nat
  BY <1>2
<1>5. ~(k < q)
  <2>1. k < q => d * k + d <= d * q
    BY <1>2, Times
  <2> QED BY <2>1, <1>2, <1>4
<1>6. CASE k = q
  BY <1>6, <1>3, <1>4
<1>7. CASE q < k
  <2>1. d * q + d <= d * k
    BY <1>7, <1>2, Times
  <2> QED BY <2>1, <1>3, <1>4
<1> QED BY <1>2, <1>5, <1>6, <1>7

LEMMA AlignMultiple ==
  ASSUME NEW a \in Nat, NEW d \in Nat \ {0}
  PROVE  \E k \in Nat : Align(a, d) = d * k
<1>1. (a + d - 1) \div d \in Nat
  BY DivFacts
<1>2. Align(a, d) = d * ((a + d - 1) \div d)
  <2> DEFINE q == (a + d - 1) \div d
  <2>1. Align(a, d) = q * d
    BY DEF Align
  <2> HIDE DEF q
  <2>2. q * d = d * q
    BY <1>1 DEF q
  <2> QED BY <2>1, <2>2 DEF q
<1> QED BY <1>1, <1>2

LEMMA AlignMonotone ==
  ASSUME NEW a \in Nat, NEW b \in Nat, NEW d \in Nat \ {0}, a <= b
  PROVE  Align(a, d) <= Align(b, d)
<1>1. PICK k \in Nat : Align(b, d) = d * k
  BY AlignMultiple
<1>2. a <= d * k
  BY <1>1, AlignFacts
<1> QED BY <1>1, <1>2, AlignLeast

LEMMA AlignExact ==
  ASSUME NEW p \in Nat, NEW d \in Nat \ {0}, p % d = 0
  PROVE  Align(p, d) = p
<1>1. p \div d \in Nat /\ p = d * (p \div d)
  BY DivFacts, ModFacts
<1>2. Align(p, d) <= p
  BY <1>1, AlignLeast
<1>3. Align(p, d) \in Nat /\ p <= Align(p, d)
  BY AlignFacts
<1> QED BY <1>2, <1>3

\* A block whose length is a multiple of its alignment ends in the same place
\* whether its start or its end is rounded.
LEMMA AlignShift ==
  ASSUME NEW a \in Nat, NEW len \in Nat, NEW d \in Nat \ {0}, len % d = 0
  PROVE  Align(a + len, d) = Align(a, d) + len
<1> DEFINE m == len \div d
           e == a + len
<1>0. e \in Nat
  OBVIOUS
<1>1. m \in Nat /\ len = d * m
  BY DivFacts, ModFacts
<1> HIDE DEF m, e
<1>2. PICK k \in Nat : Align(a, d) = d * k
  BY AlignMultiple
<1>3. PICK j \in Nat : Align(e, d) = d * j
  BY <1>0, AlignMultiple
<1>4. d * k \in Nat /\ d * j \in Nat /\ a <= d * k /\ d * k < a + d
  BY <1>2, AlignFacts
<1>5. e <= d * j
  BY <1>0, <1>3, AlignFacts
<1>6. Align(e, d) <= Align(a, d) + len
  <2>1. d * (k + m) = d * k + d * m
    BY <1>1
  <2>2. e <= d * (k + m)
    BY <2>1, <1>1, <1>4 DEF e
  <2>3. Align(e, d) <= d * (k + m)
    BY <2>2, <1>0, <1>1, AlignLeast
  <2> QED BY <2>1, <2>3, <1>1, <1>2
<1>7. k + m <= j
  <2>1. j < k + m => d * j + d <= d * (k + m)
    BY <1>1, Times
  <2>2. d * (k + m) = d * k + d * m
    BY <1>1
  <2> QED BY <2>1, <2>2, <1>1, <1>4, <1>5 DEF e
<1>8. d * (k + m) <= d * j
  <2>1. k + m < j => d * (k + m) + d <= d * j
    BY <1>1, Times
  <2>2. d * (k + m) \in Nat
    BY <1>1
  <2> QED BY <2>1, <2>2, <1>1, <1>4, <1>7
<1>9. d * (k + m) = d * k + len
  BY <1>1
<1> QED BY <1>2, <1>3, <1>4, <1>6, <1>8, <1>9 DEF e

-----------------------------------------------------------------------------
(* Lists in which a client has one block.                                  *)

LEMMA InsertOnce ==
  ASSUME NEW s \in Seq(BlockType), NEW b \in BlockType, NEW p \in 1 .. Len(s) + 1,
         OneEach(s), \A i \in 1 .. Len(s) : ~Same(s[i], b)
  PROVE  OneEach(InsertAt(s, p, b))
<1> DEFINE t == InsertAt(s, p, b)
           n == Len(s)
<1>a. n \in Nat /\ p \in 1 .. n + 1
  OBVIOUS
<1>1. Len(t) = n + 1 /\ t[p] = b
  BY InsertAtFacts
<1>2. \A i \in 1 .. p - 1 : t[i] = s[i]
  BY InsertAtFacts
<1>3. \A i \in p + 1 .. n + 1 : t[i] = s[i - 1]
  BY InsertAtFacts
<1>4. \A i, j \in 1 .. n : Same(s[i], s[j]) => i = j
  BY DEF OneEach
<1>5. \A i \in 1 .. n : ~Same(s[i], b)
  OBVIOUS
<1>6. \A x, y : Same(x, y) => Same(y, x)
  BY DEF Same
<1> HIDE DEF t, n
<1>7. ASSUME NEW i \in 1 .. n + 1, NEW j \in 1 .. n + 1, i < j PROVE ~Same(t[i], t[j])
  <2>1. CASE j < p
    <3>1. t[i] = s[i] /\ t[j] = s[j] /\ i \in 1 .. n /\ j \in 1 .. n
      BY <2>1, <1>7, <1>a, <1>2
    <3> QED BY <3>1, <1>4, <1>7
  <2>2. CASE j = p
    <3>1. t[i] = s[i] /\ t[j] = b /\ i \in 1 .. n
      BY <2>2, <1>7, <1>a, <1>1, <1>2
    <3> QED BY <3>1, <1>5
  <2>3. CASE j > p /\ i < p
    <3>1. t[i] = s[i] /\ t[j] = s[j - 1] /\ i < j - 1 /\ i \in 1 .. n /\ j - 1 \in 1 .. n
      BY <2>3, <1>a, <1>2, <1>3
    <3> QED BY <3>1, <1>4
  <2>4. CASE j > p /\ i = p
    <3>1. t[i] = b /\ t[j] = s[j - 1] /\ j - 1 \in 1 .. n
      BY <2>4, <1>a, <1>1, <1>3
    <3> QED BY <3>1, <1>5, <1>6
  <2>5. CASE j > p /\ i > p
    <3>1. t[i] = s[i - 1] /\ t[j] = s[j - 1] /\ i - 1 # j - 1 /\ i - 1 \in 1 .. n /\ j - 1 \in 1 .. n
      BY <2>5, <1>7, <1>a, <1>3
    <3> QED BY <3>1, <1>4
  <2> QED BY <1>a, <2>1, <2>2, <2>3, <2>4, <2>5
<1>8. ASSUME NEW i \in 1 .. n + 1, NEW j \in 1 .. n + 1, Same(t[i], t[j]) PROVE i = j
  <2>1. ~(i < j) /\ ~(j < i)
    BY <1>6, <1>7, <1>8
  <2> QED BY <2>1, <1>a
<1> QED BY <1>1, <1>8 DEF OneEach, t

LEMMA RemoveOnce ==
  ASSUME NEW s \in Seq(BlockType), NEW p \in 1 .. Len(s), OneEach(s)
  PROVE  OneEach(RemoveAt(s, p))
<1> DEFINE t == RemoveAt(s, p)
           n == Len(s)
           at(i) == IF i < p THEN i ELSE i + 1
<1>a. n \in Nat /\ p \in 1 .. n
  OBVIOUS
<1>1. Len(t) = n - 1
  BY RemoveAtFacts
<1>2. \A i \in 1 .. n - 1 : t[i] = s[at(i)]
  BY RemoveAtFacts
<1>3. \A i \in 1 .. n - 1 : at(i) \in 1 .. n
  BY <1>a
<1>4. \A i, j \in 1 .. n - 1 : at(i) = at(j) => i = j
  BY <1>a
<1>5. \A i, j \in 1 .. n : Same(s[i], s[j]) => i = j
  BY DEF OneEach
<1> HIDE DEF t, n, at
<1>6. ASSUME NEW i \in 1 .. n - 1, NEW j \in 1 .. n - 1, Same(t[i], t[j]) PROVE i = j
  BY <1>2, <1>3, <1>4, <1>5, <1>6
<1> QED BY <1>1, <1>6 DEF OneEach, t

\* The first of a list is taken off it.
LEMMA TailOnce ==
  ASSUME NEW s \in Seq(BlockType), s # <<>>, OneEach(s)
  PROVE  OneEach(Tail(s)) /\ \A i \in 1 .. Len(Tail(s)) : ~Same(Tail(s)[i], Head(s))
<1> DEFINE n == Len(s)
           t == Tail(s)
<1>1. n \in Nat /\ Len(t) = n - 1 /\ Head(s) = s[1] /\ 1 \in 1 .. n
  BY TailFacts
<1>2. \A i \in 1 .. n - 1 : t[i] = s[i + 1] /\ i + 1 \in 1 .. n
  BY TailFacts
<1>3. \A i, j \in 1 .. n : Same(s[i], s[j]) => i = j
  BY DEF OneEach
<1> HIDE DEF n, t
<1>4. ASSUME NEW i \in 1 .. n - 1, NEW j \in 1 .. n - 1, Same(t[i], t[j]) PROVE i = j
  <2>1. i + 1 = j + 1
    BY <1>2, <1>3, <1>4
  <2> QED BY <2>1
<1>5. ASSUME NEW i \in 1 .. n - 1 PROVE ~Same(t[i], s[1])
  <2>1. i + 1 # 1
    OBVIOUS
  <2> QED BY <2>1, <1>1, <1>2, <1>3
<1> QED BY <1>1, <1>4, <1>5 DEF OneEach, t

LEMMA ConsOnce ==
  ASSUME NEW s \in Seq(BlockType), NEW b \in BlockType, OneEach(s), \A i \in 1 .. Len(s) : ~Same(s[i], b)
  PROVE  OneEach(Cons(b, s))
<1> DEFINE n == Len(s)
           t == Cons(b, s)
<1>1. n \in Nat /\ Len(t) = n + 1 /\ t[1] = b
  BY ConsFacts
<1>2. \A i \in 2 .. n + 1 : t[i] = s[i - 1]
  BY ConsFacts
<1>3. \A i, j \in 1 .. n : Same(s[i], s[j]) => i = j
  BY DEF OneEach
<1>4. \A i \in 1 .. n : ~Same(s[i], b) /\ ~Same(b, s[i])
  BY DEF Same
<1> HIDE DEF n, t
<1>5. ASSUME NEW i \in 1 .. n + 1, NEW j \in 1 .. n + 1, Same(t[i], t[j]), i # 1, j # 1 PROVE i = j
  <2>1. t[i] = s[i - 1] /\ t[j] = s[j - 1] /\ i - 1 \in 1 .. n /\ j - 1 \in 1 .. n
    BY <1>1, <1>2, <1>5
  <2>2. i - 1 = j - 1
    BY <2>1, <1>3, <1>5
  <2> QED BY <2>2
<1>6. ASSUME NEW i \in 1 .. n + 1, i # 1 PROVE ~Same(t[i], t[1]) /\ ~Same(t[1], t[i])
  <2>1. t[i] = s[i - 1] /\ i - 1 \in 1 .. n
    BY <1>1, <1>2, <1>6
  <2> QED BY <2>1, <1>1, <1>4
<1> QED BY <1>1, <1>5, <1>6 DEF OneEach, t

-----------------------------------------------------------------------------
(* Putting a block into the list and taking one out.                       *)

\* There is room for b behind node prev: nothing before prev reaches into it,
\* it reaches into nothing behind, and it is the last block only if tom says so.
Fits(prev, b) ==
  /\ prev \in 0 .. Len(allocs)
  /\ \A i \in 1 .. prev : allocs[i].end <= Start(b)
  /\ \A i \in prev + 1 .. Len(allocs) : b.end <= Start(allocs[i])
  /\ prev < Len(allocs) => EndOf(prev) # tom

\* The list holds b and what it held, still in order.
Adds(b) ==
  /\ allocs' \in Seq(BlockType) /\ Sorted(allocs') /\ tom' \in Nat
  /\ tom' = IF Len(allocs') = 0 THEN Offset ELSE allocs'[Len(allocs')].end
  /\ \A j \in 1 .. Len(allocs') : allocs'[j] = b \/ \E i \in 1 .. Len(allocs) : allocs'[j] = allocs[i]
  /\ \A i \in 1 .. Len(allocs) : \E j \in 1 .. Len(allocs') : allocs'[j] = allocs[i]
  /\ \E j \in 1 .. Len(allocs') : allocs'[j] = b
  /\ (\A i \in 1 .. Len(allocs) : ~Same(allocs[i], b)) => OneEach(allocs')
  /\ \A i \in 1 .. Len(allocs) : allocs[i].end <= Start(b) \/ b.end <= Start(allocs[i])

\* The list holds what it held but for its node k.
Drops(k) ==
  /\ allocs' \in Seq(BlockType) /\ Sorted(allocs') /\ tom' \in Nat
  /\ tom' = IF Len(allocs') = 0 THEN Offset ELSE allocs'[Len(allocs')].end
  /\ \A j \in 1 .. Len(allocs') : \E i \in 1 .. Len(allocs) : i # k /\ allocs'[j] = allocs[i]
  /\ \A i \in 1 .. Len(allocs) : i # k => \E j \in 1 .. Len(allocs') : allocs'[j] = allocs[i]
  /\ OneEach(allocs')

\* What a block of the list is.
LEMMA BlockFacts ==
  ASSUME NEW b \in BlockType
  PROVE  /\ b.end \in Nat /\ b.len \in Nat /\ b.al \in Nat
         /\ b.kind \in {"mem", "bad", "nps"} /\ b.h \in Client \union Pages
         /\ Start(b) \in Int /\ b.end = Start(b) + b.len
BY DEF BlockType, Start

LEMMA ListFacts ==
  ASSUME IInv
  PROVE  /\ allocs \in Seq(BlockType) /\ reserves \in Seq(BlockType) /\ moved \in Seq(BlockType)
         /\ Len(allocs) \in Nat /\ tom \in Nat /\ size \in Nat /\ Offset \in Nat
         /\ \A i \in 1 .. Len(allocs) :
              /\ allocs[i] \in BlockType /\ allocs[i].len > 0
              /\ allocs[i].end \in Nat /\ Start(allocs[i]) \in Int
              /\ Start(allocs[i]) < allocs[i].end
         /\ tom = IF Len(allocs) = 0 THEN Offset ELSE allocs[Len(allocs)].end
<1>1. allocs \in Seq(BlockType) /\ reserves \in Seq(BlockType) /\ moved \in Seq(BlockType)
  BY DEF IInv, TypeOK
<1>2. Len(allocs) \in Nat /\ tom \in Nat /\ size \in Nat /\ Offset \in Nat
  BY <1>1, SizeAssumption DEF IInv, TypeOK
<1>3. ASSUME NEW i \in 1 .. Len(allocs)
      PROVE  /\ allocs[i] \in BlockType /\ allocs[i].len > 0
             /\ allocs[i].end \in Nat /\ Start(allocs[i]) \in Int
             /\ Start(allocs[i]) < allocs[i].end
  <2>1. allocs[i] \in BlockType
    BY <1>1
  <2>2. allocs[i].len > 0
    BY DEF IInv, ListOk, Sound
  <2> QED BY <2>1, <2>2, BlockFacts
<1>4. tom = IF Len(allocs) = 0 THEN Offset ELSE allocs[Len(allocs)].end
  BY DEF IInv, ListOk, EndOf
<1> QED BY <1>1, <1>2, <1>3, <1>4

LEMMA Inserted ==
  ASSUME IInv, NEW b \in BlockType, NEW prev, Fits(prev, b), Insert(prev, b), b.len > 0
  PROVE  Adds(b)
<1> DEFINE n == Len(allocs)
<1>a. /\ allocs \in Seq(BlockType) /\ n \in Nat /\ prev \in 0 .. n
      /\ tom \in Nat /\ b.end \in Nat /\ Start(b) \in Int /\ Start(b) < b.end
  BY ListFacts, BlockFacts DEF Fits
<1>1. /\ allocs' \in Seq(BlockType) /\ Len(allocs') = n + 1
      /\ allocs'[prev + 1] = b
      /\ \A i \in 1 .. prev : allocs'[i] = allocs[i]
      /\ \A i \in prev + 2 .. n + 1 : allocs'[i] = allocs[i - 1]
  <2>1. prev + 1 \in 1 .. Len(allocs) + 1
    BY <1>a
  <2>2. allocs' = InsertAt(allocs, prev + 1, b)
    BY DEF Insert
  <2> DEFINE p == prev + 1
  <2>3. /\ allocs' \in Seq(BlockType) /\ Len(allocs') = n + 1 /\ allocs'[p] = b
        /\ \A i \in 1 .. p - 1 : allocs'[i] = allocs[i]
        /\ \A i \in p + 1 .. n + 1 : allocs'[i] = allocs[i - 1]
    <3>1. p \in 1 .. Len(allocs) + 1 /\ allocs' = InsertAt(allocs, p, b)
      BY <2>1, <2>2
    <3> HIDE DEF p, n
    <3>2. allocs' \in Seq(BlockType) /\ Len(allocs') = Len(allocs) + 1 /\ allocs'[p] = b
      BY <3>1, <1>a, InsertAtFacts
    <3>3. \A i \in 1 .. p - 1 : allocs'[i] = allocs[i]
      BY <3>1, <1>a, InsertAtFacts
    <3>4. \A i \in p + 1 .. Len(allocs) + 1 : allocs'[i] = allocs[i - 1]
      BY <3>1, <1>a, InsertAtFacts, SMTT(30)
    <3> QED BY <3>2, <3>3, <3>4 DEF n
  <2>4. p - 1 = prev /\ p + 1 = prev + 2
    BY <1>a
  <2> QED BY <2>3, <2>4
<1>2. \A i \in 1 .. n : /\ allocs[i].end \in Nat /\ Start(allocs[i]) \in Int
                        /\ Start(allocs[i]) < allocs[i].end
  BY ListFacts
<1>3. \A i, j \in 1 .. n : i < j => allocs[i].end <= Start(allocs[j])
  BY DEF IInv, ListOk, Sorted
<1>4. /\ \A i \in 1 .. prev : allocs[i].end <= Start(b)
      /\ \A i \in prev + 1 .. n : b.end <= Start(allocs[i])
      /\ prev < n => EndOf(prev) # tom
  BY DEF Fits
<1> HIDE DEF n
<1>5. Sorted(allocs')
  <2> SUFFICES ASSUME NEW i \in 1 .. n + 1, NEW j \in 1 .. n + 1, i < j
               PROVE  allocs'[i].end <= Start(allocs'[j])
    BY <1>1 DEF Sorted
  <2>1. CASE j <= prev
    <3>1. allocs'[i] = allocs[i] /\ allocs'[j] = allocs[j]
      BY <2>1, <1>a, <1>1
    <3> QED BY <3>1, <2>1, <1>a, <1>3
  <2>2. CASE j = prev + 1
    BY <2>2, <1>a, <1>1, <1>4
  <2>3. CASE j > prev + 1 /\ i <= prev
    <3>1. allocs'[i] = allocs[i] /\ allocs'[j] = allocs[j - 1] /\ i < j - 1
      BY <2>3, <1>a, <1>1
    <3> QED BY <3>1, <2>3, <1>a, <1>3
  <2>4. CASE j > prev + 1 /\ i = prev + 1
    <3>1. allocs'[i] = b /\ allocs'[j] = allocs[j - 1] /\ j - 1 \in prev + 1 .. n
      BY <2>4, <1>a, <1>1
    <3> QED BY <3>1, <1>4
  <2>5. CASE j > prev + 1 /\ i > prev + 1
    <3>1. allocs'[i] = allocs[i - 1] /\ allocs'[j] = allocs[j - 1]
      BY <2>5, <1>a, <1>1
    <3> QED BY <3>1, <2>5, <1>a, <1>3
  <2> QED BY <1>a, <2>1, <2>2, <2>3, <2>4, <2>5
<1>6. tom' = allocs'[n + 1].end /\ tom' \in Nat
  <2>1. tom' = IF EndOf(prev) = tom THEN b.end ELSE tom
    BY DEF Insert
  <2>2. tom = IF n = 0 THEN Offset ELSE allocs[n].end
    BY ListFacts DEF n
  <2>3. CASE prev = n
    <3>1. EndOf(prev) = tom
      BY <2>2, <2>3 DEF EndOf
    <3> QED BY <2>1, <2>3, <3>1, <1>1, <1>a
  <2>4. CASE prev < n
    <3>1. tom' = tom
      BY <2>1, <2>4, <1>4
    <3>2. allocs'[n + 1] = allocs[n]
      BY <2>4, <1>a, <1>1
    <3> QED BY <3>1, <3>2, <2>2, <2>4, <1>a
  <2> QED BY <2>3, <2>4, <1>a
<1>7. ASSUME NEW j \in 1 .. n + 1
      PROVE  allocs'[j] = b \/ \E i \in 1 .. n : allocs'[j] = allocs[i]
  <2>1. CASE j <= prev
    BY <2>1, <1>a, <1>1
  <2>2. CASE j = prev + 1
    BY <2>2, <1>1
  <2>3. CASE j > prev + 1
    <3>1. j - 1 \in 1 .. n /\ allocs'[j] = allocs[j - 1]
      BY <2>3, <1>a, <1>1
    <3> QED BY <3>1
  <2> QED BY <1>a, <2>1, <2>2, <2>3
<1>8. ASSUME NEW i \in 1 .. n
      PROVE  \E j \in 1 .. n + 1 : allocs'[j] = allocs[i]
  <2>1. CASE i <= prev
    BY <2>1, <1>a, <1>1
  <2>2. CASE i > prev
    <3>1. i + 1 \in prev + 2 .. n + 1 /\ i + 1 \in 1 .. n + 1 /\ (i + 1) - 1 = i
      BY <2>2, <1>a
    <3>2. allocs'[i + 1] = allocs[i]
      BY <3>1, <1>1
    <3> QED BY <3>1, <3>2
  <2> QED BY <1>a, <2>1, <2>2
<1>9. ASSUME \A i \in 1 .. n : ~Same(allocs[i], b)
      PROVE  OneEach(allocs')
  <2>1. prev + 1 \in 1 .. Len(allocs) + 1 /\ allocs' = InsertAt(allocs, prev + 1, b)
    BY <1>a DEF Insert, n
  <2>2. OneEach(allocs) /\ \A i \in 1 .. Len(allocs) : ~Same(allocs[i], b)
    BY <1>9 DEF IInv, ListOk, n
  <2> QED BY <2>1, <2>2, <1>a, InsertOnce
<1>10. ASSUME NEW i \in 1 .. n PROVE allocs[i].end <= Start(b) \/ b.end <= Start(allocs[i])
  BY <1>4, <1>a
<1>11. \E j \in 1 .. n + 1 : allocs'[j] = b
  BY <1>1, <1>a
<1> QED BY <1>a, <1>1, <1>5, <1>6, <1>7, <1>8, <1>9, <1>10, <1>11 DEF Adds, n

LEMMA Removed ==
  ASSUME IInv, NEW k \in 1 .. Len(allocs), allocs' = RemoveAt(allocs, k),
         tom' = IF k = Len(allocs) THEN EndOf(k - 1) ELSE tom
  PROVE  Drops(k)
<1> DEFINE n == Len(allocs)
           at(i) == IF i < k THEN i ELSE i + 1
<1>a. allocs \in Seq(BlockType) /\ n \in Nat /\ k \in 1 .. n /\ tom \in Nat /\ Offset \in Nat
  BY ListFacts
<1>b. /\ \A i \in 1 .. n : allocs[i].end \in Nat
      /\ tom = IF n = 0 THEN Offset ELSE allocs[n].end
  BY ListFacts
<1>1. allocs' \in Seq(BlockType) /\ Len(allocs') = n - 1
  BY <1>a, RemoveAtFacts
<1>2. \A i \in 1 .. n - 1 : allocs'[i] = allocs[at(i)]
  BY <1>a, RemoveAtFacts
<1>3. /\ \A i \in 1 .. n - 1 : at(i) \in 1 .. n /\ at(i) # k
      /\ \A i, j \in 1 .. n - 1 : i < j => at(i) < at(j)
      /\ n > 1 /\ k # n => at(n - 1) = n
      /\ n > 1 /\ k = n => at(n - 1) = n - 1
  BY <1>a
<1>4. \A i \in 1 .. n : i # k => \E j \in 1 .. n - 1 : at(j) = i
  <2> SUFFICES ASSUME NEW i \in 1 .. n, i # k PROVE \E j \in 1 .. n - 1 : at(j) = i
    OBVIOUS
  <2>1. CASE i < k
    BY <2>1, <1>a
  <2>2. CASE i > k
    <3>1. i - 1 \in 1 .. n - 1 /\ at(i - 1) = i
      BY <2>2, <1>a
    <3> QED BY <3>1
  <2> QED BY <2>1, <2>2, <1>a
<1> HIDE DEF n, at
<1>5. Sorted(allocs')
  <2>1. \A i, j \in 1 .. n : i < j => allocs[i].end <= Start(allocs[j])
    BY DEF IInv, ListOk, Sorted, n
  <2>2. ASSUME NEW i \in 1 .. n - 1, NEW j \in 1 .. n - 1, i < j
        PROVE  allocs'[i].end <= Start(allocs'[j])
    BY <2>1, <2>2, <1>2, <1>3
  <2> QED BY <2>2, <1>1 DEF Sorted
<1>6. OneEach(allocs')
  <2>1. OneEach(allocs)
    BY DEF IInv, ListOk
  <2> QED BY <2>1, <1>a, RemoveOnce
<1>7. \A j \in 1 .. Len(allocs') : \E i \in 1 .. n : i # k /\ allocs'[j] = allocs[i]
  BY <1>1, <1>2, <1>3
<1>8. \A i \in 1 .. n : i # k => \E j \in 1 .. Len(allocs') : allocs'[j] = allocs[i]
  BY <1>1, <1>2, <1>4
<1>9. tom' = (IF Len(allocs') = 0 THEN Offset ELSE allocs'[Len(allocs')].end) /\ tom' \in Nat
  <2>1. CASE k # n
    <3>1. n > 1 /\ n - 1 \in 1 .. n - 1 /\ tom' = tom
      BY <2>1, <1>a DEF n
    <3>2. allocs'[n - 1] = allocs[n]
      BY <3>1, <2>1, <1>2, <1>3
    <3> QED BY <3>1, <3>2, <1>a, <1>b, <1>1
  <2>2. CASE k = n /\ n > 1
    <3>1. n - 1 \in 1 .. n - 1 /\ n - 1 \in 1 .. n /\ tom' = allocs[n - 1].end
      BY <2>2, <1>a DEF EndOf, n
    <3>2. allocs'[n - 1] = allocs[n - 1]
      BY <3>1, <2>2, <1>2, <1>3
    <3> QED BY <3>1, <3>2, <2>2, <1>a, <1>b, <1>1
  <2>3. CASE k = n /\ n = 1
    BY <2>3, <1>a, <1>1 DEF EndOf, n
  <2> QED BY <2>1, <2>2, <2>3, <1>a
<1> QED BY <1>1, <1>5, <1>6, <1>7, <1>8, <1>9 DEF Drops, n

\* The test of amdgv_memmgr_free finds the last node and no other.
LEMMA Unlinked ==
  ASSUME IInv, NEW k \in 1 .. Len(allocs), Unlink(k)
  PROVE  Drops(k)
<1> DEFINE n == Len(allocs)
<1>1. /\ n \in Nat /\ k \in 1 .. n /\ tom = allocs[n].end /\ n \in 1 .. n
      /\ \A i \in 1 .. n : /\ allocs[i].end \in Nat /\ Start(allocs[i]) \in Int
                           /\ Start(allocs[i]) < allocs[i].end
  BY ListFacts
<1>2. \A i \in 1 .. n : i < n => allocs[i].end <= Start(allocs[n])
  BY <1>1 DEF IInv, ListOk, Sorted
<1>3. allocs[k].end >= tom <=> k = n
  <2> HIDE DEF n
  <2> QED BY <1>1, <1>2
<1>4. tom' = IF k = Len(allocs) THEN EndOf(k - 1) ELSE tom
  BY <1>3 DEF Unlink
<1> QED BY <1>4, Removed DEF Unlink

-----------------------------------------------------------------------------
(* The searches.                                                           *)

\* A block that a client asks for.
Wanted(len, al) == len \in Nat \ {0} /\ al \in Nat \ {0} /\ (down => len % al = 0)

\* Rounding the end down from the top or the start up comes to the same.
LEMMA EndFromFacts ==
  ASSUME NEW at \in Nat, NEW len, NEW al, Wanted(len, al)
  PROVE  EndFrom(at, len, al) = Align(at, al) + len
BY AlignShift DEF EndFrom, Wanted

\* The loop of amdgv_memmgr_find_size carries the rounded end of the node
\* before: the blocks are in order and none ends before the region.
LEMMA ReachedIs ==
  ASSUME IInv, NEW al \in Nat \ {0}, NEW i \in 1 .. Len(allocs)
  PROVE  Max({Align(Offset, al)} \union {Align(allocs[j].end, al) : j \in 1 .. i - 1})
           = Align(EndOf(i - 1), al)
<1> DEFINE S == {Align(Offset, al)} \union {Align(allocs[j].end, al) : j \in 1 .. i - 1}
<1>1. /\ Len(allocs) \in Nat /\ Offset \in Nat
      /\ \A j \in 1 .. Len(allocs) : /\ allocs[j].end \in Nat /\ Start(allocs[j]) \in Int
                                     /\ Start(allocs[j]) < allocs[j].end
  BY ListFacts
<1>2. \A j \in 1 .. Len(allocs) : Offset <= allocs[j].end
  BY DEF IInv, ListOk, Bounded
<1>3. \A j \in 1 .. Len(allocs) : Align(allocs[j].end, al) \in Nat /\ Align(Offset, al) <= Align(allocs[j].end, al)
  BY <1>1, <1>2, AlignFacts, AlignMonotone
<1>4. Align(Offset, al) \in Nat
  BY <1>1, AlignFacts
<1>5. S \subseteq Nat
  BY <1>1, <1>3, <1>4
<1>6. CASE i = 1
  <2>1. S = {Align(Offset, al)} /\ EndOf(i - 1) = Offset
    BY <1>6 DEF EndOf
  <2>2. Max(S) = Align(Offset, al)
    <3> DEFINE m == Align(Offset, al)
    <3>1. m \in S /\ \A y \in S : y <= m
      BY <2>1, <1>4
    <3> HIDE DEF S, m
    <3>2. Max(S) = m
      BY <3>1, <1>5, MaxIs
    <3> QED BY <3>2 DEF m
  <2> QED BY <2>1, <2>2
<1>7. CASE i > 1
  <2>1. i - 1 \in 1 .. i - 1 /\ i - 1 \in 1 .. Len(allocs) /\ EndOf(i - 1) = allocs[i - 1].end
    BY <1>1, <1>7 DEF EndOf
  <2>2. ASSUME NEW j \in 1 .. i - 1 PROVE Align(allocs[j].end, al) <= Align(allocs[i - 1].end, al)
    <3>1. allocs[j].end <= allocs[i - 1].end
      <4>1. j < i - 1 => allocs[j].end <= Start(allocs[i - 1])
        BY <2>1, <1>1 DEF IInv, ListOk, Sorted
      <4> QED BY <4>1, <2>1, <1>1
    <3> QED BY <3>1, <2>1, <1>1, AlignMonotone
  <2> DEFINE m == Align(allocs[i - 1].end, al)
  <2>3. m \in S
    BY <2>1
  <2>4. \A y \in S : y <= m
    BY <2>1, <2>2, <1>3
  <2>5. Max(S) = m
    <3> HIDE DEF S, m
    <3> QED BY <2>3, <2>4, <1>5, MaxIs
  <2> QED BY <2>1, <2>5
<1> QED BY <1>6, <1>7, <1>1

LEMMA FindSizeFacts ==
  ASSUME IInv, NEW len, NEW al, Wanted(len, al), CanPlace(len, al)
  PROVE  LET prev == FindSize(len, al) IN
         /\ prev \in 0 .. Len(allocs) /\ EndOf(prev) \in Nat /\ Offset <= EndOf(prev)
         /\ Align(EndOf(prev), al) + len <= Offset + size
         /\ \A i \in 1 .. prev : allocs[i].end <= EndOf(prev)
         /\ \A i \in prev + 1 .. Len(allocs) : Align(EndOf(prev), al) + len <= Start(allocs[i])
         /\ prev < Len(allocs) => EndOf(prev) # tom
<1> DEFINE n == Len(allocs)
           Reached(i) == Max({Align(Offset, al)} \union {Align(allocs[j].end, al) : j \in 1 .. i - 1})
           fits == {i \in 1 .. n : Start(allocs[i]) > Reached(i) + len}
           prev == FindSize(len, al)
<1>a. /\ n \in Nat /\ Offset \in Nat /\ size \in Nat /\ tom \in Nat
      /\ \A j \in 1 .. n : /\ allocs[j].end \in Nat /\ Start(allocs[j]) \in Int
                           /\ Start(allocs[j]) < allocs[j].end
      /\ tom = IF n = 0 THEN Offset ELSE allocs[n].end
  BY ListFacts
<1>b. \A i, j \in 1 .. n : i < j => allocs[i].end <= Start(allocs[j])
  BY DEF IInv, ListOk, Sorted
<1>c. \A j \in 1 .. n : Offset <= allocs[j].end /\ allocs[j].end <= Offset + size
  BY DEF IInv, ListOk, Bounded
<1>d. len \in Nat \ {0} /\ al \in Nat \ {0}
  BY DEF Wanted
<1>1. prev = IF fits = {} THEN n ELSE Min(fits) - 1
  BY DEF FindSize
<1>2. \A i \in 1 .. n : Reached(i) = Align(EndOf(i - 1), al)
  BY <1>d, ReachedIs
<1>3. ASSUME NEW i \in 0 .. n PROVE EndOf(i) \in Nat /\ Offset <= EndOf(i)
  BY <1>a, <1>c DEF EndOf
<1>4. ASSUME NEW i \in 0 .. n, NEW j \in 1 .. i PROVE allocs[j].end <= EndOf(i)
  <2>1. CASE j = i
    <3>1. EndOf(i) = allocs[j].end /\ j \in 1 .. n
      BY <2>1, <1>a DEF EndOf
    <3> QED BY <3>1, <1>a
  <2>2. CASE j < i
    <3>1. EndOf(i) = allocs[i].end /\ i \in 1 .. n /\ j \in 1 .. n
      BY <2>2, <1>a DEF EndOf
    <3>2. allocs[j].end <= Start(allocs[i])
      BY <2>2, <3>1, <1>b
    <3> QED BY <3>1, <3>2, <1>a
  <2> QED BY <2>1, <2>2, <1>a
<1>5. ASSUME NEW i \in 0 .. n PROVE Align(EndOf(i), al) \in Nat /\ EndOf(i) <= Align(EndOf(i), al)
  BY <1>3, <1>d, AlignFacts
<1> HIDE DEF prev, n
<1>6. CASE fits = {}
  <2>1. prev = n /\ EndOf(prev) = tom /\ prev \in 0 .. n
    <3>1. prev = n
      BY <1>1, <1>6
    <3> QED BY <3>1, <1>a DEF EndOf
  <2>2. Align(EndOf(prev), al) + len <= Offset + size
    BY <2>1 DEF CanPlace, Room, prev
  <2>3. \A i \in 1 .. prev : allocs[i].end <= EndOf(prev)
    BY <2>1, <1>4
  <2> QED BY <2>1, <2>2, <2>3, <1>3, <1>a DEF prev, n
<1>7. CASE fits # {}
  <2> DEFINE m == Min(fits)
  <2>1. m \in fits
    <3>1. fits \subseteq Nat
      BY <1>a
    <3> HIDE DEF fits
    <3> QED BY <3>1, <1>7, MinFacts
  <2>2. m \in 1 .. n /\ Start(allocs[m]) > Align(EndOf(m - 1), al) + len
    BY <2>1, <1>2
  <2>3. prev = m - 1
    BY <1>1, <1>7
  <2> HIDE DEF m, fits
  <2>4. prev \in 0 .. n /\ prev + 1 = m /\ prev < n
    BY <2>2, <2>3, <1>a
  <2>5. Start(allocs[m]) > Align(EndOf(prev), al) + len
    BY <2>2, <2>3
  <2>6. ASSUME NEW i \in prev + 1 .. n PROVE Align(EndOf(prev), al) + len <= Start(allocs[i])
    <3>1. i = m \/ (i > m /\ i \in 1 .. n)
      BY <2>4, <2>2, <1>a
    <3>2. i > m => allocs[m].end <= Start(allocs[i])
      BY <3>1, <2>2, <1>b
    <3> QED BY <3>1, <3>2, <2>2, <2>5, <2>4, <1>5, <1>a, <1>d
  <2>7. n \in prev + 1 .. n /\ n \in 1 .. n /\ tom = allocs[n].end
    BY <2>4, <1>a
  <2>8. Align(EndOf(prev), al) + len < tom /\ tom <= Offset + size
    BY <2>6, <2>7, <2>4, <1>5, <1>a, <1>c, <1>d
  <2>9. EndOf(prev) # tom /\ Align(EndOf(prev), al) + len <= Offset + size
    BY <2>8, <2>4, <1>3, <1>5, <1>a, <1>d
  <2>10. \A i \in 1 .. prev : allocs[i].end <= EndOf(prev)
    BY <2>4, <1>4
  <2> QED BY <2>4, <2>6, <2>9, <2>10, <1>3 DEF prev, n
<1> QED BY <1>6, <1>7

LEMMA BlockPlaced ==
  ASSUME IInv, NEW k \in {"mem", "bad", "nps"}, NEW h \in Client \union Pages, NEW len, NEW al,
         Wanted(len, al), PlaceBlock(k, h, len, al)
  PROVE  \E end \in Nat :
           /\ Block(k, h, end, len, al) \in BlockType /\ Adds(Block(k, h, end, len, al))
           /\ Offset <= end - len /\ end <= Offset + size
<1> DEFINE prev == FindSize(len, al)
           at == EndOf(prev)
           end == Align(at, al) + len
           b == Block(k, h, end, len, al)
<1>1. CanPlace(len, al) /\ Insert(prev, Block(k, h, EndFrom(at, len, al), len, al))
  BY DEF PlaceBlock
<1>2. /\ prev \in 0 .. Len(allocs) /\ at \in Nat /\ Offset <= at
      /\ Align(at, al) + len <= Offset + size
      /\ \A i \in 1 .. prev : allocs[i].end <= at
      /\ \A i \in prev + 1 .. Len(allocs) : Align(at, al) + len <= Start(allocs[i])
      /\ prev < Len(allocs) => at # tom
  BY <1>1, FindSizeFacts
<1>a. len \in Nat \ {0} /\ al \in Nat \ {0} /\ Offset \in Nat /\ size \in Nat /\ Len(allocs) \in Nat
  BY ListFacts DEF Wanted
<1> HIDE DEF prev, at
<1>3. Align(at, al) \in Nat /\ at <= Align(at, al)
  BY <1>2, <1>a, AlignFacts
<1>4. EndFrom(at, len, al) = end
  BY <1>2, EndFromFacts
<1>5. end \in Nat /\ end - len = Align(at, al)
  BY <1>3, <1>a
<1>6. b \in BlockType /\ b.end = end /\ b.len = len /\ Start(b) = end - len
  BY <1>5, <1>a DEF Block, BlockType, Start
<1>7. Insert(prev, b)
  BY <1>1, <1>4
<1> HIDE DEF b
<1>8. \A i \in 1 .. prev : allocs[i].end <= Start(b)
  <2> SUFFICES ASSUME NEW i \in 1 .. prev PROVE allocs[i].end <= Start(b)
    OBVIOUS
  <2>1. allocs[i].end \in Nat /\ allocs[i].end <= at
    BY <1>2, <1>a, ListFacts
  <2> QED BY <2>1, <1>2, <1>3, <1>5, <1>6
<1>9. Fits(prev, b)
  BY <1>2, <1>6, <1>8 DEF Fits, at
<1>10. Adds(b)
  BY <1>6, <1>7, <1>9, <1>a, Inserted
<1>11. Offset <= end - len /\ end <= Offset + size
  BY <1>2, <1>3, <1>5, <1>a
<1> QED BY <1>5, <1>6, <1>10, <1>11 DEF b

LEMMA PagePlaced ==
  ASSUME IInv, NEW k \in {"mem", "bad", "nps"}, NEW h \in Client \union Pages, NEW at \in Nat,
         Offset <= Align(at, PageLen) + PageLen, PlaceAt(k, h, at)
  PROVE  LET b == Block(k, h, Align(at, PageLen) + PageLen, PageLen, PageLen) IN
         /\ b \in BlockType /\ Adds(b)
         /\ Start(b) = Align(at, PageLen) /\ b.end <= Offset + size
<1> DEFINE n == Len(allocs)
           start == Align(at, PageLen)
           end == start + PageLen
           b == Block(k, h, end, PageLen, PageLen)
           past == {i \in 1 .. n : allocs[i].end > start}
           prev == FindSizeAt(at, PageLen)
<1>a. /\ n \in Nat /\ Offset \in Nat /\ size \in Nat /\ tom \in Nat /\ PageLen \in Nat \ {0}
      /\ \A j \in 1 .. n : /\ allocs[j].end \in Nat /\ Start(allocs[j]) \in Int
                           /\ Start(allocs[j]) < allocs[j].end
      /\ tom = IF n = 0 THEN Offset ELSE allocs[n].end
  BY ListFacts, SizeAssumption
<1>b. \A i, j \in 1 .. n : i < j => allocs[i].end <= Start(allocs[j])
  BY DEF IInv, ListOk, Sorted
<1>c. PageLen % PageLen = 0
  BY <1>a
<1>1. /\ end <= Offset + size /\ prev # None
      /\ Insert(prev, Block(k, h, EndFrom(at, PageLen, PageLen), PageLen, PageLen))
  BY DEF PlaceAt, CanPlaceAt
<1>2. start \in Nat
  BY <1>a, AlignFacts
<1>3. EndFrom(at, PageLen, PageLen) = end
  <2>1. Wanted(PageLen, PageLen)
    BY <1>a, <1>c DEF Wanted
  <2> QED BY <2>1, EndFromFacts
<1>4. prev = IF past = {} THEN n
             ELSE IF Start(allocs[Min(past)]) < end THEN None ELSE Min(past) - 1
  BY DEF FindSizeAt
<1> HIDE DEF start, prev, n
<1>5. b \in BlockType /\ Start(b) = start /\ b.end = end /\ b.len = PageLen
  BY <1>a, <1>2 DEF Block, BlockType, Start
<1> HIDE DEF b
<1>6. ASSUME past = {} PROVE Fits(prev, b)
  <2>1. prev = n
    BY <1>4, <1>6
  <2>2. \A i \in 1 .. n : allocs[i].end <= start
    BY <1>6, <1>a, <1>2
  <2> QED BY <2>1, <2>2, <1>5, <1>a DEF Fits, n
<1>7. ASSUME past # {} PROVE Fits(prev, b)
  <2> DEFINE m == Min(past)
  <2>1. m \in past /\ \A i \in past : m <= i
    <3>1. past \subseteq Nat
      BY <1>a
    <3> HIDE DEF past
    <3> QED BY <3>1, <1>7, MinFacts
  <2>2. m \in 1 .. n /\ allocs[m].end > start /\ \A i \in 1 .. n : i < m => allocs[i].end <= start
    <3>1. m \in 1 .. n /\ allocs[m].end > start
      BY <2>1
    <3> HIDE DEF m
    <3>2. ASSUME NEW i \in 1 .. n, i < m PROVE allocs[i].end <= start
      <4>1. i \notin past
        BY <2>1, <3>1, <3>2, <1>a
      <4> QED BY <4>1, <1>a, <1>2
    <3> QED BY <3>1, <3>2
  <2>3. ~(Start(allocs[m]) < end) /\ prev = m - 1
    BY <1>1, <1>4, <1>7
  <2> HIDE DEF m, past
  <2>4. end <= Start(allocs[m])
    BY <2>2, <2>3, <1>a, <1>2
  <2>5. prev \in 0 .. n /\ prev < n /\ prev + 1 = m
    BY <2>2, <2>3, <1>a
  <2>6. \A i \in 1 .. prev : allocs[i].end <= start
    BY <2>2, <2>5, <1>a
  <2>7. ASSUME NEW i \in prev + 1 .. n PROVE end <= Start(allocs[i])
    <3>1. i = m \/ (i > m /\ i \in 1 .. n)
      BY <2>5, <2>2, <1>a
    <3>2. i > m => allocs[m].end <= Start(allocs[i])
      BY <3>1, <2>2, <1>b
    <3> QED BY <3>1, <3>2, <2>2, <2>4, <1>a, <1>2
  <2>8. n \in prev + 1 .. n /\ n \in 1 .. n /\ tom = allocs[n].end
    BY <2>5, <1>a
  <2>9. end < tom
    BY <2>7, <2>8, <1>a, <1>2
  <2>10. EndOf(prev) # tom
    <3>1. CASE prev = 0
      BY <3>1, <2>9, <1>a, <1>2 DEF EndOf, start
    <3>2. CASE prev > 0
      <4>1. EndOf(prev) <= start /\ EndOf(prev) \in Nat
        BY <3>2, <2>5, <2>6, <1>a DEF EndOf
      <4> QED BY <4>1, <2>9, <1>a, <1>2
    <3> QED BY <3>1, <3>2, <2>5
  <2> QED BY <2>5, <2>6, <2>7, <2>10, <1>5, <1>a DEF Fits, n
<1>8. Fits(prev, b)
  BY <1>6, <1>7
<1>9. Insert(prev, b)
  BY <1>1, <1>3 DEF b
<1>10. Adds(b)
  BY <1>5, <1>8, <1>9, <1>a, Inserted
<1> QED BY <1>1, <1>5, <1>10 DEF b, start

-----------------------------------------------------------------------------
(* What a change of the list keeps.                                        *)

LEMMA AddKeeps ==
  ASSUME IInv, NEW b \in BlockType, Adds(b), Sound(b), UNCHANGED <<down, size>>,
         Offset <= b.end, b.end <= Offset + size, b.kind # "nps" => Offset <= Start(b),
         b.kind = "mem" => \A i \in 1 .. Len(allocs) : ~Same(allocs[i], b)
  PROVE  /\ allocs' \in Seq(BlockType) /\ tom' \in Nat /\ ListOk'
         /\ \A p : (Marked(p) => Marked(p)') /\ (Taken(p) => Taken(p)')
<1>1. ASSUME NEW j \in 1 .. Len(allocs')
      PROVE  /\ Offset <= allocs'[j].end /\ allocs'[j].end <= Offset + size
             /\ allocs'[j].kind # "nps" => Offset <= Start(allocs'[j])
             /\ Sound(allocs'[j])
  <2>1. CASE allocs'[j] = b
    BY <2>1
  <2>2. ASSUME NEW i \in 1 .. Len(allocs), allocs'[j] = allocs[i] PROVE <1>1!2
    BY <2>2 DEF IInv, ListOk, Bounded
  <2> QED BY <2>1, <2>2 DEF Adds
<1>2. \A i \in 1 .. Len(allocs) : \E j \in 1 .. Len(allocs') : allocs'[j] = allocs[i]
  BY DEF Adds
<1>3. ASSUME NEW p PROVE (Marked(p) => Marked(p)') /\ (Taken(p) => Taken(p)')
  BY <1>2 DEF Marked, Taken
<1>4. OneEach(allocs')
  BY DEF Adds, Same
<1>5. (tom = EndOf(Len(allocs)))'
  BY DEF Adds, EndOf
<1>6. Bounded' /\ (\A i \in 1 .. Len(allocs) : Sound(allocs[i]))'
  BY <1>1 DEF Bounded, Sound
<1> QED BY <1>3, <1>4, <1>5, <1>6 DEF Adds, ListOk, Sorted, OneEach

LEMMA DropKeeps ==
  ASSUME IInv, NEW k \in 1 .. Len(allocs), Drops(k), UNCHANGED <<down, size>>
  PROVE  /\ allocs' \in Seq(BlockType) /\ tom' \in Nat /\ ListOk'
         /\ \A p : allocs[k].kind # "bad" => (Marked(p) => Marked(p)')
<1>1. ASSUME NEW j \in 1 .. Len(allocs')
      PROVE  /\ Offset <= allocs'[j].end /\ allocs'[j].end <= Offset + size
             /\ allocs'[j].kind # "nps" => Offset <= Start(allocs'[j])
             /\ Sound(allocs'[j])
  <2>1. PICK i \in 1 .. Len(allocs) : allocs'[j] = allocs[i]
    BY DEF Drops
  <2> QED BY <2>1 DEF IInv, ListOk, Bounded
<1>2. \A i \in 1 .. Len(allocs) : i # k => \E j \in 1 .. Len(allocs') : allocs'[j] = allocs[i]
  BY DEF Drops
<1>3. ASSUME NEW p, allocs[k].kind # "bad", Marked(p) PROVE Marked(p)'
  BY <1>2, <1>3 DEF Marked
<1>5. (tom = EndOf(Len(allocs)))'
  BY DEF Drops, EndOf
<1>6. Bounded' /\ (\A i \in 1 .. Len(allocs) : Sound(allocs[i]))'
  BY <1>1 DEF Bounded, Sound
<1> QED BY <1>3, <1>5, <1>6 DEF Drops, ListOk, Sorted, OneEach

\* The blocks that wait are still others than those in the list.
LEMMA AddApart ==
  ASSUME NEW s, NEW b, Disjoint(allocs, s), Adds(b), \A i \in 1 .. Len(s) : ~Same(b, s[i])
  PROVE  Disjoint(allocs', s)
<1> SUFFICES ASSUME NEW j \in 1 .. Len(allocs'), NEW i \in 1 .. Len(s) PROVE ~Same(allocs'[j], s[i])
  BY DEF Disjoint
<1>1. allocs'[j] = b \/ \E k \in 1 .. Len(allocs) : allocs'[j] = allocs[k]
  BY DEF Adds
<1> QED BY <1>1 DEF Disjoint

LEMMA DropApart ==
  ASSUME NEW s, NEW k, Disjoint(allocs, s), Drops(k)
  PROVE  Disjoint(allocs', s)
<1> SUFFICES ASSUME NEW j \in 1 .. Len(allocs'), NEW i \in 1 .. Len(s) PROVE ~Same(allocs'[j], s[i])
  BY DEF Disjoint
<1>1. PICK m \in 1 .. Len(allocs) : allocs'[j] = allocs[m]
  BY DEF Drops
<1> QED BY <1>1 DEF Disjoint

\* What is kept when the list does not change.
LEMMA ListStays ==
  ASSUME IInv, UNCHANGED <<down, size, tom, allocs>>
  PROVE  /\ allocs' \in Seq(BlockType) /\ tom' \in Nat /\ ListOk'
         /\ \A p : (Marked(p) => Marked(p)') /\ (Taken(p) => Taken(p)')
<1>1. allocs' \in Seq(BlockType) /\ tom' \in Nat
  BY ListFacts
<1>2. Sorted(allocs') /\ OneEach(allocs')
  BY DEF IInv, ListOk, Sorted, OneEach
<1>3. (tom = EndOf(Len(allocs)))' /\ Bounded'
  BY DEF IInv, ListOk, EndOf, Bounded
<1>4. (\A i \in 1 .. Len(allocs) : Sound(allocs[i]))'
  BY DEF IInv, ListOk, Sound
<1>5. \A p : (Marked(p) => Marked(p)') /\ (Taken(p) => Taken(p)')
  BY DEF Marked, Taken
<1> QED BY <1>1, <1>2, <1>3, <1>4, <1>5 DEF ListOk, Sorted, OneEach

LEMMA ReservesStay ==
  ASSUME IInv, UNCHANGED <<down, allocs, reserves>>
  PROVE  Waiting(reserves)'
<1>1. Waiting(reserves)
  BY DEF IInv
<1> QED BY <1>1 DEF Waiting, Disjoint, OneEach, Sound

LEMMA MovedStay ==
  ASSUME IInv, UNCHANGED <<down, allocs, moved>>
  PROVE  Waiting(moved)'
<1>1. Waiting(moved)
  BY DEF IInv
<1> QED BY <1>1 DEF Waiting, Disjoint, OneEach, Sound

LEMMA KeptStays ==
  ASSUME IInv, UNCHANGED <<down, allocs, bps, bpsMem>>
  PROVE  Kept'
<1>1. Kept
  BY DEF IInv
<1> QED BY <1>1 DEF Kept, Marked

\* A client without a block has none anywhere.
LEMMA NoBlock ==
  ASSUME IInv, NEW c, ~HasBlock(c)
  PROVE  /\ \A i \in 1 .. Len(allocs) : ~(allocs[i].kind = "mem" /\ allocs[i].h = c)
         /\ \A i \in 1 .. Len(reserves) : ~(reserves[i].kind = "mem" /\ reserves[i].h = c)
         /\ \A i \in 1 .. Len(moved) : ~(moved[i].kind = "mem" /\ moved[i].h = c)
<1>a. ASSUME NEW s \in Seq(BlockType), NEW t \in Seq(BlockType)
      PROVE  /\ s \o t \in Seq(BlockType)
             /\ \A i \in 1 .. Len(s) : \E j \in DOMAIN (s \o t) : (s \o t)[j] = s[i]
             /\ \A i \in 1 .. Len(t) : \E j \in DOMAIN (s \o t) : (s \o t)[j] = t[i]
  <2>1. /\ s \o t \in Seq(BlockType) /\ Len(s \o t) = Len(s) + Len(t)
        /\ DOMAIN (s \o t) = 1 .. Len(s) + Len(t) /\ Len(s) \in Nat /\ Len(t) \in Nat
    BY ConcatProperties
  <2>2. ASSUME NEW i \in 1 .. Len(s) PROVE (s \o t)[i] = s[i] /\ i \in 1 .. Len(s) + Len(t)
    BY <2>1, ConcatProperties
  <2>3. ASSUME NEW i \in 1 .. Len(t) PROVE (s \o t)[Len(s) + i] = t[i] /\ Len(s) + i \in 1 .. Len(s) + Len(t)
    BY <2>1, ConcatProperties
  <2> QED BY <2>1, <2>2, <2>3
<1>b. ASSUME NEW s \in Seq(BlockType) PROVE DOMAIN s = 1 .. Len(s)
  OBVIOUS
<1> DEFINE all == allocs \o reserves \o moved
<1>1. allocs \in Seq(BlockType) /\ reserves \in Seq(BlockType) /\ moved \in Seq(BlockType)
  BY ListFacts
<1>2. \A i \in 1 .. Len(moved) : \E j \in DOMAIN all : all[j] = moved[i]
  <2>1. allocs \o reserves \in Seq(BlockType)
    BY <1>a, <1>1
  <2> QED BY <2>1, <1>a, <1>1
<1>3. \A i \in 1 .. Len(allocs \o reserves) : \E j \in DOMAIN all : all[j] = (allocs \o reserves)[i]
  BY <1>a, <1>1
<1>4. /\ allocs \o reserves \in Seq(BlockType)
      /\ \A i \in 1 .. Len(allocs) : \E j \in DOMAIN (allocs \o reserves) : (allocs \o reserves)[j] = allocs[i]
      /\ \A i \in 1 .. Len(reserves) : \E j \in DOMAIN (allocs \o reserves) : (allocs \o reserves)[j] = reserves[i]
  BY <1>a, <1>1
<1>5. DOMAIN (allocs \o reserves) = 1 .. Len(allocs \o reserves)
  BY <1>b, <1>4
<1>6. \A j \in DOMAIN all : ~(all[j].kind = "mem" /\ all[j].h = c)
  BY DEF HasBlock, Range
<1> HIDE DEF all
<1>7. \A i \in 1 .. Len(allocs \o reserves) :
        ~((allocs \o reserves)[i].kind = "mem" /\ (allocs \o reserves)[i].h = c)
  BY <1>3, <1>6
<1> QED BY <1>2, <1>4, <1>5, <1>6, <1>7

-----------------------------------------------------------------------------
(* The invariant holds at first.                                           *)

LEMMA InitInv == Init => IInv
<1> SUFFICES ASSUME Init PROVE IInv
  OBVIOUS
<1>1. size \in Sizes /\ size \in Nat /\ Offset \in Nat /\ PageLen \in Nat /\ MaxIndex \in Nat
  BY SizeAssumption DEF Init
<1>2. PICK k \in 0 .. MaxNps : nps \in kSubset(k, Pages)
  BY DEF Init
<1>3. nps \subseteq Pages /\ Cardinality(nps) \in Nat
  BY <1>2 DEF kSubset
<1>4. /\ todo \in [1 .. Cardinality(nps) -> nps] /\ Range(todo) = nps
      /\ \A i, j \in DOMAIN todo : i < j => todo[i] < todo[j]
  BY DEF Init
<1>5. todo \in Seq(Pages) /\ Len(todo) = Cardinality(nps) /\ DOMAIN todo = 1 .. Len(todo)
  <2>1. todo \in [1 .. Cardinality(nps) -> Pages]
    BY <1>3, <1>4
  <2> QED BY <2>1, <1>3
<1>6. Pages \subseteq Nat
  BY SizeAssumption DEF Pages
<1>7. TypeOK
  <2>1. down \in BOOLEAN /\ uniras \in BOOLEAN /\ tom \in Nat
    BY <1>1 DEF Init
  <2>2. allocs \in Seq(BlockType) /\ reserves \in Seq(BlockType) /\ moved \in Seq(BlockType)
    BY DEF Init
  <2>3. used \in 0 .. MaxIndex /\ phase \in {"early", "ready"}
    BY <1>1 DEF Init
  <2>4. /\ bps \in Seq(Pages) /\ bpsMem \in Seq(Pages \union {None}) /\ Len(bpsMem) = Len(bps)
        /\ lastReserved \in 0 .. Len(bps)
    BY DEF Init
  <2>5. todo \in Seq(Nat) /\ pending \subseteq Pages
    <3>1. todo \in [1 .. Cardinality(nps) -> Nat]
      BY <1>3, <1>4, <1>6
    <3> QED BY <3>1, <1>3 DEF Init
  <2> QED BY <1>1, <1>3, <2>1, <2>2, <2>3, <2>4, <2>5 DEF TypeOK
<1>8. ListOk /\ Waiting(reserves) /\ Waiting(moved)
  BY DEF Init, ListOk, Sorted, EndOf, Bounded, OneEach, Waiting, Disjoint
<1>9. Phases
  <2>1. phase \in {"early", "ready"} /\ allocs = <<>> /\ reserves = <<>> /\ moved = <<>>
    BY DEF Init
  <2>2. \A i, j \in 1 .. Len(todo) : i < j => todo[i] < todo[j]
    BY <1>4, <1>5
  <2> QED BY <2>1, <2>2, <1>5 DEF Phases
<1>10. Covered
  <2>1. \A p \in nps : \E i \in 1 .. Len(todo) : todo[i] = p
    BY <1>4, <1>5 DEF Range
  <2> QED BY <2>1 DEF Init, Covered
<1>11. AvoidsNps /\ Kept
  BY DEF Init, AvoidsNps, Kept
<1> QED BY <1>7, <1>8, <1>9, <1>10, <1>11 DEF IInv

-----------------------------------------------------------------------------
(* Every action keeps it: the clients.                                     *)

LEMMA AskedFacts ==
  ASSUME NEW r \in Asked
  PROVE  Wanted(r.len, r.align)
BY RequestsAssumption DEF Asked, Wanted

\* A client's block is placed: what that does to the list.
LEMMA MemPlaced ==
  ASSUME IInv, NEW c \in Client, NEW len, NEW al, Wanted(len, al), PlaceBlock("mem", c, len, al),
         UNCHANGED <<down, size>>,
         \A i \in 1 .. Len(allocs) : ~(allocs[i].kind = "mem" /\ allocs[i].h = c)
  PROVE  \E b \in BlockType :
           /\ b.kind = "mem" /\ b.h = c /\ Adds(b)
           /\ Offset <= Start(b) /\ b.end <= Offset + size /\ Start(b) < b.end
           /\ allocs' \in Seq(BlockType) /\ tom' \in Nat /\ ListOk'
           /\ \A p : (Marked(p) => Marked(p)') /\ (Taken(p) => Taken(p)')
<1>1. PICK end \in Nat :
        /\ Block("mem", c, end, len, al) \in BlockType /\ Adds(Block("mem", c, end, len, al))
        /\ Offset <= end - len /\ end <= Offset + size
  BY BlockPlaced
<1> DEFINE b == Block("mem", c, end, len, al)
<1>2. /\ b.kind = "mem" /\ b.h = c /\ b.end = end /\ b.len = len /\ b.al = al
      /\ Start(b) = end - len
  BY DEF Block, Start
<1>3. b \in BlockType /\ Adds(b)
  BY <1>1
<1>4. Sound(b)
  BY <1>2 DEF Sound, Wanted
<1> HIDE DEF b
<1>5. \A i \in 1 .. Len(allocs) : ~Same(allocs[i], b)
  BY <1>2 DEF Same
<1>6. Offset <= Start(b) /\ Start(b) < b.end /\ b.end <= Offset + size /\ Offset <= b.end
  BY <1>1, <1>2, ListFacts DEF Wanted
<1>7. /\ allocs' \in Seq(BlockType) /\ tom' \in Nat /\ ListOk'
      /\ \A p : (Marked(p) => Marked(p)') /\ (Taken(p) => Taken(p)')
  BY <1>3, <1>4, <1>5, <1>6, AddKeeps
<1> QED BY <1>2, <1>3, <1>6, <1>7

\* The first of a list of waiting blocks is placed.
LEMMA HeadPlaced ==
  ASSUME IInv, NEW s \in Seq(BlockType), Waiting(s), s # <<>>, UNCHANGED <<down, size>>,
         PlaceBlock("mem", Head(s).h, Head(s).len, Head(s).al)
  PROVE  /\ Tail(s) \in Seq(BlockType) /\ OneEach(Tail(s)) /\ Disjoint(allocs', Tail(s))
         /\ \A i \in 1 .. Len(Tail(s)) : Sound(Tail(s)[i]) /\ Tail(s)[i].kind = "mem"
         /\ \E b \in BlockType :
              /\ b.kind = "mem" /\ b.h \in Client /\ b.h = Head(s).h /\ Adds(b)
              /\ \A i \in 1 .. Len(allocs) : ~Same(allocs[i], b)
              /\ Offset <= Start(b) /\ b.end <= Offset + size /\ Start(b) < b.end
              /\ allocs' \in Seq(BlockType) /\ tom' \in Nat /\ ListOk'
              /\ \A p : (Marked(p) => Marked(p)') /\ (Taken(p) => Taken(p)')
<1> DEFINE t == Tail(s)
<1>1. /\ Head(s) = s[1] /\ 1 \in 1 .. Len(s) /\ Head(s) \in BlockType
      /\ t \in Seq(BlockType) /\ Len(t) = Len(s) - 1
  BY TailFacts
<1>2. \A i \in 1 .. Len(s) - 1 : t[i] = s[i + 1] /\ i + 1 \in 1 .. Len(s)
  BY TailFacts
<1>3. PICK d \in BlockType : d = Head(s)
  BY <1>1
<1>4. Sound(d) /\ d.kind = "mem" /\ \A i \in 1 .. Len(allocs) : ~Same(allocs[i], d)
  BY <1>1, <1>3 DEF Waiting, Disjoint
<1>5. d.h \in Client /\ Wanted(d.len, d.al)
  BY <1>3, <1>4, BlockFacts DEF Sound, Wanted
<1>6. \A i \in 1 .. Len(allocs) : ~(allocs[i].kind = "mem" /\ allocs[i].h = d.h)
  BY <1>4 DEF Same
<1>7. PICK b \in BlockType :
        /\ b.kind = "mem" /\ b.h = d.h /\ Adds(b)
        /\ Offset <= Start(b) /\ b.end <= Offset + size /\ Start(b) < b.end
        /\ allocs' \in Seq(BlockType) /\ tom' \in Nat /\ ListOk'
        /\ \A p : (Marked(p) => Marked(p)') /\ (Taken(p) => Taken(p)')
  <2>1. PlaceBlock("mem", d.h, d.len, d.al)
    BY <1>3
  <2> QED BY <2>1, <1>5, <1>6, MemPlaced
<1>8. OneEach(t) /\ \A i \in 1 .. Len(t) : ~Same(t[i], d)
  BY <1>3, TailOnce DEF Waiting
<1>9. \A i \in 1 .. Len(t) : Sound(t[i]) /\ t[i].kind = "mem"
  BY <1>1, <1>2 DEF Waiting
<1>10. Disjoint(allocs', t)
  <2>1. Disjoint(allocs, t)
    BY <1>1, <1>2 DEF Waiting, Disjoint
  <2>2. \A i \in 1 .. Len(t) : ~Same(b, t[i])
    BY <1>4, <1>7, <1>8 DEF Same
  <2> QED BY <2>1, <2>2, <1>7, AddApart
<1>11. \A i \in 1 .. Len(allocs) : ~Same(allocs[i], b)
  BY <1>4, <1>7 DEF Same
<1> QED BY <1>1, <1>3, <1>5, <1>7, <1>8, <1>9, <1>10, <1>11

LEMMA AllocStep ==
  ASSUME IInv, NEW c \in Client, Alloc(c)
  PROVE  IInv'
<1>1. PICK r \in Asked : PlaceBlock("mem", c, r.len, r.align)
  BY DEF Alloc
<1>2. /\ UNCHANGED <<down, uniras, size, used, bps, bpsMem, lastReserved, pending, phase, nps, todo, moved, reserves>>
      /\ phase = "ready" /\ ~HasBlock(c)
  BY DEF Alloc, config, ecc, job
<1>3. /\ \A i \in 1 .. Len(allocs) : ~(allocs[i].kind = "mem" /\ allocs[i].h = c)
      /\ reserves = <<>> /\ moved = <<>>
  BY <1>2, NoBlock DEF IInv, Phases
<1>4. PICK b \in BlockType :
        /\ b.kind = "mem" /\ b.h = c /\ Adds(b)
        /\ allocs' \in Seq(BlockType) /\ tom' \in Nat /\ ListOk'
        /\ \A p : (Marked(p) => Marked(p)') /\ (Taken(p) => Taken(p)')
  BY <1>1, <1>2, <1>3, AskedFacts, MemPlaced
<1>5. TypeOK'
  BY <1>2, <1>4 DEF IInv, TypeOK
<1>6. Waiting(reserves)' /\ Waiting(moved)'
  BY <1>2, <1>3 DEF Waiting, OneEach, Disjoint
<1>7. Phases'
  <2>1. \A j \in 1 .. Len(allocs') : allocs'[j].kind # "nps"
    BY <1>2, <1>4 DEF Adds, IInv, Phases
  <2> QED BY <2>1, <1>2, <1>3 DEF Phases
<1>8. Covered' /\ AvoidsNps' /\ Kept'
  BY <1>2, <1>4 DEF IInv, Covered, AvoidsNps, Kept
<1> QED BY <1>4, <1>5, <1>6, <1>7, <1>8 DEF IInv

LEMMA AllocEarlyStep ==
  ASSUME IInv, NEW c \in Client, AllocEarly(c)
  PROVE  IInv'
<1>1. /\ UNCHANGED <<down, uniras, size, tom, allocs, used, bps, bpsMem, lastReserved, pending, phase, nps, todo, moved>>
      /\ phase = "early" /\ ~HasBlock(c)
  BY DEF AllocEarly, config, list, ecc
<1>2. PICK r \in Asked :
        LET before == {i \in 1 .. Len(reserves) : r.len < reserves[i].len}
        IN  reserves' = InsertAt(reserves, Cardinality(before) + 1, Block("mem", c, 0, r.len, r.align))
  BY DEF AllocEarly
<1> DEFINE before == {i \in 1 .. Len(reserves) : r.len < reserves[i].len}
           p == Cardinality(before) + 1
           b == Block("mem", c, 0, r.len, r.align)
           n == Len(reserves)
<1>3. reserves \in Seq(BlockType) /\ n \in Nat /\ allocs = <<>>
  BY <1>1, ListFacts DEF IInv, Phases
<1>4. p \in 1 .. n + 1
  <2>1. IsFiniteSet(1 .. n) /\ Cardinality(1 .. n) = n
    <3> HIDE DEF n
    <3>1. IsFiniteSet(1 .. n) /\ Cardinality(1 .. n) = IF 1 > n THEN 0 ELSE n - 1 + 1
      BY <1>3, FS_Interval
    <3> QED BY <3>1, <1>3
  <2>2. Cardinality(before) \in Nat /\ Cardinality(before) <= n
    BY <2>1, FS_Subset, FS_CardinalityType
  <2> QED BY <2>2, <1>3
<1>5. b \in BlockType /\ b.kind = "mem" /\ b.h = c /\ Sound(b)
  BY AskedFacts DEF Block, BlockType, Sound, Wanted
<1>6. reserves' = InsertAt(reserves, p, b)
  BY <1>2
<1> HIDE DEF p, b, n
<1>7. \A i \in 1 .. Len(reserves) : ~Same(reserves[i], b)
  BY <1>1, <1>5, NoBlock DEF Same
<1>8. Len(reserves') = n + 1 /\ reserves' \in Seq(BlockType) /\ reserves'[p] = b
  BY <1>3, <1>4, <1>5, <1>6, InsertAtFacts DEF n
<1>9. \A i \in 1 .. p - 1 : reserves'[i] = reserves[i]
  BY <1>3, <1>4, <1>5, <1>6, InsertAtFacts DEF n
<1>10. \A i \in p + 1 .. n + 1 : reserves'[i] = reserves[i - 1]
  <2>1. p \in 1 .. Len(reserves) + 1
    BY <1>4 DEF n
  <2>2. \A i \in p + 1 .. Len(reserves) + 1 : reserves'[i] = reserves[i - 1]
    <3>1. reserves \in Seq(BlockType) /\ b \in BlockType
      BY <1>3, <1>5
    <3>2. ASSUME NEW s \in Seq(BlockType), NEW q \in 1 .. Len(s) + 1, NEW e \in BlockType
          PROVE  \A i \in q + 1 .. Len(s) + 1 : InsertAt(s, q, e)[i] = s[i - 1]
      BY InsertAtFacts
    <3> QED BY <3>1, <3>2, <2>1, <1>6
  <2> QED BY <2>2 DEF n
<1>11. OneEach(reserves')
  BY <1>3, <1>4, <1>5, <1>6, <1>7, InsertOnce DEF IInv, Waiting, n
<1>12. ASSUME NEW i \in 1 .. n + 1 PROVE Sound(reserves'[i]) /\ reserves'[i].kind = "mem"
  <2>0. \A j \in 1 .. n : Sound(reserves[j]) /\ reserves[j].kind = "mem"
    BY DEF IInv, Waiting, n
  <2>1. CASE i < p
    BY <2>0, <2>1, <1>3, <1>4, <1>9
  <2>2. CASE i = p
    BY <2>2, <1>5, <1>8
  <2>3. CASE i > p
    <3>1. i - 1 \in 1 .. n /\ reserves'[i] = reserves[i - 1]
      BY <2>3, <1>3, <1>4, <1>10
    <3> QED BY <3>1, <2>0
  <2> QED BY <2>1, <2>2, <2>3, <1>3, <1>4
<1>13. Waiting(reserves)'
  BY <1>1, <1>3, <1>8, <1>11, <1>12 DEF Waiting, Disjoint, OneEach, Sound
<1>14. Waiting(moved)' /\ ListOk' /\ Covered' /\ AvoidsNps' /\ Kept' /\ Phases'
  <2>1. ListOk' /\ Kept' /\ Waiting(moved)'
    BY <1>1, ListStays, KeptStays, MovedStay
  <2>2. Covered'
    BY <1>1 DEF IInv, Covered, Taken, Beyond
  <2>3. AvoidsNps' /\ Phases'
    BY <1>1 DEF IInv, AvoidsNps, Phases
  <2> QED BY <2>1, <2>2, <2>3
<1>15. TypeOK'
  BY <1>1, <1>8 DEF IInv, TypeOK
<1> QED BY <1>13, <1>14, <1>15 DEF IInv

LEMMA FreeStep ==
  ASSUME IInv, NEW c \in Client, Free(c)
  PROVE  IInv'
<1>1. PICK k \in 1 .. Len(allocs) : allocs[k].kind = "mem" /\ Unlink(k)
  BY DEF Free
<1>2. /\ UNCHANGED <<down, uniras, size, used, bps, bpsMem, lastReserved, pending, phase, nps, todo, moved, reserves>>
      /\ phase = "ready"
  BY DEF Free, config, ecc, job
<1>3. Drops(k)
  BY <1>1, Unlinked
<1>4. /\ allocs' \in Seq(BlockType) /\ tom' \in Nat /\ ListOk'
      /\ \A p : Marked(p) => Marked(p)'
  BY <1>1, <1>2, <1>3, DropKeeps
<1>5. TypeOK'
  BY <1>2, <1>4 DEF IInv, TypeOK
<1>6. reserves = <<>> /\ moved = <<>>
  BY <1>2 DEF IInv, Phases
<1>7. Waiting(reserves)' /\ Waiting(moved)'
  BY <1>2, <1>6 DEF Waiting, OneEach, Disjoint
<1>8. Phases'
  <2>1. ASSUME NEW j \in 1 .. Len(allocs') PROVE allocs'[j].kind # "nps"
    <3>1. PICK i \in 1 .. Len(allocs) : allocs'[j] = allocs[i]
      BY <1>3 DEF Drops
    <3> QED BY <3>1, <1>2 DEF IInv, Phases
  <2> QED BY <2>1, <1>2, <1>6 DEF Phases
<1>9. Covered' /\ AvoidsNps' /\ Kept'
  BY <1>2, <1>4 DEF IInv, Covered, AvoidsNps, Kept
<1> QED BY <1>4, <1>5, <1>7, <1>8, <1>9 DEF IInv

LEMMA FreeEarlyStep ==
  ASSUME IInv, NEW c \in Client, FreeEarly(c)
  PROVE  IInv'
<1>1. /\ UNCHANGED <<down, uniras, size, tom, allocs, used, bps, bpsMem, lastReserved, pending, phase, nps, todo, moved>>
      /\ phase = "early"
  BY DEF FreeEarly, config, list, ecc
<1>2. PICK k \in 1 .. Len(reserves) : reserves' = RemoveAt(reserves, k)
  BY DEF FreeEarly
<1>3. reserves \in Seq(BlockType) /\ Len(reserves) \in Nat /\ allocs = <<>>
  BY <1>1, ListFacts DEF IInv, Phases
<1>4. reserves' \in Seq(BlockType) /\ Len(reserves') = Len(reserves) - 1
  BY <1>2, <1>3, RemoveAtFacts
<1>5. \A i \in 1 .. Len(reserves) - 1 : reserves'[i] = reserves[IF i < k THEN i ELSE i + 1]
  BY <1>2, <1>3, RemoveAtFacts
<1>6. OneEach(reserves')
  BY <1>2, <1>3, RemoveOnce DEF IInv, Waiting
<1>7. ASSUME NEW i \in 1 .. Len(reserves') PROVE Sound(reserves'[i]) /\ reserves'[i].kind = "mem"
  <2>1. \A j \in 1 .. Len(reserves) : Sound(reserves[j]) /\ reserves[j].kind = "mem"
    BY DEF IInv, Waiting
  <2> QED BY <2>1, <1>3, <1>4, <1>5
<1>8. Waiting(reserves)'
  BY <1>1, <1>3, <1>6, <1>7 DEF Waiting, Disjoint, OneEach, Sound
<1>9. Waiting(moved)' /\ ListOk' /\ Covered' /\ AvoidsNps' /\ Kept' /\ Phases'
  <2>1. ListOk' /\ Kept' /\ Waiting(moved)'
    BY <1>1, ListStays, KeptStays, MovedStay
  <2>2. Covered'
    BY <1>1 DEF IInv, Covered, Taken, Beyond
  <2>3. AvoidsNps' /\ Phases'
    BY <1>1 DEF IInv, AvoidsNps, Phases
  <2> QED BY <2>1, <2>2, <2>3
<1>10. TypeOK'
  BY <1>1, <1>4 DEF IInv, TypeOK
<1> QED BY <1>8, <1>9, <1>10 DEF IInv

LEMMA SetSizeStep ==
  ASSUME IInv, SetSize
  PROVE  IInv'
<1>1. /\ UNCHANGED <<down, uniras, tom, allocs, used, bps, bpsMem, lastReserved, pending, phase, nps, todo, moved, reserves>>
      /\ phase = "ready" /\ size' \in Sizes /\ size' >= tom
  BY DEF SetSize, config, ecc, job
<1>2. size' \in Nat
  BY <1>1, SizeAssumption
<1>3. \A i \in 1 .. Len(allocs) : allocs[i].end <= Offset + size'
  <2> SUFFICES ASSUME NEW i \in 1 .. Len(allocs) PROVE allocs[i].end <= Offset + size'
    OBVIOUS
  <2> DEFINE n == Len(allocs)
  <2>1. /\ n \in Nat /\ Offset \in Nat /\ tom = allocs[n].end /\ n \in 1 .. n
        /\ \A j \in 1 .. n : /\ allocs[j].end \in Nat /\ Start(allocs[j]) \in Int
                             /\ Start(allocs[j]) < allocs[j].end
    BY ListFacts
  <2>2. i < n => allocs[i].end <= Start(allocs[n])
    BY <2>1 DEF IInv, ListOk, Sorted
  <2> HIDE DEF n
  <2>3. i \in 1 .. n
    BY DEF n
  <2>4. allocs[i].end <= allocs[n].end
    BY <2>1, <2>2, <2>3
  <2> QED BY <2>1, <2>3, <2>4, <1>1, <1>2
<1>4. ListOk'
  BY <1>1, <1>3 DEF IInv, ListOk, Sorted, Bounded, Sound, EndOf, OneEach
<1>5. TypeOK' /\ Waiting(reserves)' /\ Waiting(moved)' /\ Phases' /\ Covered' /\ AvoidsNps' /\ Kept'
  BY <1>1 DEF IInv, TypeOK, Waiting, Disjoint, OneEach, Sound, Covered, AvoidsNps, Kept, Marked, Phases
<1> QED BY <1>4, <1>5 DEF IInv

-----------------------------------------------------------------------------
(* The pages that are bad in some NPS mode.                                *)

LEMMA HwInitStep ==
  ASSUME IInv, HwInit
  PROVE  IInv'
<1>1. /\ UNCHANGED <<down, uniras, size, tom, allocs, used, bps, bpsMem, lastReserved, pending, nps, todo, moved, reserves>>
      /\ phase = "early" /\ phase' \in {IF down THEN "defer" ELSE "nps", "dead"}
  BY DEF HwInit, config, list, ecc
<1>2. TypeOK' /\ ListOk' /\ Waiting(reserves)' /\ Waiting(moved)' /\ Kept'
  <2>1. TypeOK'
    BY <1>1 DEF IInv, TypeOK
  <2>2. ListOk' /\ Kept'
    BY <1>1, ListStays, KeptStays
  <2>3. Waiting(reserves)'
    BY <1>1, ReservesStay
  <2>4. Waiting(moved)'
    BY <1>1, MovedStay
  <2> QED BY <2>1, <2>2, <2>3, <2>4
<1>3. Phases' /\ Covered' /\ AvoidsNps'
  BY <1>1 DEF IInv, Phases, Covered, Taken, Beyond, AvoidsNps
<1> QED BY <1>2, <1>3 DEF IInv

\* What the constants say of pages.
LEMMA PageFacts ==
  ASSUME NEW p \in Pages
  PROVE  /\ p \in Nat /\ p % PageLen = 0 /\ PageLen \in Nat \ {0} /\ FbSize - p \in Nat
         /\ Align(p, PageLen) = p
<1>1. p \in Nat /\ p % PageLen = 0 /\ PageLen \in Nat \ {0} /\ FbSize - p \in Nat
  BY SizeAssumption DEF Pages
<1> QED BY <1>1, AlignExact

LEMMA CandidateStep ==
  ASSUME IInv, Candidate
  PROVE  IInv'
<1>1. /\ UNCHANGED <<down, uniras, nps, size, used, bps, bpsMem, lastReserved, pending, moved, reserves>>
      /\ phase = "nps" /\ ~down
  BY DEF Candidate, config, ecc, IInv, Phases
<1>2. /\ todo \in Seq(Pages) /\ \A i, j \in 1 .. Len(todo) : i < j => todo[i] < todo[j]
      /\ \A p \in nps : Beyond(p) \/ Taken(p) \/ \E i \in 1 .. Len(todo) : todo[i] = p
      /\ moved = <<>> /\ nps \subseteq Pages
  BY <1>1 DEF IInv, Phases, Covered, TypeOK
<1>3. todo # <<>> =>
        /\ Len(todo) \in Nat
        /\ Head(todo) = todo[1] /\ Head(todo) \in Pages /\ 1 \in 1 .. Len(todo)
        /\ Tail(todo) \in Seq(Pages) /\ Len(Tail(todo)) = Len(todo) - 1
        /\ \A i \in 1 .. Len(todo) - 1 : Tail(todo)[i] = todo[i + 1] /\ i + 1 \in 1 .. Len(todo)
  BY <1>2, TailFacts
<1>4. Pages \subseteq Nat /\ Offset \in Nat /\ PageLen \in Nat \ {0} /\ size \in Nat
  BY PageFacts, ListFacts, SizeAssumption
<1>5. CASE /\ todo = <<>> \/ Head(todo) >= Offset + size
           /\ phase' = "defer" /\ UNCHANGED <<tom, allocs, todo>>
  <2>1. TypeOK' /\ ListOk' /\ Waiting(reserves)' /\ Waiting(moved)' /\ Kept'
    <3>1. TypeOK'
      BY <1>1, <1>5 DEF IInv, TypeOK
    <3>2. ListOk' /\ Kept'
      BY <1>1, <1>5, ListStays, KeptStays
    <3>3. Waiting(reserves)'
      BY <1>1, <1>5, ReservesStay
    <3>4. Waiting(moved)'
      BY <1>1, <1>5, MovedStay
    <3> QED BY <3>1, <3>2, <3>3, <3>4
  <2>2. Phases' /\ AvoidsNps'
    BY <1>1, <1>5 DEF IInv, Phases, AvoidsNps
  <2>3. ASSUME NEW i \in 1 .. Len(todo) PROVE Beyond(todo[i])
    <3>0. todo # <<>>
      OBVIOUS
    <3>1. todo[1] >= Offset + size /\ todo[1] \in Nat /\ todo[i] \in Nat
      <4>1. todo[1] \in Pages /\ todo[i] \in Pages /\ todo[1] = Head(todo)
        BY <3>0, <1>2, <1>3
      <4> QED BY <4>1, <3>0, <1>4, <1>5
    <3>2. i > 1 => todo[1] < todo[i]
      BY <1>2, <1>3, <3>0, <3>1
    <3>3. todo[i] >= todo[1]
      BY <3>1, <3>2
    <3> QED BY <3>1, <3>3, <1>4 DEF Beyond
  <2>4. \A p \in nps : Beyond(p) \/ Taken(p)
    BY <2>3, <1>2
  <2>5. Covered'
    BY <2>4, <1>1, <1>5 DEF Covered, Beyond, Taken
  <2> QED BY <2>1, <2>2, <2>5 DEF IInv
<1>6. ASSUME NEW h, h = Head(todo), todo # <<>>, todo' = Tail(todo), UNCHANGED phase,
             allocs' \in Seq(BlockType), tom' \in Nat, ListOk',
             Disjoint(allocs', reserves),
             Beyond(h) \/ Taken(h)',
             \A p : (Marked(p) => Marked(p)') /\ (Taken(p) => Taken(p)')
      PROVE  IInv'
  <2>1. todo' \in Seq(Nat)
    <3>1. todo \in Seq(Nat)
      BY DEF IInv, TypeOK
    <3> QED BY <3>1, <1>6, TailFacts
  <2>2. TypeOK'
    BY <2>1, <1>1, <1>6 DEF IInv, TypeOK
  <2>3. Waiting(reserves)' /\ Waiting(moved)'
    BY <1>1, <1>2, <1>6 DEF IInv, Waiting, Disjoint, OneEach, Sound
  <2>4. Phases'
    <3>1. ASSUME NEW i \in 1 .. Len(todo'), NEW j \in 1 .. Len(todo'), i < j PROVE todo'[i] < todo'[j]
      <4>1. /\ todo'[i] = todo[i + 1] /\ todo'[j] = todo[j + 1]
            /\ i + 1 \in 1 .. Len(todo) /\ j + 1 \in 1 .. Len(todo)
        BY <1>3, <1>6
      <4> QED BY <4>1, <3>1, <1>2
    <3> QED BY <3>1, <1>1, <1>2, <1>3, <1>6 DEF Phases
  <2>5. AvoidsNps' /\ Kept'
    BY <1>1, <1>6 DEF IInv, AvoidsNps, Kept
  <2>6. ASSUME NEW p \in nps PROVE Beyond(p) \/ Taken(p)' \/ \E i \in 1 .. Len(todo') : todo'[i] = p
    <3>1. CASE Beyond(p) \/ Taken(p)
      BY <3>1, <1>6
    <3>2. ASSUME NEW i \in 1 .. Len(todo), todo[i] = p PROVE <2>6!2
      <4>1. CASE i = 1
        BY <4>1, <3>2, <1>3, <1>6
      <4>2. CASE i # 1
        <5>1. i - 1 \in 1 .. Len(todo) - 1 /\ (i - 1) + 1 = i
          BY <4>2, <1>3
        <5>2. Tail(todo)[i - 1] = todo[i]
          BY <5>1, <1>3, <1>6
        <5> QED BY <5>1, <5>2, <3>2, <1>3, <1>6
      <4> QED BY <4>1, <4>2
    <3> QED BY <3>1, <3>2, <1>2
  <2>7. Covered'
    BY <2>6, <1>1, <1>6 DEF Covered, Beyond
  <2> QED BY <2>2, <2>3, <2>4, <2>5, <2>7, <1>6 DEF IInv
<1>7. CASE /\ todo # <<>> /\ BelowRegion(Head(todo))
           /\ todo' = Tail(todo) /\ UNCHANGED <<tom, allocs, phase>>
  <2>1. allocs' \in Seq(BlockType) /\ tom' \in Nat /\ ListOk' /\ Disjoint(allocs', reserves)
    <3>1. Disjoint(allocs, reserves)
      BY DEF IInv, Waiting
    <3> QED BY <3>1, <1>1, <1>7, ListStays
  <2>2. Beyond(Head(todo))
    BY <1>7 DEF BelowRegion, Beyond
  <2>3. \A p : (Marked(p) => Marked(p)') /\ (Taken(p) => Taken(p)')
    BY <1>1, <1>7, ListStays
  <2> QED BY <1>6, <1>7, <2>1, <2>2, <2>3
<1>8. CASE /\ todo # <<>> /\ ~BelowRegion(Head(todo)) /\ PlaceAt("nps", Head(todo), Head(todo))
           /\ todo' = Tail(todo) /\ UNCHANGED phase
  <2>0. PICK p \in Pages : p = Head(todo)
    BY <1>3, <1>8
  <2> DEFINE b == Block("nps", p, p + PageLen, PageLen, PageLen)
  <2>1. p \in Nat /\ Align(p, PageLen) = p /\ Offset <= p + PageLen
    BY <2>0, <1>4, <1>8, PageFacts DEF BelowRegion
  <2>2. b \in BlockType /\ Adds(b) /\ Start(b) = p /\ b.end <= Offset + size
    <3>1. PlaceAt("nps", p, p)
      BY <2>0, <1>8
    <3> QED BY <3>1, <2>1, PagePlaced
  <2>3. b.kind = "nps" /\ b.end = p + PageLen /\ b.len = PageLen /\ b.al = PageLen
    BY DEF Block
  <2> HIDE DEF b
  <2>4. Sound(b)
    BY <2>3, <1>4 DEF Sound
  <2>5. /\ allocs' \in Seq(BlockType) /\ tom' \in Nat /\ ListOk'
        /\ \A q : (Marked(q) => Marked(q)') /\ (Taken(q) => Taken(q)')
    BY <2>1, <2>2, <2>3, <2>4, <1>1, AddKeeps
  <2>6. Taken(p)'
    <3>1. PICK j \in 1 .. Len(allocs') : allocs'[j] = b
      BY <2>2 DEF Adds
    <3> QED BY <3>1, <2>2, <2>3 DEF Taken
  <2>7. Disjoint(allocs', reserves)
    BY <2>2, <2>3, AddApart DEF IInv, Waiting, Same
  <2> QED BY <2>0, <2>5, <2>6, <2>7, <1>6, <1>8
<1>9. CASE phase' = "dead" /\ UNCHANGED <<tom, allocs, todo>>
  <2>1. TypeOK' /\ ListOk' /\ Waiting(reserves)' /\ Waiting(moved)' /\ Kept'
    <3>1. TypeOK'
      BY <1>1, <1>9 DEF IInv, TypeOK
    <3>2. ListOk' /\ Kept'
      BY <1>1, <1>9, ListStays, KeptStays
    <3>3. Waiting(reserves)'
      BY <1>1, <1>9, ReservesStay
    <3>4. Waiting(moved)'
      BY <1>1, <1>9, MovedStay
    <3> QED BY <3>1, <3>2, <3>3, <3>4
  <2>2. Phases' /\ AvoidsNps' /\ Covered'
    BY <1>1, <1>9 DEF IInv, Phases, AvoidsNps, Covered
  <2> QED BY <2>1, <2>2 DEF IInv
<1> QED BY <1>5, <1>7, <1>8, <1>9 DEF Candidate

LEMMA DeferredStep ==
  ASSUME IInv, Deferred
  PROVE  IInv'
<1>1. /\ UNCHANGED <<down, uniras, nps, size, used, bps, bpsMem, lastReserved, pending, todo, moved>>
      /\ phase = "defer" /\ moved = <<>>
  BY DEF Deferred, config, ecc, IInv, Phases
<1>2. ~down => \A p \in nps : Beyond(p) \/ Taken(p)
  BY <1>1 DEF IInv, Covered
<1>3. CASE reserves = <<>> /\ phase' = "clean" /\ UNCHANGED <<tom, allocs, reserves>>
  <2>1. TypeOK' /\ ListOk' /\ Waiting(reserves)' /\ Waiting(moved)' /\ Kept'
    <3>1. TypeOK'
      BY <1>1, <1>3 DEF IInv, TypeOK
    <3>2. ListOk' /\ Kept'
      BY <1>1, <1>3, ListStays, KeptStays
    <3>3. Waiting(reserves)'
      BY <1>1, <1>3, ReservesStay
    <3>4. Waiting(moved)'
      BY <1>1, <1>3, MovedStay
    <3> QED BY <3>1, <3>2, <3>3, <3>4
  <2>2. Phases' /\ Covered'
    BY <1>1, <1>3 DEF IInv, Phases, Covered
  <2>3. ASSUME ~down, NEW i \in 1 .. Len(allocs), allocs[i].kind = "mem", NEW p \in nps
        PROVE  ~Touches(allocs[i], p)
    <3>a. /\ Offset \in Nat /\ size \in Nat /\ p \in Nat /\ PageLen \in Nat \ {0}
          /\ allocs[i].end \in Nat /\ Start(allocs[i]) \in Int /\ Start(allocs[i]) < allocs[i].end
      BY ListFacts, PageFacts, SizeAssumption DEF IInv, TypeOK
    <3>1. CASE Beyond(p)
      <4>1. Offset <= Start(allocs[i]) /\ allocs[i].end <= Offset + size
        BY <2>3 DEF IInv, ListOk, Bounded
      <4> QED BY <3>1, <3>a, <4>1 DEF Beyond, Touches, Overlaps
    <3>2. CASE Taken(p)
      <4>1. PICK j \in 1 .. Len(allocs) :
              allocs[j].kind = "nps" /\ Start(allocs[j]) = p /\ allocs[j].len = PageLen
        BY <3>2 DEF Taken
      <4>2. allocs[j].end = p + PageLen
        BY <4>1, ListFacts, BlockFacts
      <4>3. i # j /\ Len(allocs) \in Nat
        BY <2>3, <4>1, ListFacts
      <4>4. (i < j => allocs[i].end <= Start(allocs[j])) /\ (j < i => allocs[j].end <= Start(allocs[i]))
        BY DEF IInv, ListOk, Sorted
      <4> QED BY <4>1, <4>2, <4>3, <4>4, <3>a DEF Touches, Overlaps
    <3> QED BY <3>1, <3>2, <2>3, <1>2
  <2>4. AvoidsNps'
    <3>1. DOMAIN allocs = 1 .. Len(allocs)
      BY ListFacts
    <3> QED BY <2>3, <3>1, <1>1, <1>3 DEF AvoidsNps, Range, Touches, Overlaps
  <2> QED BY <2>1, <2>2, <2>4 DEF IInv
<1>4. CASE /\ reserves # <<>> /\ reserves' = Tail(reserves) /\ UNCHANGED phase
           /\ PlaceBlock("mem", Head(reserves).h, Head(reserves).len, Head(reserves).al)
  <2>1. reserves \in Seq(BlockType) /\ Waiting(reserves) /\ UNCHANGED <<down, size>>
    BY <1>1, ListFacts DEF IInv
  <2>2. /\ reserves' \in Seq(BlockType) /\ OneEach(reserves') /\ Disjoint(allocs', reserves')
        /\ \A i \in 1 .. Len(reserves') : Sound(reserves'[i]) /\ reserves'[i].kind = "mem"
    BY <2>1, <1>4, HeadPlaced
  <2>3. PICK b \in BlockType :
          /\ b.kind = "mem" /\ Adds(b)
          /\ allocs' \in Seq(BlockType) /\ tom' \in Nat /\ ListOk'
          /\ \A p : (Marked(p) => Marked(p)') /\ (Taken(p) => Taken(p)')
    BY <2>1, <1>4, HeadPlaced
  <2>4. Waiting(reserves)'
    BY <2>2, <1>1 DEF Waiting, Disjoint, OneEach, Sound
  <2>5. Waiting(moved)'
    BY <1>1 DEF Waiting, Disjoint, OneEach
  <2>6. TypeOK'
    BY <2>2, <2>3, <1>1, <1>4 DEF IInv, TypeOK
  <2>7. Phases' /\ AvoidsNps' /\ Kept'
    BY <2>3, <1>1, <1>4 DEF IInv, Phases, AvoidsNps, Kept
  <2>8. Covered'
    BY <2>3, <1>1, <1>2, <1>4 DEF Covered, Beyond
  <2> QED BY <2>3, <2>4, <2>5, <2>6, <2>7, <2>8 DEF IInv
<1>5. CASE phase' = "dead" /\ UNCHANGED <<tom, allocs, reserves>>
  <2>1. TypeOK' /\ ListOk' /\ Waiting(reserves)' /\ Waiting(moved)' /\ Kept'
    <3>1. TypeOK'
      BY <1>1, <1>5 DEF IInv, TypeOK
    <3>2. ListOk' /\ Kept'
      BY <1>1, <1>5, ListStays, KeptStays
    <3>3. Waiting(reserves)'
      BY <1>1, <1>5, ReservesStay
    <3>4. Waiting(moved)'
      BY <1>1, <1>5, MovedStay
    <3> QED BY <3>1, <3>2, <3>3, <3>4
  <2>2. Phases' /\ AvoidsNps' /\ Covered'
    BY <1>1, <1>5 DEF IInv, Phases, AvoidsNps, Covered
  <2> QED BY <2>1, <2>2 DEF IInv
<1> QED BY <1>3, <1>4, <1>5 DEF Deferred

LEMMA FreeCandidatesStep ==
  ASSUME IInv, FreeCandidates
  PROVE  IInv'
<1> DEFINE left == {i \in 1 .. Len(allocs) : allocs[i].kind = "nps"}
<1>1. /\ UNCHANGED <<down, uniras, size, used, bps, bpsMem, lastReserved, pending, moved, reserves>>
      /\ phase = "clean" /\ moved = <<>> /\ reserves = <<>>
  BY DEF FreeCandidates, config, ecc, IInv, Phases
<1>2. CASE left # {} /\ Unlink(Min(left)) /\ UNCHANGED <<phase, todo, nps>>
  <2>1. Min(left) \in left
    <3>1. left \subseteq Nat
      OBVIOUS
    <3> HIDE DEF left
    <3> QED BY <3>1, <1>2, MinFacts
  <2>2. PICK k \in 1 .. Len(allocs) : allocs[k].kind = "nps" /\ Unlink(k)
    BY <2>1, <1>2
  <2>3. Drops(k)
    BY <2>2, Unlinked
  <2>4. /\ allocs' \in Seq(BlockType) /\ tom' \in Nat /\ ListOk'
        /\ \A p : Marked(p) => Marked(p)'
    BY <1>1, <2>2, <2>3, DropKeeps
  <2>5. TypeOK' /\ Waiting(reserves)' /\ Waiting(moved)'
    BY <1>1, <1>2, <2>4 DEF IInv, TypeOK, Waiting, OneEach, Disjoint
  <2>6. Phases' /\ Covered' /\ Kept'
    BY <1>1, <1>2, <2>4 DEF IInv, Phases, Covered, Kept
  <2>7. AvoidsNps'
    <3>1. DOMAIN allocs = 1 .. Len(allocs) /\ DOMAIN allocs' = 1 .. Len(allocs')
      BY <2>4, ListFacts
    <3>2. ASSUME NEW j \in DOMAIN allocs' PROVE \E i \in DOMAIN allocs : allocs'[j] = allocs[i]
      BY <2>3, <3>1 DEF Drops
    <3>3. \A b \in Range(allocs') : b \in Range(allocs)
      BY <3>2 DEF Range
    <3> QED BY <3>3, <1>1, <1>2 DEF IInv, AvoidsNps, Touches, Overlaps
  <2> QED BY <2>4, <2>5, <2>6, <2>7 DEF IInv
<1>3. CASE left = {} /\ phase' = "ready" /\ todo' = <<>> /\ nps' = {} /\ UNCHANGED <<tom, allocs>>
  <2>1. TypeOK'
    BY <1>1, <1>3 DEF IInv, TypeOK
  <2>2. ListOk' /\ Waiting(reserves)' /\ Waiting(moved)' /\ Kept'
    <3>1. ListOk' /\ Kept'
      BY <1>1, <1>3, ListStays, KeptStays
    <3>2. Waiting(reserves)'
      BY <1>1, <1>3, ReservesStay
    <3>3. Waiting(moved)'
      BY <1>1, <1>3, MovedStay
    <3> QED BY <3>1, <3>2, <3>3
  <2>3. Phases' /\ Covered' /\ AvoidsNps'
    BY <1>1, <1>3 DEF IInv, Phases, Covered, AvoidsNps
  <2> QED BY <2>1, <2>2, <2>3 DEF IInv
<1> QED BY <1>2, <1>3 DEF FreeCandidates

-----------------------------------------------------------------------------
(* Bad pages.                                                              *)

LEMMA IndexTaken ==
  ASSUME IInv, TakeIndex
  PROVE  used' \in 0 .. MaxIndex
<1> DEFINE S == {used + 1, MaxIndex}
<1>1. used \in 0 .. MaxIndex /\ MaxIndex \in Nat
  BY SizeAssumption DEF IInv, TypeOK
<1>2. S \subseteq Nat /\ S # {} /\ MaxIndex \in S
  BY <1>1
<1>3. used' = Min(S)
  BY DEF TakeIndex
<1> HIDE DEF S
<1>4. Min(S) \in S /\ \A y \in S : Min(S) <= y
  BY <1>2, MinFacts
<1>5. used' \in Nat /\ used' <= MaxIndex
  BY <1>2, <1>3, <1>4
<1> QED BY <1>1, <1>5

\* Reserving a page of the region: the block of the page is added, or nothing.
LEMMA PageReserved ==
  ASSUME IInv, NEW p \in Pages, InRegion(p), ReserveAt(p), UNCHANGED <<down, size>>
  PROVE  /\ used' \in 0 .. MaxIndex /\ allocs' \in Seq(BlockType) /\ tom' \in Nat /\ ListOk'
         /\ \A q : Marked(q) => Marked(q)'
         /\ CanReserve(p) /\ ~down => Marked(p)'
         /\ \/ UNCHANGED allocs
            \/ \E b \in BlockType :
                 /\ b.kind = "bad" /\ Adds(b)
                 /\ Offset <= Start(b) /\ Start(b) < b.end /\ b.end <= Offset + size
<1>1. used' \in 0 .. MaxIndex
  BY IndexTaken DEF ReserveAt
<1>2. CASE ~CanReserve(p)
  <2>1. UNCHANGED <<tom, allocs>>
    BY <1>2 DEF ReserveAt
  <2>2. allocs' \in Seq(BlockType) /\ tom' \in Nat /\ ListOk' /\ \A q : Marked(q) => Marked(q)'
    BY <2>1, ListStays
  <2> QED BY <1>1, <1>2, <2>1, <2>2
<1>3. CASE CanReserve(p)
  <2>0. p \in Nat /\ Align(p, PageLen) = p /\ FbSize - p \in Nat /\ PageLen \in Nat \ {0} /\ Offset \in Nat
    BY PageFacts, ListFacts
  <2>1. PICK at \in Nat : at = PageAt(p) /\ (~down => at = p)
    BY <2>0 DEF PageAt
  <2>2. Align(at, PageLen) \in Nat /\ at <= Align(at, PageLen)
    BY <2>0, <2>1, AlignFacts
  <2>3. Offset <= Align(at, PageLen)
    BY <2>0, <2>1, <2>2 DEF InRegion
  <2>4. Offset <= Align(at, PageLen) + PageLen
    BY <2>0, <2>2, <2>3
  <2> DEFINE b == Block("bad", p, Align(at, PageLen) + PageLen, PageLen, PageLen)
  <2>5. PlaceAt("bad", p, at)
    BY <2>1, <1>3 DEF ReserveAt
  <2>6. b \in BlockType /\ Adds(b) /\ Start(b) = Align(at, PageLen) /\ b.end <= Offset + size
    BY <2>4, <2>5, PagePlaced
  <2>7. b.kind = "bad" /\ b.end = Align(at, PageLen) + PageLen /\ b.len = PageLen /\ b.al = PageLen
    BY DEF Block
  <2> HIDE DEF b
  <2>8. ~down => Start(b) = p
    BY <2>0, <2>1, <2>6
  <2>9. Sound(b)
    BY <2>0, <2>7, <2>8 DEF Sound
  <2>10. Offset <= Start(b) /\ Start(b) < b.end /\ Offset <= b.end
    BY <2>0, <2>2, <2>3, <2>4, <2>6, <2>7
  <2>11. allocs' \in Seq(BlockType) /\ tom' \in Nat /\ ListOk' /\ \A q : Marked(q) => Marked(q)'
    BY <2>6, <2>7, <2>9, <2>10, AddKeeps
  <2>12. ~down => Marked(p)'
    <3>1. PICK j \in 1 .. Len(allocs') : allocs'[j] = b
      BY <2>6 DEF Adds
    <3> QED BY <3>1, <2>7, <2>8 DEF Marked
  <2> QED BY <1>1, <2>6, <2>7, <2>10, <2>11, <2>12
<1> QED BY <1>2, <1>3

\* A page is recorded: with its block, or without.
LEMMA Recorded ==
  ASSUME IInv, NEW p \in Pages, NEW m \in {p, None}, phase = "ready",
         bps' = Append(bps, p), bpsMem' = Append(bpsMem, m), pending' \subseteq Pages,
         UNCHANGED <<down, uniras, size, lastReserved, phase, nps, todo, moved, reserves>>,
         used' \in 0 .. MaxIndex, allocs' \in Seq(BlockType), tom' \in Nat, ListOk',
         \A q : Marked(q) => Marked(q)', m # None /\ ~down => Marked(p)',
         UNCHANGED allocs \/ \E b \in BlockType : b.kind = "bad" /\ Adds(b)
  PROVE  IInv'
<1>1. /\ bps \in Seq(Pages) /\ bpsMem \in Seq(Pages \union {None}) /\ Len(bpsMem) = Len(bps)
      /\ reserves = <<>> /\ moved = <<>>
  BY DEF IInv, TypeOK, Phases
<1>2. /\ bps' \in Seq(Pages) /\ bpsMem' \in Seq(Pages \union {None}) /\ Len(bpsMem') = Len(bps')
      /\ Len(bps') = Len(bps) + 1 /\ bps'[Len(bps) + 1] = p /\ bpsMem'[Len(bps) + 1] = m
      /\ \A i \in 1 .. Len(bps) : bps'[i] = bps[i] /\ bpsMem'[i] = bpsMem[i]
  BY <1>1
<1>3. TypeOK'
  <2>1. lastReserved' \in 0 .. Len(bps')
    BY <1>1, <1>2 DEF IInv, TypeOK
  <2> QED BY <2>1, <1>1, <1>2 DEF IInv, TypeOK
<1>4. Waiting(reserves)' /\ Waiting(moved)'
  BY <1>1 DEF Waiting, OneEach, Disjoint
<1>5. Phases'
  <2>1. ASSUME NEW j \in 1 .. Len(allocs') PROVE allocs'[j].kind # "nps"
    BY DEF Adds, IInv, Phases
  <2> QED BY <2>1, <1>1 DEF Phases
<1>6. Kept'
  <2>1. ASSUME ~down, NEW i \in 1 .. Len(bps'), bpsMem'[i] # None PROVE Marked(bps[i])'
    <3>1. CASE i \in 1 .. Len(bps)
      <4>1. Marked(bps[i]) /\ bps'[i] = bps[i]
        BY <2>1, <3>1, <1>2 DEF IInv, Kept
      <4>2. PICK q : q = bps[i]
        OBVIOUS
      <4>3. Marked(q)'
        BY <4>1, <4>2
      <4> QED BY <4>1, <4>2, <4>3 DEF Marked
    <3>2. CASE i = Len(bps) + 1
      <4>1. Marked(p)' /\ bps'[i] = p
        BY <2>1, <3>2, <1>2
      <4> QED BY <4>1 DEF Marked
    <3> QED BY <3>1, <3>2, <1>1, <1>2
  <2> QED BY <2>1 DEF Kept, Marked
<1>7. Covered' /\ AvoidsNps'
  BY DEF IInv, Covered, AvoidsNps
<1> QED BY <1>3, <1>4, <1>5, <1>6, <1>7 DEF IInv

LEMMA RecordStep ==
  ASSUME IInv, NEW p \in Pages, Record(p)
  PROVE  IInv'
<1>1. /\ UNCHANGED <<down, uniras, size, tom, allocs, used, lastReserved, pending, phase, nps, todo, moved, reserves>>
      /\ phase = "ready" /\ bps' = Append(bps, p) /\ bpsMem' = Append(bpsMem, None)
  BY DEF Record, config, list, job
<1>2. /\ used' \in 0 .. MaxIndex /\ allocs' \in Seq(BlockType) /\ tom' \in Nat /\ ListOk'
      /\ \A q : Marked(q) => Marked(q)'
  BY <1>1, ListStays DEF IInv, TypeOK
<1>3. pending' \subseteq Pages
  BY <1>1 DEF IInv, TypeOK
<1> QED BY <1>1, <1>2, <1>3, Recorded

\* The next record is seen to: with a block for its page, or without.
LEMMA ReserveStep ==
  ASSUME IInv, Reserve
  PROVE  IInv'
<1>1. /\ UNCHANGED <<down, uniras, size, bps, pending, phase, nps, todo, moved, reserves>>
      /\ phase = "ready" /\ lastReserved < Len(bps) /\ lastReserved' = lastReserved + 1
  BY DEF Reserve, config, job
<1>2. /\ bps \in Seq(Pages) /\ bpsMem \in Seq(Pages \union {None}) /\ Len(bpsMem) = Len(bps)
      /\ lastReserved \in 0 .. Len(bps) /\ used \in 0 .. MaxIndex
      /\ reserves = <<>> /\ moved = <<>>
  BY <1>1 DEF IInv, TypeOK, Phases
<1>3. PICK i \in 1 .. Len(bps) : i = lastReserved + 1
  BY <1>1, <1>2
<1>4. PICK p \in Pages : p = bps[i]
  BY <1>2
<1>5. PICK m \in {p, None} : m = (IF InRegion(p) /\ CanReserve(p) THEN p ELSE None)
                           /\ bpsMem' = [bpsMem EXCEPT ![i] = m]
  BY <1>3, <1>4 DEF Reserve
<1>6. IF InRegion(p) THEN ReserveAt(p) ELSE UNCHANGED <<tom, allocs, used>>
  BY <1>3, <1>4 DEF Reserve
<1>7. /\ used' \in 0 .. MaxIndex /\ allocs' \in Seq(BlockType) /\ tom' \in Nat /\ ListOk'
      /\ \A q : Marked(q) => Marked(q)'
      /\ m # None /\ ~down => Marked(p)'
      /\ UNCHANGED allocs \/ \E b \in BlockType : b.kind = "bad" /\ Adds(b)
  <2>1. CASE InRegion(p)
    BY <1>1, <1>5, <1>6, <2>1, PageReserved
  <2>2. CASE ~InRegion(p)
    BY <1>1, <1>2, <1>5, <1>6, <2>2, ListStays
  <2> QED BY <2>1, <2>2
<1>8. bpsMem' \in Seq(Pages \union {None}) /\ Len(bpsMem') = Len(bps)
  BY <1>2, <1>5
<1>9. TypeOK'
  BY <1>1, <1>2, <1>7, <1>8 DEF IInv, TypeOK
<1>10. Waiting(reserves)' /\ Waiting(moved)'
  BY <1>1, <1>2 DEF Waiting, OneEach, Disjoint
<1>11. Phases'
  <2>1. ASSUME NEW j \in 1 .. Len(allocs') PROVE allocs'[j].kind # "nps"
    BY <1>1, <1>7 DEF Adds, IInv, Phases
  <2> QED BY <2>1, <1>1, <1>2 DEF Phases
<1>12. Kept'
  <2>1. ASSUME ~down, NEW k \in 1 .. Len(bps), bpsMem'[k] # None PROVE Marked(bps[k])'
    <3>1. CASE k # i
      <4>1. Marked(bps[k])
        BY <2>1, <3>1, <1>2, <1>5 DEF IInv, Kept
      <4>2. PICK q : q = bps[k]
        OBVIOUS
      <4>3. Marked(q)'
        BY <4>1, <4>2, <1>7
      <4> QED BY <4>2, <4>3, <1>1 DEF Marked
    <3>2. CASE k = i
      <4>1. bpsMem'[k] = m
        BY <3>2, <1>2, <1>5
      <4>2. Marked(p)'
        BY <4>1, <2>1, <1>7
      <4> QED BY <4>2, <3>2, <1>1, <1>4 DEF Marked
    <3> QED BY <3>1, <3>2
  <2> QED BY <2>1, <1>1 DEF Kept, Marked
<1>13. Covered' /\ AvoidsNps'
  BY <1>1 DEF IInv, Covered, AvoidsNps
<1> QED BY <1>7, <1>9, <1>10, <1>11, <1>12, <1>13 DEF IInv

LEMMA ReservePageStep ==
  ASSUME IInv, NEW p \in Pages, ReservePage(p)
  PROVE  IInv'
<1>1. /\ UNCHANGED <<down, uniras, size, lastReserved, phase, nps, todo, moved, reserves>>
      /\ phase = "ready" /\ bps' = Append(bps, p) /\ InRegion(p) /\ ReserveAt(p)
  BY DEF ReservePage, config, job
<1>2. pending' \subseteq Pages
  BY DEF IInv, TypeOK, ReservePage
<1>3. PICK k \in {p, None} : k = (IF CanReserve(p) THEN p ELSE None) /\ bpsMem' = Append(bpsMem, k)
  BY DEF ReservePage
<1>4. /\ used' \in 0 .. MaxIndex /\ allocs' \in Seq(BlockType) /\ tom' \in Nat /\ ListOk'
      /\ \A q : Marked(q) => Marked(q)'
      /\ CanReserve(p) /\ ~down => Marked(p)'
      /\ UNCHANGED allocs \/ \E b \in BlockType : b.kind = "bad" /\ Adds(b)
  BY <1>1, PageReserved
<1>5. k # None => CanReserve(p)
  BY <1>3
<1> QED BY <1>1, <1>2, <1>3, <1>4, <1>5, Recorded

LEMMA ReplaceStep ==
  ASSUME IInv, Replace
  PROVE  IInv'
<1>1. /\ UNCHANGED <<down, uniras, size, tom, allocs, used, bps, bpsMem, lastReserved, pending, nps, moved, reserves>>
      /\ phase = "ready" /\ ~down /\ phase' = "replace" /\ todo' = [i \in DOMAIN bps |-> i]
  BY DEF Replace, config, list, ecc
<1>2. bps \in Seq(Pages) /\ Len(bps) \in Nat /\ DOMAIN bps = 1 .. Len(bps)
  BY DEF IInv, TypeOK
<1>3. todo' \in Seq(Nat) /\ Len(todo') = Len(bps) /\ \A i \in 1 .. Len(todo') : todo'[i] \in 1 .. Len(bps)
  BY <1>1, <1>2
<1>4. TypeOK'
  BY <1>1, <1>3 DEF IInv, TypeOK
<1>5. ListOk' /\ Waiting(reserves)' /\ Waiting(moved)' /\ Kept'
  <2>1. ListOk' /\ Kept'
    BY <1>1, ListStays, KeptStays
  <2>2. Waiting(reserves)'
    BY <1>1, ReservesStay
  <2>3. Waiting(moved)'
    BY <1>1, MovedStay
  <2> QED BY <2>1, <2>2, <2>3
<1>6. Phases' /\ Covered' /\ AvoidsNps'
  BY <1>1, <1>3 DEF IInv, Phases, Covered, AvoidsNps
<1> QED BY <1>4, <1>5, <1>6 DEF IInv

LEMMA ReplacedStep ==
  ASSUME IInv, Replaced
  PROVE  IInv'
<1>1. /\ UNCHANGED <<down, uniras, size, tom, allocs, used, bps, bpsMem, lastReserved, pending, nps, todo, moved, reserves>>
      /\ phase = "replace" /\ phase' = "rehome"
  BY DEF Replaced, config, list, ecc
<1>2. TypeOK' /\ ListOk' /\ Waiting(reserves)' /\ Waiting(moved)' /\ Kept'
  <2>1. TypeOK'
    BY <1>1 DEF IInv, TypeOK
  <2>2. ListOk' /\ Kept'
    BY <1>1, ListStays, KeptStays
  <2>3. Waiting(reserves)'
    BY <1>1, ReservesStay
  <2>4. Waiting(moved)'
    BY <1>1, MovedStay
  <2> QED BY <2>1, <2>2, <2>3, <2>4
<1>3. Phases' /\ Covered' /\ AvoidsNps'
  BY <1>1 DEF IInv, Phases, Covered, AvoidsNps
<1> QED BY <1>2, <1>3 DEF IInv

\* The next record is done with: the page has its block, or goes without.
LEMMA RecordDone ==
  ASSUME IInv, phase = "replace", todo # <<>>, todo' = Tail(todo), NEW p, p = bps[Head(todo)],
         UNCHANGED <<down, uniras, nps, size, bps, lastReserved, pending, phase, reserves, moved>>,
         used' \in 0 .. MaxIndex, allocs' \in Seq(BlockType), tom' \in Nat, ListOk',
         \A q : Marked(q) => Marked(q)',
         UNCHANGED allocs \/ \E b \in BlockType : b.kind = "bad" /\ Adds(b),
         UNCHANGED bpsMem \/ \E m \in {p, None} : /\ bpsMem' = [bpsMem EXCEPT ![Head(todo)] = m]
                                                  /\ m # None => Marked(p)'
  PROVE  IInv'
<1>1. /\ todo \in Seq(Nat) /\ bps \in Seq(Pages) /\ bpsMem \in Seq(Pages \union {None})
      /\ Len(bpsMem) = Len(bps) /\ reserves = <<>> /\ ~down /\ moved \in Seq(BlockType)
      /\ \A i \in 1 .. Len(todo) : todo[i] \in 1 .. Len(bps)
  BY DEF IInv, TypeOK, Phases
<1>2. /\ Head(todo) = todo[1] /\ 1 \in 1 .. Len(todo) /\ todo' \in Seq(Nat) /\ Len(todo') = Len(todo) - 1
      /\ \A i \in 1 .. Len(todo) - 1 : todo'[i] = todo[i + 1] /\ i + 1 \in 1 .. Len(todo)
  BY <1>1, TailFacts
<1>3. PICK h \in 1 .. Len(bps) : h = Head(todo)
  BY <1>1, <1>2
<1>4. p \in Pages /\ p = bps[h]
  BY <1>1, <1>3
<1>5. bpsMem' \in Seq(Pages \union {None}) /\ Len(bpsMem') = Len(bps)
  <2>1. CASE UNCHANGED bpsMem
    BY <2>1, <1>1
  <2>2. ASSUME NEW m \in {p, None}, bpsMem' = [bpsMem EXCEPT ![Head(todo)] = m]
        PROVE  bpsMem' \in Seq(Pages \union {None}) /\ Len(bpsMem') = Len(bps)
    <3>1. m \in Pages \union {None} /\ bpsMem' = [bpsMem EXCEPT ![h] = m] /\ h \in 1 .. Len(bpsMem)
      BY <2>2, <1>1, <1>3, <1>4
    <3> QED BY <3>1, <1>1
  <2> QED BY <2>1, <2>2
<1>6. TypeOK'
  BY <1>1, <1>2, <1>5 DEF IInv, TypeOK
<1>7. Waiting(reserves)'
  BY <1>1 DEF Waiting, OneEach, Disjoint
<1>8. Waiting(moved)'
  <2>1. Disjoint(allocs', moved)
    <3>1. Disjoint(allocs, moved)
      BY DEF IInv, Waiting
    <3>2. \A b : b.kind = "bad" => \A i \in 1 .. Len(moved) : ~Same(b, moved[i])
      BY DEF Same
    <3> QED BY <3>1, <3>2, AddApart
  <2> QED BY <2>1 DEF IInv, Waiting, OneEach, Disjoint, Sound
<1>9. Phases'
  <2>1. ASSUME NEW j \in 1 .. Len(allocs') PROVE allocs'[j].kind # "nps"
    BY DEF Adds, IInv, Phases
  <2>2. \A i \in 1 .. Len(todo') : todo'[i] \in 1 .. Len(bps)
    BY <1>1, <1>2
  <2> QED BY <2>1, <2>2, <1>1 DEF Phases
<1>10. Kept'
  <2>1. ASSUME NEW i \in 1 .. Len(bps), bpsMem'[i] # None PROVE Marked(bps[i])'
    <3>1. CASE bpsMem'[i] = bpsMem[i]
      <4>1. Marked(bps[i])
        BY <2>1, <3>1, <1>1 DEF IInv, Kept
      <4>2. PICK q : q = bps[i]
        OBVIOUS
      <4>3. Marked(q)'
        BY <4>1, <4>2
      <4> QED BY <4>2, <4>3 DEF Marked
    <3>2. CASE i = h /\ Marked(p)'
      BY <3>2, <1>4 DEF Marked
    <3>3. bpsMem'[i] = bpsMem[i] \/ (i = h /\ Marked(p)')
      BY <2>1, <1>1, <1>3
    <3> QED BY <3>1, <3>2, <3>3
  <2> QED BY <2>1 DEF Kept, Marked
<1>11. Covered' /\ AvoidsNps'
  BY DEF IInv, Covered, AvoidsNps
<1> QED BY <1>6, <1>7, <1>8, <1>9, <1>10, <1>11 DEF IInv

\* A block leaves the list because a page of it is bad.
LEMMA MovedOut ==
  ASSUME IInv, phase = "replace", NEW k \in 1 .. Len(allocs), allocs[k].kind # "bad", MoveOut(k),
         UNCHANGED <<down, uniras, nps, size, bps, bpsMem, lastReserved, pending, phase, reserves, todo, used>>
  PROVE  IInv'
<1> DEFINE d == allocs[k]
<1>1. /\ moved' = Cons(d, moved) /\ allocs' = RemoveAt(allocs, k)
      /\ tom' = IF k = Len(allocs) THEN EndOf(k - 1) ELSE tom
  BY DEF MoveOut
<1>2. Drops(k)
  BY <1>1, Removed
<1>3. /\ allocs' \in Seq(BlockType) /\ tom' \in Nat /\ ListOk'
      /\ \A q : Marked(q) => Marked(q)'
  BY <1>2, DropKeeps
<1>4. d \in BlockType /\ d.kind = "mem" /\ Sound(d)
  <2>1. d \in BlockType /\ d.kind \in {"mem", "bad", "nps"}
    BY ListFacts, BlockFacts
  <2>2. d.kind # "nps" /\ Sound(d)
    BY DEF IInv, Phases, ListOk
  <2> QED BY <2>1, <2>2
<1>5. moved \in Seq(BlockType) /\ Len(moved) \in Nat /\ reserves = <<>>
  BY ListFacts DEF IInv, Phases
<1>6. \A i \in 1 .. Len(moved) : ~Same(d, moved[i]) /\ ~Same(moved[i], d)
  BY DEF IInv, Waiting, Disjoint, Same
<1>7. \A i \in 1 .. Len(allocs) : i # k => ~Same(allocs[i], d)
  BY DEF IInv, ListOk, OneEach
<1> HIDE DEF d
<1>8. moved' \in Seq(BlockType) /\ Len(moved') = Len(moved) + 1 /\ moved'[1] = d
  BY <1>1, <1>4, <1>5, ConsFacts
<1>9. \A i \in 2 .. Len(moved) + 1 : moved'[i] = moved[i - 1]
  <2>1. moved \in Seq(BlockType) /\ d \in BlockType
    BY <1>4, <1>5
  <2>2. \A i \in 2 .. Len(moved) + 1 : Cons(d, moved)[i] = moved[i - 1]
    BY <2>1, ConsFacts
  <2> QED BY <2>2, <1>1
<1>10. OneEach(moved')
  BY <1>1, <1>4, <1>5, <1>6, ConsOnce DEF IInv, Waiting
<1>11. ASSUME NEW i \in 1 .. Len(moved')
       PROVE  /\ Sound(moved'[i]) /\ moved'[i].kind = "mem"
              /\ \A j \in 1 .. Len(allocs) : j # k => ~Same(allocs[j], moved'[i])
  <2>1. CASE i = 1
    BY <2>1, <1>4, <1>7, <1>8
  <2>2. CASE i # 1
    <3>0. i - 1 \in 1 .. Len(moved) /\ i \in 2 .. Len(moved) + 1
      BY <2>2, <1>5, <1>8
    <3>1. moved'[i] = moved[i - 1]
      BY <3>0, <1>9
    <3> QED BY <3>0, <3>1 DEF IInv, Waiting, Disjoint
  <2> QED BY <2>1, <2>2
<1>12. Disjoint(allocs', moved')
  <2> SUFFICES ASSUME NEW j \in 1 .. Len(allocs'), NEW i \in 1 .. Len(moved')
               PROVE  ~Same(allocs'[j], moved'[i])
    BY DEF Disjoint
  <2>1. PICK m \in 1 .. Len(allocs) : m # k /\ allocs'[j] = allocs[m]
    BY <1>2 DEF Drops
  <2> QED BY <2>1, <1>11
<1>13. Waiting(moved)' /\ Waiting(reserves)'
  BY <1>5, <1>10, <1>11, <1>12 DEF Waiting, OneEach, Disjoint, Sound
<1>14. TypeOK'
  BY <1>3, <1>8 DEF IInv, TypeOK
<1>15. Phases'
  <2>1. ASSUME NEW j \in 1 .. Len(allocs') PROVE allocs'[j].kind # "nps"
    <3>1. PICK i \in 1 .. Len(allocs) : allocs'[j] = allocs[i]
      BY <1>2 DEF Drops
    <3> QED BY <3>1 DEF IInv, Phases
  <2> QED BY <2>1 DEF IInv, Phases
<1>16. Covered' /\ AvoidsNps' /\ Kept'
  BY <1>3 DEF IInv, Covered, AvoidsNps, Kept
<1> QED BY <1>3, <1>13, <1>14, <1>15, <1>16 DEF IInv

\* A block of a bad page that overlaps another page of the frame buffer is on
\* that page: pages are apart.
LEMMA OnThatPage ==
  ASSUME IInv, ~down, NEW p \in Pages, NEW j \in 1 .. Len(allocs),
         allocs[j].kind = "bad", OverlapsPage(allocs[j], p)
  PROVE  Marked(p)
<1>1. /\ allocs[j].len = PageLen /\ Start(allocs[j]) \in Pages
      /\ allocs[j].end = Start(allocs[j]) + allocs[j].len
  <2>1. Sound(allocs[j]) /\ allocs[j] \in BlockType
    BY ListFacts DEF IInv, ListOk
  <2> QED BY <2>1, BlockFacts DEF Sound
<1>2. PICK q \in Pages : q = Start(allocs[j])
  BY <1>1
<1>3. p < q + PageLen /\ q < p + PageLen
  BY <1>1, <1>2 DEF OverlapsPage, Overlaps
<1>4. p \in Nat /\ q \in Nat /\ PageLen \in Nat \ {0} /\ p % PageLen = 0 /\ q % PageLen = 0
  BY PageFacts
<1>5. ~(p < q) /\ ~(q < p)
  <2>1. p < q => p + PageLen <= q
    BY <1>4, MultiplesApart
  <2>2. q < p => q + PageLen <= p
    BY <1>4, MultiplesApart
  <2> QED BY <2>1, <2>2, <1>3, <1>4
<1>6. p = q
  BY <1>4, <1>5
<1> QED BY <1>1, <1>2, <1>6 DEF Marked

LEMMA ReplacePageStep ==
  ASSUME IInv, ReplacePage
  PROVE  IInv'
<1> DEFINE hit(q) == {j \in 1 .. Len(allocs) : OverlapsPage(allocs[j], q)}
<1>1. /\ UNCHANGED <<down, uniras, nps, size, bps, lastReserved, pending, phase, reserves>>
      /\ phase = "replace" /\ todo # <<>> /\ ~down
  BY DEF ReplacePage, config, IInv, Phases
<1>2. PICK p \in Pages : p = bps[Head(todo)]
  <2>1. todo \in Seq(Nat) /\ bps \in Seq(Pages) /\ \A i \in 1 .. Len(todo) : todo[i] \in 1 .. Len(bps)
    BY <1>1 DEF IInv, TypeOK, Phases
  <2>2. Head(todo) = todo[1] /\ 1 \in 1 .. Len(todo)
    BY <2>1, <1>1, TailFacts
  <2> QED BY <2>1, <2>2
<1>3. hit(p) # {} => Min(hit(p)) \in hit(p)
  <2>1. hit(p) \subseteq Nat
    OBVIOUS
  <2> HIDE DEF hit
  <2> QED BY <2>1, MinFacts
<1>4. allocs \in Seq(BlockType) /\ tom \in Nat /\ used \in 0 .. MaxIndex /\ ListOk
  BY DEF IInv, TypeOK
<1>5. ASSUME UNCHANGED <<tom, allocs, used>>
      PROVE  /\ used' \in 0 .. MaxIndex /\ allocs' \in Seq(BlockType) /\ tom' \in Nat /\ ListOk'
             /\ \A q : Marked(q) => Marked(q)'
  BY <1>1, <1>4, <1>5, ListStays
<1>6. CASE todo' = Tail(todo) /\ UNCHANGED <<tom, allocs, used, moved, bpsMem>>
  BY <1>1, <1>2, <1>5, <1>6, RecordDone
<1>7. CASE /\ hit(p) # {} /\ allocs[Min(hit(p))].kind # "bad"
           /\ MoveOut(Min(hit(p))) /\ UNCHANGED <<todo, used, bpsMem>>
  <2>1. PICK k \in 1 .. Len(allocs) : k = Min(hit(p))
    BY <1>3, <1>7
  <2> HIDE DEF hit
  <2>2. allocs[k].kind # "bad" /\ MoveOut(k)
    BY <2>1, <1>7
  <2> QED BY <2>2, <1>1, <1>7, MovedOut
<1>8. CASE /\ hit(p) # {} /\ allocs[Min(hit(p))].kind = "bad"
           /\ bpsMem' = [bpsMem EXCEPT ![Head(todo)] = p]
           /\ todo' = Tail(todo) /\ UNCHANGED <<tom, allocs, used, moved>>
  <2>1. PICK k \in 1 .. Len(allocs) : k = Min(hit(p)) /\ OverlapsPage(allocs[k], p)
    BY <1>3, <1>8
  <2>2. Marked(p)
    <3>1. allocs[k].kind = "bad"
      BY <2>1, <1>8
    <3> QED BY <3>1, <2>1, <1>1, OnThatPage
  <2>3. Marked(p)'
    BY <2>2, <1>8 DEF Marked
  <2> QED BY <2>3, <1>1, <1>2, <1>5, <1>8, RecordDone
<1>9. CASE /\ WholeInRegion(p) /\ ReserveAt(p) /\ todo' = Tail(todo) /\ UNCHANGED moved
           /\ bpsMem' = [bpsMem EXCEPT ![Head(todo)] = IF CanReserve(p) THEN p ELSE None]
  <2>1. InRegion(p)
    <3>1. Offset \in Nat /\ size \in Nat /\ p \in Nat /\ PageLen \in Nat \ {0}
      BY ListFacts, PageFacts
    <3> QED BY <3>1, <1>1, <1>9 DEF WholeInRegion, InRegion, PageAt
  <2>2. /\ used' \in 0 .. MaxIndex /\ allocs' \in Seq(BlockType) /\ tom' \in Nat /\ ListOk'
        /\ \A q : Marked(q) => Marked(q)'
        /\ CanReserve(p) => Marked(p)'
        /\ UNCHANGED allocs \/ \E b \in BlockType : b.kind = "bad" /\ Adds(b)
    BY <2>1, <1>1, <1>9, PageReserved
  <2>3. PICK m \in {p, None} : m = IF CanReserve(p) THEN p ELSE None
    OBVIOUS
  <2>4. bpsMem' = [bpsMem EXCEPT ![Head(todo)] = m] /\ (m # None => Marked(p)')
    BY <2>2, <2>3, <1>9
  <2> QED BY <2>2, <2>4, <1>1, <1>2, <1>9, RecordDone
<1> QED BY <1>2, <1>6, <1>7, <1>8, <1>9 DEF ReplacePage

LEMMA RehomeStep ==
  ASSUME IInv, Rehome
  PROVE  IInv'
<1>1. /\ UNCHANGED <<down, uniras, nps, size, bps, bpsMem, lastReserved, pending, todo, reserves>>
      /\ phase = "rehome" /\ reserves = <<>> /\ ~down
  BY DEF Rehome, config, ecc, IInv, Phases
<1>2. CASE moved = <<>> /\ phase' = "ready" /\ UNCHANGED <<tom, allocs, used, moved>>
  <2>1. TypeOK' /\ ListOk' /\ Waiting(reserves)' /\ Waiting(moved)' /\ Kept'
    <3>1. TypeOK'
      BY <1>1, <1>2 DEF IInv, TypeOK
    <3>2. ListOk' /\ Kept'
      BY <1>1, <1>2, ListStays, KeptStays
    <3>3. Waiting(reserves)'
      BY <1>1, <1>2, ReservesStay
    <3>4. Waiting(moved)'
      BY <1>1, <1>2, MovedStay
    <3> QED BY <3>1, <3>2, <3>3, <3>4
  <2>2. Phases' /\ AvoidsNps' /\ Covered'
    BY <1>1, <1>2 DEF IInv, Phases, AvoidsNps, Covered
  <2> QED BY <2>1, <2>2 DEF IInv
<1>3. CASE TakeIndex /\ phase' = "dead" /\ moved' = <<>> /\ UNCHANGED <<tom, allocs>>
  <2>0. used' \in 0 .. MaxIndex
    BY <1>3, IndexTaken
  <2>1. TypeOK' /\ ListOk' /\ Waiting(reserves)' /\ Waiting(moved)' /\ Kept'
    <3>1. TypeOK'
      BY <2>0, <1>1, <1>3 DEF IInv, TypeOK
    <3>2. ListOk' /\ Kept'
      BY <2>0, <1>1, <1>3, ListStays, KeptStays
    <3>3. Waiting(reserves)'
      BY <2>0, <1>1, <1>3, ReservesStay
    <3>4. Waiting(moved)'
      BY <2>0, <1>1, <1>3 DEF Waiting, OneEach, Disjoint
    <3> QED BY <3>1, <3>2, <3>3, <3>4
  <2>2. Phases' /\ AvoidsNps' /\ Covered'
    BY <1>1, <1>3 DEF IInv, Phases, AvoidsNps, Covered
  <2> QED BY <2>1, <2>2 DEF IInv
<1>4. CASE /\ moved # <<>> /\ TakeIndex /\ moved' = Tail(moved) /\ UNCHANGED phase
           /\ PlaceBlock("mem", Head(moved).h, Head(moved).len, Head(moved).al)
  <2>1. moved \in Seq(BlockType) /\ Waiting(moved) /\ UNCHANGED <<down, size>>
    BY <1>1, ListFacts DEF IInv
  <2>2. /\ moved' \in Seq(BlockType) /\ OneEach(moved') /\ Disjoint(allocs', moved')
        /\ \A i \in 1 .. Len(moved') : Sound(moved'[i]) /\ moved'[i].kind = "mem"
    BY <2>1, <1>4, HeadPlaced
  <2>3. PICK b \in BlockType :
          /\ b.kind = "mem" /\ Adds(b)
          /\ allocs' \in Seq(BlockType) /\ tom' \in Nat /\ ListOk'
          /\ \A p : (Marked(p) => Marked(p)') /\ (Taken(p) => Taken(p)')
    BY <2>1, <1>4, HeadPlaced
  <2>4. Waiting(moved)'
    BY <2>2, <1>1 DEF Waiting, Disjoint, OneEach, Sound
  <2>5. Waiting(reserves)'
    BY <1>1 DEF Waiting, Disjoint, OneEach
  <2>6. TypeOK'
    BY <2>2, <2>3, <1>1, <1>4, IndexTaken DEF IInv, TypeOK
  <2>7. AvoidsNps' /\ Kept' /\ Covered'
    BY <2>3, <1>1, <1>4 DEF IInv, AvoidsNps, Kept, Covered
  <2>8. Phases'
    <3>1. ASSUME NEW j \in 1 .. Len(allocs') PROVE allocs'[j].kind # "nps"
      BY <2>3, <1>1 DEF Adds, IInv, Phases
    <3> QED BY <3>1, <1>1, <1>4 DEF Phases
  <2> QED BY <2>3, <2>4, <2>5, <2>6, <2>7, <2>8 DEF IInv
<1> QED BY <1>2, <1>3, <1>4 DEF Rehome

-----------------------------------------------------------------------------
(* The theorems.                                                           *)

LEMMA StutterInv == IInv /\ UNCHANGED vars => IInv'
<1> SUFFICES ASSUME IInv, UNCHANGED vars PROVE IInv'
  OBVIOUS
<1>1. UNCHANGED <<down, uniras, size, tom, allocs, used, bps, bpsMem, lastReserved, pending, phase, nps, todo, moved, reserves>>
  BY DEF vars, config, list, ecc, job
<1>2. TypeOK' /\ ListOk' /\ Waiting(reserves)' /\ Waiting(moved)' /\ Kept'
  <2>1. TypeOK'
    BY <1>1 DEF IInv, TypeOK
  <2>2. ListOk' /\ Kept'
    BY <1>1, ListStays, KeptStays
  <2>3. Waiting(reserves)'
    BY <1>1, ReservesStay
  <2>4. Waiting(moved)'
    BY <1>1, MovedStay
  <2> QED BY <2>1, <2>2, <2>3, <2>4
<1>3. Phases' /\ AvoidsNps' /\ Covered'
  BY <1>1 DEF IInv, Phases, AvoidsNps, Touches, Overlaps, Covered, Beyond, Taken
<1> QED BY <1>2, <1>3 DEF IInv

LEMMA NextInv == IInv /\ [Next]_vars => IInv'
<1> SUFFICES ASSUME IInv, Next PROVE IInv'
  BY StutterInv
<1>1. ASSUME NEW c \in Client, Alloc(c) PROVE IInv'
  BY <1>1, AllocStep
<1>2. ASSUME NEW c \in Client, AllocEarly(c) PROVE IInv'
  BY <1>2, AllocEarlyStep
<1>3. ASSUME NEW c \in Client, Free(c) PROVE IInv'
  BY <1>3, FreeStep
<1>4. ASSUME NEW c \in Client, FreeEarly(c) PROVE IInv'
  BY <1>4, FreeEarlyStep
<1>5. CASE SetSize
  BY <1>5, SetSizeStep
<1>6. CASE HwInit \/ Candidate \/ Deferred \/ FreeCandidates
  BY <1>6, HwInitStep, CandidateStep, DeferredStep, FreeCandidatesStep
<1>7. ASSUME NEW p \in Pages, Record(p) \/ ReservePage(p) PROVE IInv'
  BY <1>7, RecordStep, ReservePageStep
<1>8. CASE Replace \/ ReplacePage \/ Replaced \/ Rehome
  BY <1>8, ReplaceStep, ReplacePageStep, ReplacedStep, RehomeStep
<1>9. CASE Reserve
  BY <1>9, ReserveStep
<1> QED BY <1>1, <1>2, <1>3, <1>4, <1>5, <1>6, <1>7, <1>8, <1>9 DEF Next

LEMMA InvAlways == Spec => []IInv
<1>1. Init => IInv
  BY InitInv
<1>2. IInv /\ [Next]_vars => IInv'
  BY NextInv
<1> QED BY <1>1, <1>2, PTL DEF Spec

\* The list is in order and tom is where its last block ends, after any
\* sequence of allocations, frees, reservations and replacements.
THEOREM ListWellFormed == Spec => []WellFormed
<1>1. IInv => WellFormed
  <2> SUFFICES ASSUME IInv PROVE WellFormed
    OBVIOUS
  <2>1. Len(allocs) \in Nat
    BY ListFacts
  <2>2. ASSUME NEW i \in 1 .. Len(allocs) - 1 PROVE allocs[i].end <= Start(allocs[i + 1])
    <3>1. i \in 1 .. Len(allocs) /\ i + 1 \in 1 .. Len(allocs) /\ i < i + 1
      BY <2>1
    <3> QED BY <3>1 DEF IInv, ListOk, Sorted
  <2> QED BY <2>2 DEF IInv, ListOk, WellFormed
<1> QED BY <1>1, InvAlways, PTL

\* mi350_mem_hw_init keeps the driver's own blocks off every page that is bad
\* in some NPS mode.
THEOREM NpsAvoided == Spec => []AvoidsNps
<1>1. IInv => AvoidsNps
  BY DEF IInv
<1> QED BY <1>1, InvAlways, PTL

\* A bad page of memmgr_pf that is recorded with a block has it, on that page,
\* whatever is moved or freed later.
THEOREM BadPagesKept == Spec => []BadPageKept
<1>1. IInv => BadPageKept
  <2> SUFFICES ASSUME IInv, ~down, NEW i \in DOMAIN bps, bpsMem[i] # None
               PROVE  \E b \in Range(allocs) : b.kind = "bad" /\ b.len = PageLen /\ PhysStart(b) = bps[i]
    BY DEF BadPageKept, RightPage
  <2>1. i \in 1 .. Len(bps)
    BY DEF IInv, TypeOK
  <2>2. PICK j \in 1 .. Len(allocs) :
          allocs[j].kind = "bad" /\ allocs[j].len = PageLen /\ Start(allocs[j]) = bps[i]
    BY <2>1 DEF IInv, Kept, Marked
  <2>3. allocs[j] \in Range(allocs)
    BY ListFacts DEF Range
  <2> QED BY <2>2, <2>3 DEF PhysStart
<1> QED BY <1>1, InvAlways, PTL

-----------------------------------------------------------------------------
(* The manager implements the allocator.                                   *)

\* A block as the callers see it.
View(b) == [h |-> IF b.kind = "bad" THEN "bad" ELSE b.h, lo |-> Start(b), hi |-> b.end]

LEMMA HeldIs ==
  ASSUME allocs \in Seq(BlockType)
  PROVE  \A y : y \in Held <=> \E i \in 1 .. Len(allocs) : allocs[i].kind # "nps" /\ y = View(allocs[i])
BY DEF Held, View, Range

\* A block is put into the list: more is held, all of it apart from the rest.
LEMMA AddHeld ==
  ASSUME IInv, NEW b \in BlockType, Adds(b), b.kind # "nps",
         Offset <= Start(b), Start(b) < b.end, b.end <= Offset + size
  PROVE  \E x \in Held' \ Held :
           /\ x = View(b) /\ Held' = Held \union {x}
           /\ Promise!Inside(x) /\ \A y \in Held : Promise!Apart(x, y)
<1> DEFINE x == View(b)
<1>1. x.lo = Start(b) /\ x.hi = b.end
  BY DEF View
<1>2. Promise!Inside(x)
  BY <1>1 DEF Promise!Inside
<1>3. \A y : y \in Held <=> \E i \in 1 .. Len(allocs) : allocs[i].kind # "nps" /\ y = View(allocs[i])
  BY HeldIs, ListFacts
<1>4. \A y : y \in Held' <=> \E i \in 1 .. Len(allocs') : allocs'[i].kind # "nps" /\ y = View(allocs'[i])
  <2>1. allocs' \in Seq(BlockType)
    BY DEF Adds
  <2> QED BY <2>1 DEF Held, View, Range
<1>5. Held' = Held \union {x}
  <2>1. ASSUME NEW y \in Held' PROVE y \in Held \union {x}
    <3>1. PICK j \in 1 .. Len(allocs') : allocs'[j].kind # "nps" /\ y = View(allocs'[j])
      BY <1>4, <2>1
    <3> QED BY <3>1, <1>3 DEF Adds
  <2>2. ASSUME NEW y \in Held \union {x} PROVE y \in Held'
    <3>1. CASE y = x
      <4>1. PICK j \in 1 .. Len(allocs') : allocs'[j] = b
        BY DEF Adds
      <4> QED BY <3>1, <4>1, <1>4
    <3>2. CASE y \in Held
      <4>1. PICK i \in 1 .. Len(allocs) : allocs[i].kind # "nps" /\ y = View(allocs[i])
        BY <3>2, <1>3
      <4>2. PICK j \in 1 .. Len(allocs') : allocs'[j] = allocs[i]
        BY DEF Adds
      <4> QED BY <4>1, <4>2, <1>4
    <3> QED BY <3>1, <3>2, <2>2
  <2> QED BY <2>1, <2>2
<1>6. \A y \in Held : Promise!Apart(x, y)
  <2> SUFFICES ASSUME NEW y \in Held PROVE Promise!Apart(x, y)
    OBVIOUS
  <2>1. PICK i \in 1 .. Len(allocs) : y = View(allocs[i])
    BY <1>3
  <2>2. y.lo = Start(allocs[i]) /\ y.hi = allocs[i].end
    BY <2>1 DEF View
  <2>3. allocs[i].end <= Start(b) \/ b.end <= Start(allocs[i])
    BY DEF Adds
  <2> QED BY <2>2, <2>3, <1>1 DEF Promise!Apart
<1>7. x \notin Held
  <2>1. Start(b) \in Int /\ b.end \in Nat
    BY BlockFacts
  <2>2. ~Promise!Apart(x, x)
    BY <2>1, <1>1 DEF Promise!Apart
  <2> QED BY <2>2, <1>6
<1> QED BY <1>2, <1>5, <1>6, <1>7

\* A client's block is put into the list: memory is granted.
LEMMA GrantImplements ==
  ASSUME IInv, NEW b \in BlockType, Adds(b), b.kind = "mem", b.h \in Client,
         \A i \in 1 .. Len(allocs) : ~Same(allocs[i], b),
         Offset <= Start(b), Start(b) < b.end, b.end <= Offset + size,
         phase # "dead", UNCHANGED <<size, bps, phase>>,
         Homeless = {} \/ b.h \in Homeless, Homeless' = Homeless \ {b.h}
  PROVE  Promise!Next
<1>1. PICK x \in Held' \ Held :
        /\ x = View(b) /\ Held' = Held \union {x}
        /\ Promise!Inside(x) /\ \A y \in Held : Promise!Apart(x, y)
  BY AddHeld
<1>2. x.h = b.h
  BY <1>1 DEF View
<1>3. ASSUME NEW y \in Held PROVE y.h # x.h
  <2>1. PICK i \in 1 .. Len(allocs) : allocs[i].kind # "nps" /\ y = View(allocs[i])
    BY HeldIs, ListFacts
  <2>2. y.h = IF allocs[i].kind = "bad" THEN "bad" ELSE allocs[i].h
    BY <2>1 DEF View
  <2>3. CASE allocs[i].kind = "bad"
    BY <2>2, <2>3, <1>2, ClientAssumption
  <2>4. CASE allocs[i].kind # "bad"
    <3>1. allocs[i].kind = "mem"
      BY <2>1, <2>4, ListFacts, BlockFacts
    <3>2. allocs[i].h # b.h
      BY <3>1 DEF Same
    <3> QED BY <3>1, <3>2, <2>2, <1>2
  <2> QED BY <2>3, <2>4
<1>4. Status # "failed" /\ UNCHANGED <<Status, Reported>>
  BY DEF Status, Reported
<1>5. UNCHANGED (Offset + size)
  OBVIOUS
<1>6. Promise!Grant(x)
  BY <1>1, <1>2, <1>3, <1>4, <1>5 DEF Promise!Grant
<1> QED BY <1>1, <1>6 DEF Promise!Next

\* The block of a page is put into the list: the page is taken out of use.
LEMMA PageImplements ==
  ASSUME IInv, NEW b \in BlockType, Adds(b), b.kind = "bad",
         Offset <= Start(b), Start(b) < b.end, b.end <= Offset + size,
         phase # "dead", UNCHANGED <<size, moved, phase>>, Reported \subseteq Reported'
  PROVE  Promise!Next
<1>1. PICK x \in Held' \ Held :
        /\ x = View(b) /\ Held' = Held \union {x}
        /\ Promise!Inside(x) /\ \A y \in Held : Promise!Apart(x, y)
  BY AddHeld
<1>2. x.h = "bad"
  BY <1>1 DEF View
<1>3. Status # "failed" /\ UNCHANGED <<Status, Homeless>>
  BY DEF Status, Homeless
<1>4. UNCHANGED (Offset + size)
  OBVIOUS
<1>5. Promise!Retire(x)
  BY <1>1, <1>2, <1>3, <1>4 DEF Promise!Retire
<1> QED BY <1>1, <1>5 DEF Promise!Next

\* A client's block leaves the list: that client holds nothing any more, and
\* nobody else loses anything.
LEMMA DropHeld ==
  ASSUME IInv, NEW k \in 1 .. Len(allocs), Drops(k), allocs[k].kind = "mem"
  PROVE  \E x \in Held \ Held' :
           /\ x = View(allocs[k]) /\ x.h = allocs[k].h /\ x.h \in Client
           /\ Held' = Held \ {x}
<1> DEFINE x == View(allocs[k])
<1>1. \A y : y \in Held <=> \E i \in 1 .. Len(allocs) : allocs[i].kind # "nps" /\ y = View(allocs[i])
  BY HeldIs, ListFacts
<1>2. \A y : y \in Held' <=> \E i \in 1 .. Len(allocs') : allocs'[i].kind # "nps" /\ y = View(allocs'[i])
  <2>1. allocs' \in Seq(BlockType)
    BY DEF Drops
  <2> QED BY <2>1 DEF Held, View, Range
<1>3. x.h = allocs[k].h /\ x.h \in Client
  <2>1. Sound(allocs[k])
    BY DEF IInv, ListOk
  <2> QED BY <2>1 DEF View, Sound
<1>4. ASSUME NEW i \in 1 .. Len(allocs), i # k, allocs[i].kind # "nps" PROVE View(allocs[i]) # x
  <2>1. View(allocs[i]).h = IF allocs[i].kind = "bad" THEN "bad" ELSE allocs[i].h
    BY DEF View
  <2>2. CASE allocs[i].kind = "bad"
    BY <2>1, <2>2, <1>3, ClientAssumption
  <2>3. CASE allocs[i].kind # "bad"
    <3>1. allocs[i].kind = "mem"
      BY <2>3, <1>4, ListFacts, BlockFacts
    <3>2. ~Same(allocs[i], allocs[k])
      BY <1>4 DEF IInv, ListOk, OneEach
    <3>3. allocs[i].h # allocs[k].h
      BY <3>1, <3>2 DEF Same
    <3> QED BY <3>1, <3>3, <2>1, <1>3
  <2> QED BY <2>2, <2>3
<1>5. x \in Held
  BY <1>1
<1>6. ASSUME NEW y \in Held' PROVE y \in Held /\ y # x
  <2>1. PICK j \in 1 .. Len(allocs') : allocs'[j].kind # "nps" /\ y = View(allocs'[j])
    BY <1>2, <1>6
  <2>2. PICK i \in 1 .. Len(allocs) : i # k /\ allocs'[j] = allocs[i]
    BY <2>1 DEF Drops
  <2> QED BY <2>1, <2>2, <1>1, <1>4
<1>7. ASSUME NEW y \in Held, y # x PROVE y \in Held'
  <2>1. PICK i \in 1 .. Len(allocs) : allocs[i].kind # "nps" /\ y = View(allocs[i])
    BY <1>1
  <2>2. i # k
    BY <2>1, <1>7
  <2>3. PICK j \in 1 .. Len(allocs') : allocs'[j] = allocs[i]
    BY <2>2 DEF Drops
  <2> QED BY <2>1, <2>3, <1>2
<1> HIDE DEF x
<1>8. Held' = Held \ {x} /\ x \in Held \ Held'
  BY <1>5, <1>6, <1>7
<1> QED BY <1>3, <1>8 DEF x

\* The holder gives its memory back.
LEMMA FreeImplements ==
  ASSUME IInv, NEW k \in 1 .. Len(allocs), Drops(k), allocs[k].kind = "mem",
         phase = "ready", UNCHANGED <<size, bps, moved, phase>>
  PROVE  Promise!Next
<1>1. PICK x \in Held \ Held' : x.h \in Client /\ Held' = Held \ {x}
  BY DropHeld
<1>2. Status = "open" /\ UNCHANGED <<Status, Reported, Homeless>>
  BY DEF Status, Reported, Homeless
<1>3. UNCHANGED (Offset + size)
  OBVIOUS
<1>4. Promise!GiveBack(x)
  BY <1>1, <1>2, <1>3 DEF Promise!GiveBack
<1> QED BY <1>1, <1>4 DEF Promise!Next

\* A block on a page on record is moved out of the list.
LEMMA MoveOutImplements ==
  ASSUME IInv, NEW k \in 1 .. Len(allocs), Drops(k), allocs[k].kind = "mem",
         moved' = Cons(allocs[k], moved), NEW i \in 1 .. Len(bps), OverlapsPage(allocs[k], bps[i]),
         phase = "replace", UNCHANGED <<size, bps, phase>>
  PROVE  Promise!Next
<1>1. PICK x \in Held \ Held' :
        /\ x = View(allocs[k]) /\ x.h = allocs[k].h /\ x.h \in Client
        /\ Held' = Held \ {x}
  BY DropHeld
<1>2. Status = "closed" /\ UNCHANGED <<Status, Reported>>
  BY DEF Status, Reported
<1>3. bps \in Seq(Pages) /\ DOMAIN bps = 1 .. Len(bps) /\ moved \in Seq(BlockType) /\ allocs[k] \in BlockType
  BY ListFacts DEF IInv, TypeOK
<1>4. \E page \in Reported : ~Promise!Apart(x, page)
  <2>1. PICK p \in Pages : p = bps[i] /\ p \in Range(bps)
    BY <1>3 DEF Range
  <2> DEFINE page == [lo |-> p, hi |-> p + PageLen]
  <2>2. page \in Reported
    BY <2>1 DEF Reported
  <2>3. p < allocs[k].end /\ Start(allocs[k]) < p + PageLen
    BY <2>1 DEF OverlapsPage, Overlaps
  <2>4. x.lo = Start(allocs[k]) /\ x.hi = allocs[k].end /\ page.lo = p /\ page.hi = p + PageLen
    BY <1>1 DEF View
  <2>5. p \in Nat /\ PageLen \in Nat /\ allocs[k].end \in Nat /\ Start(allocs[k]) \in Int
    BY PageFacts, ListFacts
  <2> HIDE DEF page
  <2>6. ~Promise!Apart(x, page)
    BY <2>3, <2>4, <2>5 DEF Promise!Apart
  <2> QED BY <2>2, <2>6
<1>5. Homeless' = Homeless \union {x.h}
  <2>1. PICK d \in BlockType : d = allocs[k]
    BY <1>3
  <2>2. PICK t \in Seq(BlockType) : t = Cons(d, moved)
    BY <1>3, <2>1, ConsFacts
  <2>3. /\ Len(t) = Len(moved) + 1 /\ t[1] = d /\ \A j \in 2 .. Len(moved) + 1 : t[j] = moved[j - 1]
        /\ Len(moved) \in Nat
    <3>1. moved \in Seq(BlockType) /\ Len(moved) \in Nat
      BY <1>3
    <3>2. Len(Cons(d, moved)) = Len(moved) + 1 /\ Cons(d, moved)[1] = d
      BY <3>1, ConsFacts
    <3>3. \A j \in 2 .. Len(moved) + 1 : Cons(d, moved)[j] = moved[j - 1]
      BY <3>1, ConsFacts
    <3> QED BY <3>1, <3>2, <3>3, <2>2
  <2>4. \A j \in 1 .. Len(moved) : t[j + 1] = moved[j] /\ j + 1 \in 1 .. Len(t)
    BY <2>3
  <2>5. \A j \in 1 .. Len(t) : t[j] = d \/ \E m \in 1 .. Len(moved) : t[j] = moved[m]
    <3> SUFFICES ASSUME NEW j \in 1 .. Len(t), j # 1 PROVE \E m \in 1 .. Len(moved) : t[j] = moved[m]
      BY <2>3
    <3>1. j - 1 \in 1 .. Len(moved) /\ j \in 2 .. Len(moved) + 1
      BY <2>3
    <3> QED BY <3>1, <2>3
  <2>6. moved' = t /\ x.h = d.h /\ 1 \in 1 .. Len(t)
    BY <1>1, <2>1, <2>2, <2>3
  <2>7. \A h : h \in {b.h : b \in Range(t)} <=> h = d.h \/ h \in {b.h : b \in Range(moved)}
    <3>1. Range(t) = {t[j] : j \in 1 .. Len(t)} /\ Range(moved) = {moved[j] : j \in 1 .. Len(moved)}
      BY <1>3 DEF Range
    <3>2. \A h : h \in {b.h : b \in Range(t)} <=> \E j \in 1 .. Len(t) : h = t[j].h
      BY <3>1
    <3>3. \A h : h \in {b.h : b \in Range(moved)} <=> \E j \in 1 .. Len(moved) : h = moved[j].h
      BY <3>1
    <3>4. ASSUME NEW h, NEW j \in 1 .. Len(t), h = t[j].h
          PROVE  h = d.h \/ \E m \in 1 .. Len(moved) : h = moved[m].h
      BY <3>4, <2>5
    <3>5. ASSUME NEW h, h = d.h \/ \E m \in 1 .. Len(moved) : h = moved[m].h
          PROVE  \E j \in 1 .. Len(t) : h = t[j].h
      <4>1. CASE h = d.h
        BY <4>1, <2>3, <2>6
      <4>2. ASSUME NEW m \in 1 .. Len(moved), h = moved[m].h PROVE \E j \in 1 .. Len(t) : h = t[j].h
        <5>1. t[m + 1] = moved[m] /\ m + 1 \in 1 .. Len(t)
          BY <2>4
        <5> QED BY <5>1, <4>2
      <4> QED BY <3>5, <4>1, <4>2
    <3> QED BY <3>2, <3>3, <3>4, <3>5
  <2>8. Homeless' = {b.h : b \in Range(t)} /\ Homeless = {b.h : b \in Range(moved)}
    BY <2>6 DEF Homeless
  <2> QED BY <2>6, <2>7, <2>8
<1>6. UNCHANGED (Offset + size)
  OBVIOUS
<1>7. Promise!Displace(x)
  BY <1>1, <1>2, <1>4, <1>5, <1>6 DEF Promise!Displace
<1> QED BY <1>1, <1>7 DEF Promise!Next

\* The placeholder of an NPS candidate is nobody's memory, when it comes and
\* when it goes.
LEMMA PlaceholderComes ==
  ASSUME IInv, NEW b \in BlockType, Adds(b), b.kind = "nps"
  PROVE  Held' = Held
<1>1. \A y : y \in Held <=> \E i \in 1 .. Len(allocs) : allocs[i].kind # "nps" /\ y = View(allocs[i])
  BY HeldIs, ListFacts
<1>2. \A y : y \in Held' <=> \E i \in 1 .. Len(allocs') : allocs'[i].kind # "nps" /\ y = View(allocs'[i])
  <2>1. allocs' \in Seq(BlockType)
    BY DEF Adds
  <2> QED BY <2>1 DEF Held, View, Range
<1>3. ASSUME NEW y \in Held' PROVE y \in Held
  <2>1. PICK j \in 1 .. Len(allocs') : allocs'[j].kind # "nps" /\ y = View(allocs'[j])
    BY <1>2, <1>3
  <2> QED BY <2>1, <1>1 DEF Adds
<1>4. ASSUME NEW y \in Held PROVE y \in Held'
  <2>1. PICK i \in 1 .. Len(allocs) : allocs[i].kind # "nps" /\ y = View(allocs[i])
    BY <1>1, <1>4
  <2>2. PICK j \in 1 .. Len(allocs') : allocs'[j] = allocs[i]
    BY DEF Adds
  <2> QED BY <2>1, <2>2, <1>2
<1> QED BY <1>3, <1>4

LEMMA PlaceholderGoes ==
  ASSUME IInv, NEW k \in 1 .. Len(allocs), Drops(k), allocs[k].kind = "nps"
  PROVE  Held' = Held
<1>1. \A y : y \in Held <=> \E i \in 1 .. Len(allocs) : allocs[i].kind # "nps" /\ y = View(allocs[i])
  BY HeldIs, ListFacts
<1>2. \A y : y \in Held' <=> \E i \in 1 .. Len(allocs') : allocs'[i].kind # "nps" /\ y = View(allocs'[i])
  <2>1. allocs' \in Seq(BlockType)
    BY DEF Drops
  <2> QED BY <2>1 DEF Held, View, Range
<1>3. ASSUME NEW y \in Held' PROVE y \in Held
  <2>1. PICK j \in 1 .. Len(allocs') : allocs'[j].kind # "nps" /\ y = View(allocs'[j])
    BY <1>2, <1>3
  <2>2. PICK i \in 1 .. Len(allocs) : allocs'[j] = allocs[i]
    BY <2>1 DEF Drops
  <2> QED BY <2>1, <2>2, <1>1
<1>4. ASSUME NEW y \in Held PROVE y \in Held'
  <2>1. PICK i \in 1 .. Len(allocs) : allocs[i].kind # "nps" /\ y = View(allocs[i])
    BY <1>1, <1>4
  <2>2. PICK j \in 1 .. Len(allocs') : allocs'[j] = allocs[i]
    BY <2>1 DEF Drops
  <2> QED BY <2>1, <2>2, <1>2
<1> QED BY <1>3, <1>4

\* What the callers see stays.
LEMMA QuietImplements ==
  ASSUME UNCHANGED <<size, bps, moved, Status>>, UNCHANGED allocs \/ Held' = Held
  PROVE  UNCHANGED Promise!vars
<1>1. Held' = Held
  BY DEF Held, Start
<1>2. UNCHANGED <<Reported, Homeless>> /\ UNCHANGED (Offset + size)
  BY DEF Reported, Homeless
<1> QED BY <1>1, <1>2 DEF Promise!vars

\* The manager stops for good.
LEMMA FailImplements ==
  ASSUME UNCHANGED <<size, bps, allocs>>, phase \notin {"ready", "dead"}, phase' = "dead", moved' = <<>>
  PROVE  Promise!Next
<1>1. Held' = Held
  BY DEF Held, Start
<1>2. Homeless' = {}
  BY DEF Homeless, Range
<1>3. Status = "closed" /\ Status' = "failed" /\ UNCHANGED Reported /\ UNCHANGED (Offset + size)
  BY DEF Status, Reported
<1>4. Promise!Fail
  BY <1>1, <1>2, <1>3 DEF Promise!Fail
<1> QED BY <1>4 DEF Promise!Next

\* The manager is there for its callers again.
LEMMA OpenImplements ==
  ASSUME UNCHANGED <<size, bps, allocs, moved>>, phase \notin {"ready", "dead"}, phase' = "ready", moved = <<>>
  PROVE  Promise!Next
<1>1. Held' = Held
  BY DEF Held, Start
<1>2. Homeless = {} /\ UNCHANGED Homeless
  BY DEF Homeless, Range
<1>3. Status = "closed" /\ Status' = "open" /\ UNCHANGED Reported /\ UNCHANGED (Offset + size)
  BY DEF Status, Reported
<1>4. Promise!Open
  BY <1>1, <1>2, <1>3 DEF Promise!Open
<1> QED BY <1>4 DEF Promise!Next

\* A page of the region is reserved, or cannot be.
LEMMA RetireImplements ==
  ASSUME IInv, NEW p \in Pages, InRegion(p), ReserveAt(p), phase # "dead",
         UNCHANGED <<down, size, moved, phase>>, Reported \subseteq Reported'
  PROVE  Promise!Next \/ UNCHANGED allocs
<1>1. ASSUME NEW b \in BlockType, b.kind = "bad", Adds(b),
             Offset <= Start(b), Start(b) < b.end, b.end <= Offset + size
      PROVE  Promise!Next
  BY <1>1, PageImplements
<1> QED BY <1>1, PageReserved

\* A page goes on record, and nothing else is seen to change.
LEMMA ReportImplements ==
  ASSUME UNCHANGED <<allocs, size, moved, phase>>, phase = "ready", Reported \subseteq Reported'
  PROVE  Promise!Next
<1>1. Held' = Held
  BY DEF Held, Start
<1>2. Status = "open" /\ UNCHANGED <<Status, Homeless>> /\ UNCHANGED (Offset + size)
  BY DEF Status, Homeless
<1>3. Promise!Report
  BY <1>1, <1>2 DEF Promise!Report
<1> QED BY <1>3 DEF Promise!Next

LEMMA ReportedGrows ==
  ASSUME bps \in Seq(Pages), NEW p \in Pages, bps' = Append(bps, p)
  PROVE  Reported \subseteq Reported'
<1>1. Len(bps) \in Nat /\ Len(bps') = Len(bps) + 1 /\ \A i \in 1 .. Len(bps) : bps'[i] = bps[i]
  OBVIOUS
<1>2. DOMAIN bps = 1 .. Len(bps) /\ DOMAIN bps' = 1 .. Len(bps')
  OBVIOUS
<1>3. Range(bps) \subseteq Range(bps')
  BY <1>1, <1>2 DEF Range
<1> QED BY <1>3 DEF Reported

\* A block is given a place: an early wish, or one that was moved out.
LEMMA DeferredImplements ==
  ASSUME IInv, phase = "defer", UNCHANGED <<down, size, bps, moved, phase>>, reserves # <<>>,
         PlaceBlock("mem", Head(reserves).h, Head(reserves).len, Head(reserves).al)
  PROVE  Promise!Next
<1>1. reserves \in Seq(BlockType) /\ Waiting(reserves) /\ moved = <<>>
  BY ListFacts DEF IInv, Phases
<1>2. Homeless = {} /\ Homeless' = {}
  BY <1>1 DEF Homeless, Range
<1>3. PICK b \in BlockType :
        /\ b.kind = "mem" /\ b.h \in Client /\ Adds(b)
        /\ \A i \in 1 .. Len(allocs) : ~Same(allocs[i], b)
        /\ Offset <= Start(b) /\ b.end <= Offset + size /\ Start(b) < b.end
  BY <1>1, HeadPlaced
<1> QED BY <1>2, <1>3, GrantImplements

LEMMA RehomeImplements ==
  ASSUME IInv, phase = "rehome", UNCHANGED <<down, size, bps, phase>>, moved # <<>>, moved' = Tail(moved),
         PlaceBlock("mem", Head(moved).h, Head(moved).len, Head(moved).al)
  PROVE  Promise!Next
<1>1. moved \in Seq(BlockType) /\ Waiting(moved)
  BY ListFacts DEF IInv
<1>2. PICK b \in BlockType :
        /\ b.kind = "mem" /\ b.h \in Client /\ b.h = Head(moved).h /\ Adds(b)
        /\ \A i \in 1 .. Len(allocs) : ~Same(allocs[i], b)
        /\ Offset <= Start(b) /\ b.end <= Offset + size /\ Start(b) < b.end
  BY <1>1, HeadPlaced
<1>3. PICK t \in Seq(BlockType) : t = Tail(moved) /\ Len(t) = Len(moved) - 1
  BY <1>1, TailFacts
<1>4. /\ Head(moved) = moved[1] /\ 1 \in 1 .. Len(moved) /\ Len(moved) \in Nat
      /\ \A i \in 1 .. Len(moved) - 1 : t[i] = moved[i + 1] /\ i + 1 \in 1 .. Len(moved)
  BY <1>1, <1>3, TailFacts
<1>5. \A i, j \in 1 .. Len(moved) : moved[i].h = moved[j].h => i = j
  BY <1>1 DEF Waiting, OneEach, Same
<1>6. \A h : h \in Homeless <=> \E i \in 1 .. Len(moved) : h = moved[i].h
  BY <1>1 DEF Homeless, Range
<1>7. \A h : h \in Homeless' <=> \E i \in 1 .. Len(t) : h = t[i].h
  <2>1. moved' = t /\ t \in Seq(BlockType)
    BY <1>3
  <2> QED BY <2>1 DEF Homeless, Range
<1>8. b.h \in Homeless
  BY <1>2, <1>4, <1>6
<1>9. ASSUME NEW h \in Homeless' PROVE h \in Homeless /\ h # b.h
  <2>1. PICK i \in 1 .. Len(t) : h = t[i].h
    BY <1>7, <1>9
  <2>2. h = moved[i + 1].h /\ i + 1 \in 1 .. Len(moved) /\ i + 1 # 1
    BY <2>1, <1>3, <1>4
  <2>3. moved[i + 1].h # moved[1].h
    BY <2>2, <1>4, <1>5
  <2> QED BY <2>2, <2>3, <1>2, <1>4, <1>6
<1>10. ASSUME NEW h \in Homeless, h # b.h PROVE h \in Homeless'
  <2>1. PICK i \in 1 .. Len(moved) : h = moved[i].h
    BY <1>6
  <2>2. i # 1
    BY <2>1, <1>2, <1>4, <1>10
  <2>3. i - 1 \in 1 .. Len(t) /\ i - 1 \in 1 .. Len(moved) - 1 /\ (i - 1) + 1 = i
    BY <2>2, <1>3, <1>4
  <2>4. t[i - 1] = moved[i]
    BY <2>3, <1>4
  <2> QED BY <2>1, <2>3, <2>4, <1>7
<1>11. Homeless' = Homeless \ {b.h}
  BY <1>9, <1>10
<1> QED BY <1>2, <1>8, <1>11, GrantImplements

LEMMA StepImplements == IInv /\ [Next]_vars => [Promise!Next]_(Promise!vars)
<1> SUFFICES ASSUME IInv, [Next]_vars PROVE Promise!Next \/ UNCHANGED Promise!vars
  OBVIOUS
<1>0. bps \in Seq(Pages) /\ DOMAIN bps = 1 .. Len(bps) /\ allocs \in Seq(BlockType)
  BY ListFacts DEF IInv, TypeOK
<1>1. ASSUME NEW c \in Client, Alloc(c) PROVE Promise!Next
  <2>1. PICK r \in Asked : PlaceBlock("mem", c, r.len, r.align)
    BY <1>1 DEF Alloc
  <2>2. /\ Wanted(r.len, r.align) /\ phase = "ready" /\ moved = <<>>
        /\ UNCHANGED <<down, size, bps, moved, phase>>
    BY <1>1, AskedFacts DEF Alloc, config, ecc, job, IInv, Phases
  <2>3. \A i \in 1 .. Len(allocs) : ~(allocs[i].kind = "mem" /\ allocs[i].h = c)
    BY <1>1, NoBlock DEF Alloc
  <2>4. PICK b \in BlockType :
          /\ b.kind = "mem" /\ b.h = c /\ Adds(b)
          /\ Offset <= Start(b) /\ b.end <= Offset + size /\ Start(b) < b.end
    BY <2>1, <2>2, <2>3, MemPlaced
  <2>5. \A i \in 1 .. Len(allocs) : ~Same(allocs[i], b)
    BY <2>3, <2>4 DEF Same
  <2>6. Homeless = {} /\ Homeless' = {}
    BY <2>2 DEF Homeless, Range
  <2> QED BY <2>2, <2>4, <2>5, <2>6, GrantImplements
<1>2. ASSUME NEW c \in Client, AllocEarly(c) \/ FreeEarly(c) PROVE UNCHANGED Promise!vars
  <2>1. UNCHANGED <<size, bps, moved, allocs, phase>>
    BY <1>2 DEF AllocEarly, FreeEarly, list, ecc
  <2> QED BY <2>1, QuietImplements DEF Status
<1>3. ASSUME NEW c \in Client, Free(c) PROVE Promise!Next
  <2>1. PICK k \in 1 .. Len(allocs) : allocs[k].kind = "mem" /\ Unlink(k)
    BY <1>3 DEF Free
  <2>2. Drops(k) /\ phase = "ready" /\ UNCHANGED <<size, bps, moved, phase>>
    BY <2>1, <1>3, Unlinked DEF Free, ecc, job
  <2> QED BY <2>1, <2>2, FreeImplements
<1>4. CASE SetSize
  <2>1. /\ size' \in Sizes /\ size' >= tom /\ phase = "ready"
        /\ UNCHANGED <<down, tom, allocs, bps, moved, phase>>
    BY <1>4 DEF SetSize, config, ecc, job
  <2>2. Bounded' /\ Offset \in Nat /\ size' \in Nat
    <3>1. IInv'
      BY <1>4, SetSizeStep
    <3> QED BY <3>1, <2>1, SizeAssumption DEF IInv, ListOk
  <2>3. Held' = Held
    BY <2>1 DEF Held, Start
  <2>4. ASSUME NEW y \in Held PROVE y.hi <= Offset + size'
    <3>1. PICK i \in 1 .. Len(allocs) : y = View(allocs[i])
      BY <2>4, HeldIs, ListFacts
    <3>2. y.hi = allocs[i].end
      BY <3>1 DEF View
    <3> QED BY <3>2, <2>1, <2>2 DEF Bounded
  <2>5. Status = "open" /\ UNCHANGED <<Status, Reported, Homeless>>
    BY <2>1 DEF Status, Reported, Homeless
  <2>6. Promise!Resize
    <3>0. Offset + size' \in Nat
      <4>1. PICK z \in Nat : z = size'
        BY <2>2
      <4>2. Offset + z \in Nat
        BY SizeAssumption
      <4> QED BY <4>1, <4>2
    <3>1. (Offset + size)' \in Nat
      BY <3>0
    <3>2. \A y \in Held : y.hi <= (Offset + size)'
      BY <2>4
    <3> HIDE DEF Held, Status, Reported, Homeless
    <3> QED BY <3>1, <3>2, <2>3, <2>5, Zenon DEF Promise!Resize
  <2> QED BY <2>6 DEF Promise!Next
<1>5. CASE HwInit
  <2>1. /\ phase = "early" /\ phase' \in {"defer", "nps", "dead"} /\ moved = <<>>
        /\ UNCHANGED <<size, bps, moved, allocs>>
    BY <1>5 DEF HwInit, list, ecc, IInv, Phases
  <2>2. CASE phase' = "dead"
    BY <2>1, <2>2, FailImplements
  <2>3. CASE phase' # "dead"
    BY <2>1, <2>3, QuietImplements DEF Status
  <2> QED BY <2>2, <2>3
<1>6. CASE Candidate
  <2>1. /\ UNCHANGED <<size, bps, moved>> /\ phase = "nps" /\ moved = <<>>
        /\ phase' \in {"nps", "defer", "dead"}
    BY <1>6 DEF Candidate, ecc, IInv, Phases
  <2>2. CASE UNCHANGED allocs
    <3>1. CASE phase' = "dead"
      BY <2>1, <2>2, <3>1, FailImplements
    <3>2. CASE phase' # "dead"
      BY <2>1, <2>2, <3>2, QuietImplements DEF Status
    <3> QED BY <3>1, <3>2
  <2>3. CASE /\ PlaceAt("nps", Head(todo), Head(todo)) /\ todo # <<>>
             /\ ~BelowRegion(Head(todo)) /\ UNCHANGED phase
    <3>1. todo \in Seq(Pages)
      BY <1>6 DEF IInv, Phases, Candidate
    <3>2. PICK p \in Pages : p = Head(todo)
      BY <3>1, <2>3, TailFacts
    <3>3. p \in Nat /\ PageLen \in Nat /\ Offset \in Nat /\ Align(p, PageLen) = p
      BY PageFacts, SizeAssumption
    <3>4. Offset <= Align(p, PageLen) + PageLen /\ PlaceAt("nps", p, p)
      BY <3>2, <3>3, <2>3 DEF BelowRegion
    <3> DEFINE b == Block("nps", p, Align(p, PageLen) + PageLen, PageLen, PageLen)
    <3>5. b \in BlockType /\ Adds(b)
      BY <3>3, <3>4, PagePlaced
    <3>6. b.kind = "nps"
      BY DEF Block
    <3> HIDE DEF b
    <3>7. Held' = Held
      BY <3>5, <3>6, PlaceholderComes
    <3>8. UNCHANGED Status
      BY <2>3 DEF Status
    <3> QED BY <3>7, <3>8, <2>1, QuietImplements
  <2> QED BY <2>2, <2>3, <1>6 DEF Candidate
<1>7. CASE Deferred
  <2>1. /\ UNCHANGED <<down, size, bps, moved>> /\ phase = "defer" /\ moved = <<>>
        /\ phase' \in {"defer", "clean", "dead"}
    BY <1>7 DEF Deferred, config, ecc, IInv, Phases
  <2>2. CASE UNCHANGED allocs
    <3>1. CASE phase' = "dead"
      BY <2>1, <2>2, <3>1, FailImplements
    <3>2. CASE phase' # "dead"
      BY <2>1, <2>2, <3>2, QuietImplements DEF Status
    <3> QED BY <3>1, <3>2
  <2>3. CASE /\ reserves # <<>> /\ UNCHANGED phase
             /\ PlaceBlock("mem", Head(reserves).h, Head(reserves).len, Head(reserves).al)
    BY <2>1, <2>3, DeferredImplements
  <2> QED BY <2>2, <2>3, <1>7 DEF Deferred
<1>8. CASE FreeCandidates
  <2> DEFINE left == {i \in 1 .. Len(allocs) : allocs[i].kind = "nps"}
  <2>1. UNCHANGED <<size, bps, moved>> /\ phase = "clean" /\ moved = <<>>
    BY <1>8 DEF FreeCandidates, ecc, IInv, Phases
  <2>2. CASE UNCHANGED allocs /\ phase' = "ready"
    BY <2>1, <2>2, OpenImplements
  <2>3. CASE left # {} /\ Unlink(Min(left)) /\ UNCHANGED phase
    <3>1. Min(left) \in left
      <4>1. left \subseteq Nat
        OBVIOUS
      <4> HIDE DEF left
      <4> QED BY <4>1, <2>3, MinFacts
    <3>2. PICK k \in 1 .. Len(allocs) : allocs[k].kind = "nps" /\ Unlink(k)
      BY <3>1, <2>3
    <3>3. Held' = Held
      BY <3>2, Unlinked, PlaceholderGoes
    <3>4. UNCHANGED Status
      BY <2>3 DEF Status
    <3> QED BY <2>1, <3>3, <3>4, QuietImplements
  <2> QED BY <2>2, <2>3, <1>8 DEF FreeCandidates
<1>9. ASSUME NEW p \in Pages, Record(p) PROVE Promise!Next
  <2>1. UNCHANGED <<allocs, size, moved, phase>> /\ phase = "ready" /\ bps' = Append(bps, p)
    BY <1>9 DEF Record, list, job
  <2> QED BY <2>1, <1>0, ReportedGrows, ReportImplements
<1>10. ASSUME NEW p \in Pages, ReservePage(p) PROVE Promise!Next
  <2>1. /\ UNCHANGED <<down, size, moved, phase>> /\ phase = "ready" /\ bps' = Append(bps, p)
        /\ InRegion(p) /\ ReserveAt(p)
    BY <1>10 DEF ReservePage, config, job
  <2>2. Reported \subseteq Reported'
    BY <2>1, <1>0, ReportedGrows
  <2>3. CASE UNCHANGED allocs
    BY <2>1, <2>2, <2>3, ReportImplements
  <2> QED BY <2>1, <2>2, <2>3, RetireImplements
<1>11. CASE Reserve
  <2>1. /\ UNCHANGED <<down, size, bps, moved, phase>> /\ phase = "ready"
        /\ lastReserved < Len(bps)
    BY <1>11 DEF Reserve, config, job
  <2>2. lastReserved + 1 \in 1 .. Len(bps)
    BY <2>1 DEF IInv, TypeOK
  <2>3. PICK p \in Pages : p = bps[lastReserved + 1]
    BY <2>2, <1>0
  <2>4. Reported \subseteq Reported'
    BY <2>1 DEF Reported
  <2>5. CASE UNCHANGED allocs
    BY <2>1, <2>5, QuietImplements DEF Status
  <2>6. CASE InRegion(p) /\ ReserveAt(p)
    BY <2>1, <2>4, <2>5, <2>6, RetireImplements
  <2> QED BY <2>3, <2>5, <2>6, <1>11 DEF Reserve
<1>12. CASE Replace
  <2>1. /\ UNCHANGED <<size, bps, moved, allocs>> /\ phase = "ready" /\ phase' = "replace"
    BY <1>12 DEF Replace, list, ecc
  <2>2. /\ Held' = Held /\ UNCHANGED <<Reported, Homeless>> /\ UNCHANGED (Offset + size)
        /\ Status = "open" /\ Status' = "closed"
    BY <2>1 DEF Held, Start, Reported, Homeless, Status
  <2>3. Promise!Close
    BY <2>2 DEF Promise!Close
  <2> QED BY <2>3 DEF Promise!Next
<1>13. CASE ReplacePage
  <2> DEFINE hit(q) == {j \in 1 .. Len(allocs) : OverlapsPage(allocs[j], q)}
  <2>1. UNCHANGED <<down, size, bps, phase>> /\ phase = "replace" /\ todo # <<>> /\ ~down
    BY <1>13 DEF ReplacePage, config, IInv, Phases
  <2>2. PICK i \in 1 .. Len(bps) : i = Head(todo) /\ bps[i] \in Pages
    <3>1. todo \in Seq(Nat) /\ \A j \in 1 .. Len(todo) : todo[j] \in 1 .. Len(bps)
      BY <2>1 DEF IInv, TypeOK, Phases
    <3>2. Head(todo) = todo[1] /\ 1 \in 1 .. Len(todo)
      BY <3>1, <2>1, TailFacts
    <3> QED BY <3>1, <3>2, <1>0
  <2>3. PICK p \in Pages : p = bps[i]
    BY <2>2
  <2>4. CASE UNCHANGED <<allocs, moved>>
    BY <2>1, <2>4, QuietImplements DEF Status
  <2>5. CASE hit(p) # {} /\ allocs[Min(hit(p))].kind # "bad" /\ MoveOut(Min(hit(p)))
    <3>1. Min(hit(p)) \in hit(p)
      <4>1. hit(p) \subseteq Nat
        OBVIOUS
      <4> HIDE DEF hit
      <4> QED BY <4>1, <2>5, MinFacts
    <3>2. PICK k \in 1 .. Len(allocs) : k = Min(hit(p)) /\ OverlapsPage(allocs[k], p)
      BY <3>1
    <3> HIDE DEF hit
    <3>3. allocs[k].kind # "bad" /\ MoveOut(k)
      BY <3>2, <2>5
    <3>4. allocs[k].kind = "mem"
      <4>1. allocs[k].kind \in {"mem", "bad", "nps"}
        BY ListFacts, BlockFacts
      <4> QED BY <4>1, <3>3, <2>1 DEF IInv, Phases
    <3>5. Drops(k) /\ moved' = Cons(allocs[k], moved)
      BY <3>3, Removed DEF MoveOut
    <3>6. OverlapsPage(allocs[k], bps[i])
      BY <3>2, <2>3
    <3> QED BY <3>4, <3>5, <3>6, <2>1, MoveOutImplements
  <2>6. CASE WholeInRegion(p) /\ ReserveAt(p) /\ UNCHANGED moved
    <3>1. Offset \in Nat /\ size \in Nat /\ p \in Nat /\ PageLen \in Nat \ {0}
      BY ListFacts, PageFacts
    <3>2. InRegion(p)
      BY <3>1, <2>1, <2>6 DEF WholeInRegion, InRegion, PageAt
    <3>3. Reported \subseteq Reported'
      BY <2>1 DEF Reported
    <3> QED BY <3>2, <3>3, <2>1, <2>4, <2>6, RetireImplements
  <2>7. p = bps[Head(todo)]
    BY <2>2, <2>3
  <2> QED BY <2>7, <2>4, <2>5, <2>6, <1>13 DEF ReplacePage
<1>14. CASE Replaced
  <2>1. UNCHANGED <<size, bps, moved, allocs>> /\ phase = "replace" /\ phase' = "rehome"
    BY <1>14 DEF Replaced, list, ecc
  <2> QED BY <2>1, QuietImplements DEF Status
<1>15. CASE Rehome
  <2>1. UNCHANGED <<down, size, bps>> /\ phase = "rehome"
    BY <1>15 DEF Rehome, config, ecc
  <2>2. CASE moved = <<>> /\ phase' = "ready" /\ UNCHANGED <<allocs, moved>>
    BY <2>1, <2>2, OpenImplements
  <2>3. CASE phase' = "dead" /\ moved' = <<>> /\ UNCHANGED allocs
    BY <2>1, <2>3, FailImplements
  <2>4. CASE /\ moved # <<>> /\ moved' = Tail(moved) /\ UNCHANGED phase
             /\ PlaceBlock("mem", Head(moved).h, Head(moved).len, Head(moved).al)
    BY <2>1, <2>4, RehomeImplements
  <2> QED BY <2>2, <2>3, <2>4, <1>15 DEF Rehome
<1>16. CASE UNCHANGED vars
  <2>1. UNCHANGED <<size, bps, moved, allocs, phase>>
    BY <1>16 DEF vars, list, ecc, job
  <2> QED BY <2>1, QuietImplements DEF Status
<1> QED BY <1>1, <1>2, <1>3, <1>4, <1>5, <1>6, <1>7, <1>8, <1>9, <1>10, <1>11, <1>12, <1>13, <1>14,
           <1>15, <1>16 DEF Next

\* The memory manager, with its list, its searches, its limit and its exchange
\* of blocks on bad pages, hands out each address once, only in its region, and
\* takes memory away only from who frees it or sits on a page on record, who
\* has other memory when the reset is over.
THEOREM ManagerImplements == Spec => Implements
<1>1. Init => Promise!Init
  <2> SUFFICES ASSUME Init PROVE Promise!Init
    OBVIOUS
  <2>1. Held = {} /\ Reported = {} /\ Homeless = {}
    BY DEF Init, Held, Reported, Homeless, Range
  <2>2. Offset + size \in Nat
    BY SizeAssumption DEF Init
  <2>3. Status \in {"open", "closed"}
    BY DEF Init, Status
  <2> QED BY <2>1, <2>2, <2>3 DEF Promise!Init
<1>2. IInv /\ [Next]_vars => [Promise!Next]_(Promise!vars)
  BY StepImplements
<1> QED BY <1>1, <1>2, InvAlways, PTL DEF Spec, Implements, Promise!Spec

-----------------------------------------------------------------------------
(* A reset clears the bad pages.                                           *)

\* While bad pages are replaced: every recorded page is still to be seen to,
\* or has its block, or is not wholly in the region, or the indices ran out.
Seen ==
  phase \in {"replace", "rehome"} =>
    \A i \in 1 .. Len(bps) :
      \/ \E k \in 1 .. Len(todo) : todo[k] = i
      \/ bpsMem[i] # None \/ ~WholeInRegion(bps[i]) \/ used = MaxIndex
Emptied == phase = "rehome" => todo = <<>>

\* Once the indices have run out they stay so.
LEMMA IndexGone ==
  ASSUME IInv, TakeIndex, ~HasIndex \/ used = MaxIndex
  PROVE  used' = MaxIndex
<1> DEFINE S == {used + 1, MaxIndex}
<1>1. used \in 0 .. MaxIndex /\ MaxIndex \in Nat
  BY SizeAssumption DEF IInv, TypeOK
<1>2. used = MaxIndex
  BY <1>1 DEF HasIndex
<1>3. S \subseteq Nat /\ S # {} /\ MaxIndex \in S /\ \A x \in S : x <= MaxIndex => x = MaxIndex
  BY <1>1, <1>2
<1>4. used' = Min(S)
  BY DEF TakeIndex
<1> HIDE DEF S
<1>5. Min(S) \in S /\ \A y \in S : Min(S) <= y
  BY <1>3, MinFacts
<1> QED BY <1>3, <1>4, <1>5

\* A page of the region that no block overlaps can be reserved while there is
\* an index.
LEMMA FreePageFits ==
  ASSUME IInv, ~down, NEW p \in Pages, WholeInRegion(p),
         \A j \in 1 .. Len(allocs) : ~OverlapsPage(allocs[j], p), HasIndex
  PROVE  CanReserve(p)
<1> DEFINE past == {i \in 1 .. Len(allocs) : allocs[i].end > p}
<1>1. p \in Nat /\ PageLen \in Nat \ {0} /\ Align(p, PageLen) = p /\ PageAt(p) = p
  BY PageFacts DEF PageAt
<1>2. FindSizeAt(p, PageLen) = IF past = {} THEN Len(allocs)
                               ELSE IF Start(allocs[Min(past)]) < p + PageLen THEN None ELSE Min(past) - 1
  BY <1>1 DEF FindSizeAt
<1>3. Len(allocs) \in Nat
  BY ListFacts
<1>4. CASE past = {}
  BY <1>1, <1>2, <1>3, <1>4 DEF CanReserve, CanPlaceAt, WholeInRegion, None
<1>5. CASE past # {}
  <2>1. Min(past) \in past
    <3>1. past \subseteq Nat
      BY <1>3
    <3> HIDE DEF past
    <3> QED BY <3>1, <1>5, MinFacts
  <2>2. PICK m \in 1 .. Len(allocs) : m = Min(past) /\ allocs[m].end > p
    BY <2>1
  <2>3. allocs[m].end \in Nat /\ Start(allocs[m]) \in Int /\ ~OverlapsPage(allocs[m], p)
    BY ListFacts
  <2>4. ~(Start(allocs[m]) < p + PageLen)
    BY <2>2, <2>3, <1>1 DEF OverlapsPage, Overlaps
  <2> HIDE DEF past
  <2>5. FindSizeAt(p, PageLen) = m - 1
    BY <2>2, <2>4, <1>2, <1>5
  <2>6. FindSizeAt(p, PageLen) # None
    BY <2>2, <2>5, <1>3 DEF None
  <2> QED BY <2>6, <1>1 DEF CanReserve, CanPlaceAt, WholeInRegion
<1> QED BY <1>4, <1>5

LEMMA ReplacePageSeen ==
  ASSUME IInv, Seen, ReplacePage
  PROVE  Seen'
<1> DEFINE hit(q) == {j \in 1 .. Len(allocs) : OverlapsPage(allocs[j], q)}
<1>1. /\ UNCHANGED <<down, size, bps, phase>> /\ phase = "replace" /\ todo # <<>> /\ ~down
  BY DEF ReplacePage, config, IInv, Phases
<1>2. /\ todo \in Seq(Nat) /\ bps \in Seq(Pages) /\ \A i \in 1 .. Len(todo) : todo[i] \in 1 .. Len(bps)
      /\ bpsMem \in Seq(Pages \union {None}) /\ Len(bpsMem) = Len(bps)
  BY <1>1 DEF IInv, TypeOK, Phases
<1>3. /\ Head(todo) = todo[1] /\ 1 \in 1 .. Len(todo) /\ Len(todo) \in Nat
      /\ Tail(todo) \in Seq(Nat) /\ Len(Tail(todo)) = Len(todo) - 1
  BY <1>1, <1>2, TailFacts
<1>4. \A i \in 1 .. Len(todo) - 1 : Tail(todo)[i] = todo[i + 1]
  BY <1>1, <1>2, TailFacts
<1>5. PICK h \in 1 .. Len(bps) : h = Head(todo)
  BY <1>2, <1>3
<1>6. PICK p \in Pages : p = bps[h]
  BY <1>2, <1>5
<1>7. \A i \in 1 .. Len(bps) :
        \/ \E k \in 1 .. Len(todo) : todo[k] = i
        \/ bpsMem[i] # None \/ ~WholeInRegion(bps[i]) \/ used = MaxIndex
  BY <1>1 DEF Seen
<1>8. CASE UNCHANGED <<todo, used, bpsMem>>
  BY <1>1, <1>7, <1>8 DEF Seen, WholeInRegion
<1>9. ASSUME todo' = Tail(todo),
             bpsMem'[h] # None \/ ~WholeInRegion(p) \/ used' = MaxIndex,
             \A i \in 1 .. Len(bps) : i # h => bpsMem'[i] = bpsMem[i],
             used = MaxIndex => used' = MaxIndex
      PROVE  Seen'
  <2>1. ASSUME NEW i \in 1 .. Len(bps)
        PROVE  \/ \E k \in 1 .. Len(todo') : todo'[k] = i
               \/ bpsMem'[i] # None \/ ~WholeInRegion(bps[i]) \/ used' = MaxIndex
    <3>1. CASE i = h
      BY <3>1, <1>6, <1>9
    <3>2. CASE i # h
      <4>1. ASSUME NEW k \in 1 .. Len(todo), todo[k] = i PROVE \E j \in 1 .. Len(todo') : todo'[j] = i
        <5>1. k # 1
          BY <3>2, <4>1, <1>3, <1>5
        <5>2. k - 1 \in 1 .. Len(todo) - 1 /\ (k - 1) + 1 = k
          BY <5>1, <1>3
        <5>3. todo'[k - 1] = todo[k]
          BY <5>2, <1>4, <1>9
        <5> QED BY <4>1, <5>2, <5>3, <1>3, <1>9
      <4> QED BY <3>2, <4>1, <1>7, <1>9
    <3> QED BY <3>1, <3>2
  <2> QED BY <2>1, <1>1 DEF Seen, WholeInRegion
<1>10. CASE /\ bpsMem[h] # None \/ ~WholeInRegion(p)
            /\ todo' = Tail(todo) /\ UNCHANGED <<used, bpsMem>>
  BY <1>9, <1>10
<1>11. CASE /\ bpsMem' = [bpsMem EXCEPT ![h] = p] /\ todo' = Tail(todo) /\ UNCHANGED used
  <2>1. p # None
    BY PageFacts DEF None
  <2> QED BY <2>1, <1>2, <1>9, <1>11
<1>12. CASE /\ hit(p) = {} /\ WholeInRegion(p) /\ ReserveAt(p) /\ todo' = Tail(todo)
            /\ bpsMem' = [bpsMem EXCEPT ![h] = IF CanReserve(p) THEN p ELSE None]
  <2>1. p # None
    BY PageFacts DEF None
  <2>2. TakeIndex
    BY <1>12 DEF ReserveAt
  <2>3. used = MaxIndex => used' = MaxIndex
    BY <2>2, IndexGone
  <2>4. CASE CanReserve(p)
    BY <2>1, <2>3, <2>4, <1>2, <1>9, <1>12
  <2>5. CASE ~CanReserve(p)
    <3>1. \A j \in 1 .. Len(allocs) : ~OverlapsPage(allocs[j], p)
      BY <1>12
    <3>2. ~HasIndex
      BY <2>5, <3>1, <1>1, <1>12, FreePageFits
    <3>3. used' = MaxIndex
      BY <2>2, <3>2, IndexGone
    <3> QED BY <2>3, <3>3, <1>2, <1>9, <1>12
  <2> QED BY <2>4, <2>5
<1> QED BY <1>5, <1>6, <1>8, <1>10, <1>11, <1>12 DEF ReplacePage

LEMMA SeenStep == IInv /\ Seen /\ Emptied /\ [Next]_vars => Seen' /\ Emptied'
<1> SUFFICES ASSUME IInv, Seen, Emptied, [Next]_vars PROVE Seen' /\ Emptied'
  OBVIOUS
<1>1. ASSUME phase' \notin {"replace", "rehome"} PROVE Seen' /\ Emptied'
  BY <1>1 DEF Seen, Emptied
<1>2. ASSUME UNCHANGED phase, phase \in {"early", "nps", "defer", "clean", "ready"} PROVE Seen' /\ Emptied'
  BY <1>1, <1>2
<1>3. ASSUME NEW c \in Client, Alloc(c) \/ AllocEarly(c) \/ Free(c) \/ FreeEarly(c)
      PROVE  Seen' /\ Emptied'
  BY <1>2, <1>3 DEF Alloc, AllocEarly, Free, FreeEarly, job
<1>4. CASE SetSize
  BY <1>2, <1>4 DEF SetSize, job
<1>5. CASE HwInit \/ Candidate \/ Deferred \/ FreeCandidates
  BY <1>1, <1>2, <1>5 DEF HwInit, Candidate, Deferred, FreeCandidates
<1>6. ASSUME NEW p \in Pages, Record(p) \/ ReservePage(p) PROVE Seen' /\ Emptied'
  BY <1>2, <1>6 DEF Record, ReservePage, job
<1>12. CASE Reserve
  BY <1>2, <1>12 DEF Reserve, job
<1>7. CASE Replace
  <2>1. /\ phase' = "replace" /\ todo' = [i \in DOMAIN bps |-> i] /\ UNCHANGED bps
    BY <1>7 DEF Replace, ecc
  <2>2. bps \in Seq(Pages) /\ DOMAIN bps = 1 .. Len(bps) /\ Len(bps) \in Nat
    BY DEF IInv, TypeOK
  <2>3. Len(todo') = Len(bps) /\ \A i \in 1 .. Len(bps) : todo'[i] = i
    BY <2>1, <2>2
  <2> QED BY <2>1, <2>3 DEF Seen, Emptied
<1>8. CASE ReplacePage
  BY <1>8, ReplacePageSeen DEF ReplacePage, Emptied
<1>9. CASE Replaced
  BY <1>9 DEF Replaced, Seen, Emptied, WholeInRegion, list, ecc
<1>10. CASE Rehome
  <2>1. UNCHANGED <<size, bps, bpsMem, todo>> /\ phase = "rehome" /\ todo = <<>>
    BY <1>10 DEF Rehome, ecc, Emptied
  <2>2. CASE phase' \notin {"replace", "rehome"}
    BY <1>1, <2>2
  <2>3. CASE UNCHANGED phase /\ TakeIndex
    <3>1. used = MaxIndex => used' = MaxIndex
      BY <2>3, IndexGone
    <3> QED BY <3>1, <2>1, <2>3 DEF Seen, Emptied, WholeInRegion
  <2> QED BY <2>2, <2>3, <1>10 DEF Rehome
<1>11. CASE UNCHANGED vars
  BY <1>11 DEF vars, job, list, ecc, Seen, Emptied, WholeInRegion
<1> QED BY <1>3, <1>4, <1>5, <1>6, <1>7, <1>8, <1>9, <1>10, <1>11, <1>12 DEF Next

\* The region ends with a page, as the sizes the driver computes do.
WholePages == \A s \in Sizes : (Offset + s) % PageLen = 0

\* What the end of a reset finds.
LEMMA ClearedAtEnd ==
  ASSUME WholePages, IInv, Seen, Emptied, [Next]_vars
  PROVE  phase = "rehome" /\ phase' = "ready" /\ used < MaxIndex =>
           \A i \in DOMAIN bps : InRegion(bps[i]) =>
             bpsMem[i] # None /\ \A b \in Range(allocs) : b.kind = "mem" => ~Touches(b, bps[i])
<1> SUFFICES ASSUME phase = "rehome", used < MaxIndex, NEW i \in DOMAIN bps, InRegion(bps[i])
             PROVE  bpsMem[i] # None /\ \A b \in Range(allocs) : b.kind = "mem" => ~Touches(b, bps[i])
  OBVIOUS
<1>1. bps \in Seq(Pages) /\ i \in 1 .. Len(bps) /\ ~down /\ todo = <<>> /\ used \in Nat /\ MaxIndex \in Nat
  BY SizeAssumption DEF IInv, TypeOK, Phases, Emptied
<1>2. PICK p \in Pages : p = bps[i]
  BY <1>1
<1>3. WholeInRegion(p)
  <2>1. /\ p \in Nat /\ PageLen \in Nat \ {0} /\ Offset \in Nat /\ size \in Nat /\ size \in Sizes
        /\ p % PageLen = 0
    BY PageFacts, ListFacts DEF IInv, TypeOK
  <2>2. (Offset + size) % PageLen = 0 /\ Offset + size \in Nat
    BY <2>1 DEF WholePages
  <2>3. Offset <= p /\ p < Offset + size
    BY <1>1, <1>2 DEF InRegion, PageAt
  <2>4. p + PageLen <= Offset + size
    BY <2>1, <2>2, <2>3, MultiplesApart
  <2> QED BY <2>3, <2>4 DEF WholeInRegion
<1>4. bpsMem[i] # None
  <2>1. \/ \E k \in 1 .. Len(todo) : todo[k] = i
        \/ bpsMem[i] # None \/ ~WholeInRegion(bps[i]) \/ used = MaxIndex
    BY <1>1 DEF Seen
  <2>2. Len(todo) = 0
    BY <1>1
  <2> QED BY <2>1, <2>2, <1>1, <1>2, <1>3
<1>5. PICK j \in 1 .. Len(allocs) :
        allocs[j].kind = "bad" /\ allocs[j].len = PageLen /\ Start(allocs[j]) = p
  BY <1>1, <1>2, <1>4 DEF IInv, Kept, Marked
<1>6. ASSUME NEW m \in 1 .. Len(allocs), allocs[m].kind = "mem" PROVE ~Touches(allocs[m], p)
  <2>1. m # j
    BY <1>5, <1>6
  <2>2. (m < j => allocs[m].end <= Start(allocs[j])) /\ (j < m => allocs[j].end <= Start(allocs[m]))
    BY DEF IInv, ListOk, Sorted
  <2>3. /\ allocs[m].end \in Nat /\ Start(allocs[m]) \in Int /\ p \in Nat /\ PageLen \in Nat
        /\ allocs[j].end = p + PageLen
    BY <1>5, ListFacts, BlockFacts, PageFacts
  <2> QED BY <2>1, <2>2, <2>3, <1>5 DEF Touches, Overlaps
<1>7. DOMAIN allocs = 1 .. Len(allocs)
  BY ListFacts
<1> QED BY <1>2, <1>4, <1>6, <1>7 DEF Range

\* After a reset that succeeds every recorded bad page in the region is
\* reserved and no client's block lies on it, unless the indices for bad pages
\* ran out (amdgv_umc_replace_bad_pages).
THEOREM PagesReplaced == ASSUME WholePages PROVE Spec => ReplaceClears
<1>1. Init => Seen /\ Emptied
  BY DEF Init, Seen, Emptied
<1>2. IInv /\ Seen /\ Emptied /\ [Next]_vars => Seen' /\ Emptied'
  BY SeenStep
<1>3. IInv /\ Seen /\ Emptied /\ [Next]_vars =>
        [phase = "rehome" /\ phase' = "ready" /\ used < MaxIndex =>
           \A i \in DOMAIN bps : InRegion(bps[i]) =>
             bpsMem[i] # None /\ \A b \in Range(allocs) : b.kind = "mem" => ~Touches(b, bps[i])]_vars
  BY ClearedAtEnd
<1> QED BY <1>1, <1>2, <1>3, InvAlways, PTL DEF Spec, ReplaceClears
=============================================================================
