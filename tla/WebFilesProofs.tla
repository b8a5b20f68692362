---------------------------- MODULE WebFilesProofs ----------------------------
(* What a crash may take from the web build's database (WebFiles): the     *)
(* files on the disk are the files in memory as they were at an earlier    *)
(* moment, for every set of files, every length and every number of calls. *)
(*                                                                         *)
(* All that waits is a line of items: those of the running transaction,    *)
(* then the queue.  Each item gives its file a length and some cells their *)
(* values (Leaves, Decides, Shown); LineFor says of a line and a file what *)
(* the file is when the line has run.  The invariant (Good) says that the  *)
(* whole line makes of the object store the files as memory has them, and  *)
(* that what is left of the running transaction makes of it the files as   *)
(* they were when the transaction started.  So a coalesced queue has to do *)
(* what the calls did, and the views of arrays must go on showing what     *)
(* they showed.  From it follows that no item fails and that a commit      *)
(* leaves an earlier moment of the memory on the disk.                     *)
EXTENDS WebFiles, FiniteSetTheorems, WellFoundedInduction, TLAPS

-----------------------------------------------------------------------------
(* Sequences without some of their items.                                  *)

\* A set of natural numbers has a least element.
LEMMA Least ==
  ASSUME NEW T, T \subseteq Nat, T # {}
  PROVE  \E m \in T : \A k \in T : m <= k
<1> DEFINE Less == {ss \in Nat \X Nat : ss[1] < ss[2]}
<1>1. IsWellFoundedOn(Less, Nat)
  BY NatLessThanWellFounded DEF OpToRel
<1> HIDE DEF Less
<1>2. PICK x \in T : \A y \in T : ~(<<y, x>> \in Less)
  BY <1>1, WFMin
<1>3. x \in Nat /\ \A y \in T : y \in Nat /\ ~(y < x)
  BY <1>2 DEF Less
<1> QED
  BY <1>3

\* A bounded one has a greatest element.
LEMMA Greatest ==
  ASSUME NEW n \in Nat, NEW T, T \subseteq 0 .. n, T # {}
  PROVE  Max(T) \in T /\ \A k \in T : k <= Max(T)
<1> DEFINE U == {m \in Nat : \A k \in T : k <= m}
<1>1. n \in U /\ U \subseteq Nat
  OBVIOUS
<1>2. PICK m \in U : \A k \in U : m <= k
  BY <1>1, Least
<1>3. m \in T
  <2>1. CASE m = 0
    <3>1. PICK k \in T : TRUE
      OBVIOUS
    <3>2. k \in Nat /\ k <= m
      BY <1>2
    <3> QED
      BY <2>1, <3>1, <3>2
  <2>2. CASE m # 0 /\ m \notin T
    <3>1. m - 1 \in U
      BY <1>2, <2>2
    <3> QED
      BY <3>1, <1>2
  <2> QED
    BY <2>1, <2>2
<1>4. \A y \in T : m >= y
  BY <1>2
<1>5. \E x \in T : \A y \in T : x >= y
  BY <1>3, <1>4
<1>6. Max(T) \in T /\ \A y \in T : Max(T) >= y
  BY <1>5 DEF Max
<1> QED
  BY <1>6

LEMMA LastOfIs ==
  ASSUME NEW n \in Nat, NEW T, T \subseteq 1 .. n
  PROVE  /\ LastOf(T) \in 0 .. n
         /\ LastOf(T) = 0 <=> T = {}
         /\ LastOf(T) # 0 => LastOf(T) \in T
         /\ \A k \in T : k <= LastOf(T)
<1>1. T \cup {0} \subseteq 0 .. n /\ T \cup {0} # {}
  OBVIOUS
<1>2. LastOf(T) \in T \cup {0} /\ \A k \in T \cup {0} : k <= LastOf(T)
  BY <1>1, Greatest DEF LastOf
<1>3. \A k \in T : k \in Nat /\ k >= 1
  OBVIOUS
<1>4. LastOf(T) = 0 <=> T = {}
  <2>1. ASSUME NEW k \in T PROVE LastOf(T) # 0
    <3>1. k <= LastOf(T) /\ k \in Nat /\ k >= 1
      BY <1>2, <1>3
    <3> QED
      BY <3>1
  <2>2. T = {} => LastOf(T) = 0
    BY <1>2
  <2> QED
    BY <2>1, <2>2
<1>5. LastOf(T) \in 0 .. n
  BY <1>1, <1>2
<1> QED
  BY <1>2, <1>4, <1>5

\* r is a part of q: its items stand at the places g in q.
Picks(r, q, g) ==
    /\ g \in [1 .. Len(r) -> 1 .. Len(q)]
    /\ \A k, l \in 1 .. Len(r) : k < l => g[k] < g[l]
    /\ \A k \in 1 .. Len(r) : r[k] = q[g[k]]

KeptStep(q, f, kept, n) ==
    IF n = 0 THEN <<>>
    ELSE IF q[n].file = f THEN kept[n - 1] ELSE Append(kept[n - 1], q[n])

LEMMA KeptExists ==
  ASSUME NEW q, NEW f, NEW n \in Nat
  PROVE  \E kept : kept = [k \in 0 .. n |-> KeptStep(q, f, kept, k)]
<1> DEFINE Has(m) == \E kept : kept = [k \in 0 .. m |-> KeptStep(q, f, kept, k)]
           T == {m \in Nat : ~Has(m)}
<1>1. SUFFICES ASSUME T # {} PROVE FALSE
  OBVIOUS
<1>2. PICK m \in T : \A k \in T : m <= k
  <2> HIDE DEF Has
  <2> QED
  BY <1>1, Least
<1>3. Has(0)
  <2> DEFINE a == [k \in 0 .. 0 |-> <<>>]
  <2>1. a = [k \in 0 .. 0 |-> KeptStep(q, f, a, k)]
    BY DEF KeptStep
  <2> QED
    BY <2>1
<1>4. m \in Nat \ {0} /\ Has(m - 1)
  <2> HIDE DEF Has
  <2> QED
    BY <1>2, <1>3
<1>5. PICK a : a = [k \in 0 .. m - 1 |-> KeptStep(q, f, a, k)]
  BY <1>4
<1> DEFINE b == [k \in 0 .. m |-> IF k = m THEN KeptStep(q, f, a, m) ELSE a[k]]
<1>6. \A k \in 0 .. m : b[k] = KeptStep(q, f, b, k)
  <2>1. SUFFICES ASSUME NEW k \in 0 .. m PROVE b[k] = KeptStep(q, f, b, k)
    OBVIOUS
  <2>2. k # 0 => b[k - 1] = a[k - 1]
    BY <1>4
  <2>3. k # m => b[k] = KeptStep(q, f, a, k)
    BY <1>4, <1>5
  <2>4. k = m => b[k] = KeptStep(q, f, a, k)
    BY <1>4
  <2>5. KeptStep(q, f, a, k) = KeptStep(q, f, b, k)
    BY <2>2 DEF KeptStep
  <2> QED
    BY <2>3, <2>4, <2>5
<1>7. b = [k \in 0 .. m |-> KeptStep(q, f, b, k)]
  BY <1>6
<1> QED
  BY <1>2, <1>7

LEMMA WithoutIs ==
  ASSUME NEW S, NEW q \in Seq(S), NEW f
  PROVE  \E kept \in [0 .. Len(q) -> Seq(S)] :
            /\ Without(q, f) = kept[Len(q)]
            /\ \A n \in 0 .. Len(q) : kept[n] = KeptStep(q, f, kept, n)
<1> DEFINE Is(kept) == kept = [n \in 0 .. Len(q) |->
                 IF n = 0 THEN <<>>
                 ELSE IF q[n].file = f THEN kept[n - 1] ELSE Append(kept[n - 1], q[n])]
           F == CHOOSE kept : Is(kept)
<1>1. Without(q, f) = F[Len(q)]
  BY DEF Without
<1>2. Is(F)
  <2>1. Len(q) \in Nat
    OBVIOUS
  <2>2. \E kept : Is(kept)
    <3>1. PICK a : a = [n \in 0 .. Len(q) |-> KeptStep(q, f, a, n)]
      BY KeptExists, <2>1
    <3>2. Is(a)
      BY <3>1 DEF KeptStep
    <3> QED
      BY <3>2
  <2> HIDE DEF Is
  <2> QED
    BY <2>2
<1> HIDE DEF F
<1>3. \A n \in 0 .. Len(q) : F[n] = KeptStep(q, f, F, n)
  BY <1>2 DEF KeptStep
<1> DEFINE T == {n \in Nat : n <= Len(q) /\ F[n] \notin Seq(S)}
<1>4. ASSUME T # {} PROVE FALSE
  <2>1. PICK m \in T : \A k \in T : m <= k
    BY <1>4, Least
  <2>2. m # 0
    <3>1. F[0] = <<>> /\ <<>> \in Seq(S)
      <4>1. 0 \in 0 .. Len(q)
        OBVIOUS
      <4> QED
        BY <1>3, <4>1 DEF KeptStep
    <3> QED
      BY <2>1, <3>1
  <2>3. F[m - 1] \in Seq(S) /\ m \in 1 .. Len(q) /\ q[m] \in S
    BY <2>1, <2>2
  <2>4. F[m] = IF q[m].file = f THEN F[m - 1] ELSE Append(F[m - 1], q[m])
    BY <1>3, <2>2, <2>3 DEF KeptStep
  <2>5. F[m] \in Seq(S)
    BY <2>3, <2>4
  <2> QED
    BY <2>1, <2>5
<1>5. F \in [0 .. Len(q) -> Seq(S)]
  BY <1>2, <1>4
<1> QED
  BY <1>1, <1>3, <1>5

\* r consists of the items of q that are not of f, in their order.
Rest(r, q, f, g) ==
    /\ Picks(r, q, g)
    /\ \A k \in 1 .. Len(r) : r[k].file # f
    /\ \A i \in 1 .. Len(q) : q[i].file # f => \E k \in 1 .. Len(r) : g[k] = i

\* The same of the first n items of q.
RestTo(r, q, f, g, n) ==
    /\ g \in [1 .. Len(r) -> 1 .. n]
    /\ \A k, l \in 1 .. Len(r) : k < l => g[k] < g[l]
    /\ \A k \in 1 .. Len(r) : r[k] = q[g[k]] /\ r[k].file # f
    /\ \A i \in 1 .. n : q[i].file # f => \E k \in 1 .. Len(r) : g[k] = i

LEMMA WithoutPicks ==
  ASSUME NEW S, NEW q \in Seq(S), NEW f
  PROVE  /\ Without(q, f) \in Seq(S)
         /\ \E g : Rest(Without(q, f), q, f, g)
<1>0. Len(q) \in Nat /\ \A i \in 1 .. Len(q) : q[i] \in S
  OBVIOUS
<1>1. PICK kept \in [0 .. Len(q) -> Seq(S)] :
        /\ Without(q, f) = kept[Len(q)]
        /\ \A n \in 0 .. Len(q) : kept[n] = KeptStep(q, f, kept, n)
  BY WithoutIs
<1> DEFINE Ok(n) == \E g : RestTo(kept[n], q, f, g, n)
           T == {n \in Nat : n <= Len(q) /\ ~Ok(n)}
<1>2. Ok(0)
  <2>1. kept[0] = <<>>
    BY <1>0, <1>1 DEF KeptStep
  <2>2. RestTo(kept[0], q, f, <<>>, 0)
    BY <2>1 DEF RestTo
  <2> QED
    BY <2>2
<1>3. ASSUME NEW n \in 1 .. Len(q), Ok(n - 1) PROVE Ok(n)
  <2>1. PICK g : RestTo(kept[n - 1], q, f, g, n - 1)
    BY <1>3
  <2> DEFINE r == kept[n - 1]
  <2>2. r \in Seq(S) /\ Len(r) \in Nat
    <3>1. n - 1 \in 0 .. Len(q)
      BY <1>0
    <3>2. r \in Seq(S)
      BY <3>1
    <3> QED
      BY <3>2
  <2>3. kept[n] = IF q[n].file = f THEN r ELSE Append(r, q[n])
    <3>1. n \in 0 .. Len(q) /\ n # 0
      BY <1>0
    <3>2. kept[n] = KeptStep(q, f, kept, n)
      BY <1>1, <3>1
    <3> QED
      BY <3>1, <3>2 DEF KeptStep
  <2>4. CASE q[n].file = f
    <3>1. kept[n] = r
      BY <2>3, <2>4
    <3>2. RestTo(r, q, f, g, n)
      <4>1. 1 .. n = (1 .. n - 1) \cup {n}
        BY <1>0
      <4>2. g \in [1 .. Len(r) -> 1 .. n]
        BY <2>1, <4>1 DEF RestTo
      <4>3. \A i \in 1 .. n : q[i].file # f => i \in 1 .. n - 1
        BY <2>4, <4>1
      <4> QED
        BY <2>1, <4>2, <4>3 DEF RestTo
    <3> QED
      BY <3>1, <3>2
  <2>5. CASE q[n].file # f
    <3> DEFINE h == [k \in 1 .. Len(r) + 1 |-> IF k = Len(r) + 1 THEN n ELSE g[k]]
               t == Append(r, q[n])
    <3>1. kept[n] = t /\ Len(t) = Len(r) + 1 /\ t[Len(r) + 1] = q[n]
          /\ \A k \in 1 .. Len(r) : t[k] = r[k]
      BY <1>0, <2>2, <2>3, <2>5
    <3>2. \A k \in 1 .. Len(r) : g[k] \in 1 .. n - 1
      BY <2>1 DEF RestTo
    <3>3. h \in [1 .. Len(t) -> 1 .. n]
      BY <2>2, <3>1, <3>2
    <3>4. ASSUME NEW k \in 1 .. Len(t), NEW l \in 1 .. Len(t), k < l PROVE h[k] < h[l]
      <4>1. k \in 1 .. Len(r) /\ h[k] = g[k] /\ g[k] < n
        BY <2>2, <3>1, <3>2, <3>4
      <4>2. CASE l = Len(r) + 1
        BY <4>1, <4>2, <3>1
      <4>3. CASE l # Len(r) + 1
        <5>1. l \in 1 .. Len(r) /\ h[l] = g[l]
          BY <2>2, <3>1, <4>3
        <5> QED
          BY <2>1, <3>4, <4>1, <5>1 DEF RestTo
      <4> QED
        BY <4>2, <4>3
    <3>5. ASSUME NEW k \in 1 .. Len(t) PROVE t[k] = q[h[k]] /\ t[k].file # f
      <4>1. CASE k = Len(r) + 1
        BY <3>1, <4>1, <2>5
      <4>2. CASE k # Len(r) + 1
        <5>1. k \in 1 .. Len(r) /\ h[k] = g[k]
          BY <2>2, <3>1, <4>2
        <5> QED
          BY <2>1, <3>1, <5>1 DEF RestTo
      <4> QED
        BY <4>1, <4>2
    <3>6. ASSUME NEW i \in 1 .. n, q[i].file # f PROVE \E k \in 1 .. Len(t) : h[k] = i
      <4>1. CASE i = n
        <5>1. Len(r) + 1 \in 1 .. Len(t) /\ h[Len(r) + 1] = n
          BY <3>1, <2>2
        <5> QED
          BY <4>1, <5>1
      <4>2. CASE i # n
        <5>1. PICK k \in 1 .. Len(r) : g[k] = i
          BY <2>1, <3>6, <4>2 DEF RestTo
        <5>2. k \in 1 .. Len(t) /\ h[k] = i
          BY <5>1, <2>2, <3>1
        <5> QED
          BY <5>2
      <4> QED
        BY <4>1, <4>2
    <3>7. RestTo(t, q, f, h, n)
      BY <3>3, <3>4, <3>5, <3>6 DEF RestTo
    <3> QED
      BY <3>1, <3>7
  <2> QED
    BY <2>4, <2>5
<1> HIDE DEF Ok
<1>4. ASSUME T # {} PROVE FALSE
  <2>1. PICK m \in T : \A k \in T : m <= k
    BY <1>4, Least
  <2>2. m # 0
    BY <2>1, <1>2
  <2>3. m \in 1 .. Len(q) /\ m - 1 \in Nat /\ m - 1 <= Len(q) /\ ~(m <= m - 1)
    BY <2>1, <2>2, <1>0
  <2>4. Ok(m - 1)
    BY <2>1, <2>3
  <2> QED
    BY <1>3, <2>1, <2>3, <2>4
<1>5. Ok(Len(q))
  BY <1>0, <1>4
<1>6. PICK g : RestTo(Without(q, f), q, f, g, Len(q))
  BY <1>1, <1>5 DEF Ok
<1>7. Without(q, f) \in Seq(S)
  BY <1>0, <1>1
<1> QED
  BY <1>6, <1>7 DEF RestTo, Rest, Picks

-----------------------------------------------------------------------------
(* What the worker's state consists of.                                    *)

Text == {d \in Seq(Nat) : Len(d) <= MaxLen}
Buffer == {b \in [data : Text, cap : Nat] : Len(b.data) <= b.cap}
Lengths == {n \in 0 .. MaxLen : n % BlockSize = 0}
Piece == {w \in [at : 0 .. MaxLen, len : 0 .. MaxLen, val : Nat] : w.at + w.len <= MaxLen}
View == {v \in [live : BOOLEAN, len : 0 .. MaxLen, data : Text] : Len(v.data) <= v.len}

Covered(it, c) == \E i \in DOMAIN it.writes : Covers(it.writes[i], c)

Marks == [op : {"create", "delete"}, file : File]
Cuts == [op : {"truncate"}, file : File, len : Lengths]
WriteShape == [op : {"write"}, file : File, base : View, writes : Seq(Piece)]
\* In a paged file a write puts whole blocks.
WholeBlocks(it) ==
    it.file \in Paged => \A c \in Cells : Block(c) \in Touched(it) => Covered(it, c)
Writes == {it \in WriteShape : WholeBlocks(it)}
Item == Marks \cup Cuts \cup Writes

-----------------------------------------------------------------------------
(* Files, sets of named texts.                                             *)

\* The value at a position, zero outside of the file; the length, -1 without a file.
Data(F, f, c) == IF f \in DOMAIN F /\ c < Len(F[f]) THEN F[f][c + 1] ELSE 0
Size(F, f) == IF f \in DOMAIN F THEN Len(F[f]) ELSE -1

-----------------------------------------------------------------------------
(* What an item does to its file.                                          *)

Leaves(it) ==
    CASE it.op = "delete" -> -1
      [] it.op = "create" -> 0
      [] it.op = "truncate" -> it.len
      [] OTHER -> LenWritten(it)

Runs(it, n) ==
    CASE it.op = "create" -> n = -1
      [] it.op = "write" -> n = it.base.len
      [] OTHER -> n >= 0

Decides(it, c) ==
    CASE it.op = "truncate" -> c >= it.len
      [] it.op = "write" -> Block(c) \in Touched(it)
      [] OTHER -> TRUE

Tells(it, c) == it.op = "truncate" => c >= it.len

Viewed(it, F, c) ==
    IF it.base.live THEN (IF c < it.base.len THEN Data(F, it.file, c) ELSE 0)
    ELSE IF c < Len(it.base.data) THEN it.base.data[c + 1] ELSE 0

Shown(it, F, c) ==
    IF it.op # "write" THEN 0
    ELSE IF Covered(it, c) THEN CellWritten(it, c) ELSE Viewed(it, F, c)

-----------------------------------------------------------------------------
(* A line of items.                                                        *)

Mine(L, f, k) == {i \in 1 .. k : L[i].file = f}
After(L, n, f, k) == IF Mine(L, f, k) = {} THEN n ELSE Leaves(L[Max(Mine(L, f, k))])
Later(L, i, f, c) == \E j \in i + 1 .. Len(L) : L[j].file = f /\ Decides(L[j], c)

LineFor(L, F, n, cel, f, size, ok, strong) ==
    /\ \A j \in 1 .. Len(L) : L[j].file = f => Runs(L[j], After(L, n, f, j - 1))
    /\ size = After(L, n, f, Len(L))
    /\ \A c \in Cells :
         /\ ~Later(L, 0, f, c) => cel[c] \in ok[c]
         /\ \A i \in 1 .. Len(L) :
              /\ L[i].file = f /\ Tells(L[i], c) /\ (strong \/ Decides(L[i], c))
              /\ ~Later(L, i, f, c)
              => Shown(L[i], F, c) \in ok[c]

-----------------------------------------------------------------------------
\* No item of f among the first k; the i-th is the last of them.
NoItem(L, f, k) == \A i \in 1 .. k : L[i].file # f
IsLast(L, f, k, i) == i \in 1 .. k /\ L[i].file = f /\ \A j \in i + 1 .. k : L[j].file # f

LEMMA AfterNone ==
  ASSUME NEW L, NEW n, NEW f, NEW k \in Nat, NoItem(L, f, k)
  PROVE  After(L, n, f, k) = n
BY DEF After, Mine, NoItem

LEMMA AfterLast ==
  ASSUME NEW L, NEW n, NEW f, NEW k \in Nat, NEW i, IsLast(L, f, k, i)
  PROVE  After(L, n, f, k) = Leaves(L[i])
<1>1. i \in Mine(L, f, k) /\ Mine(L, f, k) \subseteq 0 .. k
  BY DEF Mine, IsLast
<1>2. \A j \in Mine(L, f, k) : j <= i
  BY DEF Mine, IsLast
<1>3. Max(Mine(L, f, k)) = i
  <2>1. Max(Mine(L, f, k)) \in Mine(L, f, k) /\ i <= Max(Mine(L, f, k))
    BY <1>1, Greatest
  <2> QED
    BY <1>1, <1>2, <2>1
<1> QED
  BY <1>1, <1>3 DEF After

LEMMA LastItem ==
  ASSUME NEW L, NEW f, NEW k \in Nat
  PROVE  NoItem(L, f, k) \/ \E i : IsLast(L, f, k, i)
<1>1. SUFFICES ASSUME Mine(L, f, k) # {} PROVE \E i : IsLast(L, f, k, i)
  BY DEF Mine, NoItem
<1> DEFINE i == Max(Mine(L, f, k))
<1>2. Mine(L, f, k) \subseteq 0 .. k
  BY DEF Mine
<1>3. i \in Mine(L, f, k) /\ \A j \in Mine(L, f, k) : j <= i
  BY <1>1, <1>2, Greatest
<1> HIDE DEF i
<1>4. i \in 1 .. k /\ L[i].file = f
  BY <1>3 DEF Mine
<1>5. \A j \in i + 1 .. k : L[j].file # f
  BY <1>3, <1>4 DEF Mine
<1> QED
  BY <1>4, <1>5 DEF IsLast

LEMMA AfterStep ==
  ASSUME NEW L, NEW n, NEW f, NEW k \in Nat \ {0}
  PROVE  After(L, n, f, k) = IF L[k].file = f THEN Leaves(L[k]) ELSE After(L, n, f, k - 1)
<1>1. CASE L[k].file = f
  <2>1. IsLast(L, f, k, k)
    BY <1>1 DEF IsLast
  <2> QED
    BY <1>1, <2>1, AfterLast
<1>2. CASE L[k].file # f
  <2>0. PICK m \in Nat : m = k - 1
    OBVIOUS
  <2>1. CASE NoItem(L, f, m)
    <3>1. NoItem(L, f, k)
      BY <1>2, <2>0, <2>1 DEF NoItem
    <3>2. After(L, n, f, m) = n /\ After(L, n, f, k) = n
      BY <2>1, <3>1, AfterNone
    <3> QED
      BY <1>2, <2>0, <3>2
  <2>2. ASSUME NEW i, IsLast(L, f, m, i)
        PROVE  After(L, n, f, k) = After(L, n, f, m)
    <3>1. IsLast(L, f, k, i)
      BY <1>2, <2>0, <2>2 DEF IsLast
    <3> QED
      BY <2>2, <3>1, AfterLast
  <2>3. NoItem(L, f, m) \/ \E i : IsLast(L, f, m, i)
    BY LastItem
  <2> QED
    BY <1>2, <2>0, <2>1, <2>2, <2>3
<1> QED
  BY <1>1, <1>2

-----------------------------------------------------------------------------
(* Two lines that have the same items of a file.                           *)

\* Items that are told apart by their view at most.
Alike(x, y) ==
    /\ x.op = y.op /\ x.file = y.file
    /\ x.op = "truncate" => x.len = y.len
    /\ x.op = "write" => x.writes = y.writes /\ x.base.len = y.base.len

\* The pairs of places P put the items of f in L beside those in K.
Paired(L, K, P, f) ==
    /\ P \subseteq (1 .. Len(L)) \X (1 .. Len(K))
    /\ \A p, q \in P : p[1] < q[1] <=> p[2] < q[2]
    /\ \A p \in P : L[p[1]].file = f => Alike(L[p[1]], K[p[2]])
    /\ \A p \in P : L[p[1]].file = f <=> K[p[2]].file = f
    /\ \A i \in 1 .. Len(L) : L[i].file = f => \E j \in 1 .. Len(K) : <<i, j>> \in P
    /\ \A j \in 1 .. Len(K) : K[j].file = f => \E i \in 1 .. Len(L) : <<i, j>> \in P

LEMMA AlikeSame ==
  ASSUME NEW x, NEW y, Alike(x, y), x.op \in {"create", "delete", "truncate", "write"}
  PROVE  /\ Leaves(x) = Leaves(y)
         /\ \A n : Runs(x, n) <=> Runs(y, n)
         /\ \A c : Decides(x, c) <=> Decides(y, c)
         /\ \A c : Tells(x, c) <=> Tells(y, c)
         /\ \A c : x.op = "write" => (Covered(x, c) <=> Covered(y, c))
<1>1. CASE x.op = "write"
  <2>1. y.op = "write" /\ x.writes = y.writes /\ x.base.len = y.base.len
    BY <1>1 DEF Alike
  <2>2. LenWritten(x) = LenWritten(y)
    BY <2>1 DEF LenWritten
  <2>3. Touched(x) = Touched(y)
    BY <2>1 DEF Touched
  <2>4. \A c : Covered(x, c) <=> Covered(y, c)
    BY <2>1 DEF Covered
  <2>5. Leaves(x) = Leaves(y)
    BY <1>1, <2>1, <2>2 DEF Leaves
  <2>6. \A c : Decides(x, c) <=> Decides(y, c)
    BY <1>1, <2>1, <2>3 DEF Decides
  <2>7. (\A n : Runs(x, n) <=> Runs(y, n)) /\ (\A c : Tells(x, c) <=> Tells(y, c))
    BY <1>1, <2>1 DEF Runs, Tells
  <2> QED
    BY <2>4, <2>5, <2>6, <2>7
<1>2. CASE x.op # "write"
  BY <1>2 DEF Alike, Leaves, Runs, Decides, Tells
<1> QED
  BY <1>1, <1>2

LEMMA PairedAfter ==
  ASSUME NEW L, NEW K, NEW P, NEW f, Len(L) \in Nat, Len(K) \in Nat, Paired(L, K, P, f),
         \A i \in 1 .. Len(L) : L[i].op \in {"create", "delete", "truncate", "write"},
         NEW n, NEW k \in 0 .. Len(L), NEW m \in 0 .. Len(K),
         \A p \in P : L[p[1]].file = f => (p[1] <= k <=> p[2] <= m)
  PROVE  After(L, n, f, k) = After(K, n, f, m)
<1>0. k \in Nat /\ m \in Nat
  OBVIOUS
<1>1. CASE NoItem(L, f, k)
  <2>1. ASSUME NEW j \in 1 .. m, K[j].file = f PROVE FALSE
    <3>1. PICK i \in 1 .. Len(L) : <<i, j>> \in P
      BY <2>1 DEF Paired
    <3>2. L[i].file = f
      BY <2>1, <3>1 DEF Paired
    <3>3. i <= k
      BY <3>1, <3>2
    <3> QED
      BY <1>1, <3>2, <3>3 DEF NoItem
  <2>2. NoItem(K, f, m)
    BY <2>1 DEF NoItem
  <2> QED
    BY <1>0, <1>1, <2>2, AfterNone
<1>2. ASSUME NEW i, IsLast(L, f, k, i)
      PROVE  After(L, n, f, k) = After(K, n, f, m)
  <2>0. i \in 1 .. k /\ i \in 1 .. Len(L) /\ L[i].file = f /\ \A j \in i + 1 .. k : L[j].file # f
    BY <1>2 DEF IsLast
  <2>1. PICK j \in 1 .. Len(K) : <<i, j>> \in P
    BY <2>0 DEF Paired
  <2>2. j \in 1 .. m /\ K[j].file = f /\ Alike(L[i], K[j])
    <3>1. j <= m
      BY <2>0, <2>1
    <3> QED
      BY <2>0, <2>1, <3>1 DEF Paired
  <2>3. ASSUME NEW l \in j + 1 .. m, K[l].file = f PROVE FALSE
    <3>0. l \in 1 .. Len(K) /\ j < l /\ l <= m
      BY <2>1
    <3>1. PICK h \in 1 .. Len(L) : <<h, l>> \in P
      BY <2>3, <3>0 DEF Paired
    <3>2. L[h].file = f
      BY <2>3, <3>1 DEF Paired
    <3>3. h <= k
      BY <3>0, <3>1, <3>2
    <3>4. i < h
      BY <2>1, <3>0, <3>1 DEF Paired
    <3> QED
      BY <2>0, <3>2, <3>3, <3>4
  <2>4. After(L, n, f, k) = Leaves(L[i])
    BY <1>0, <1>2, AfterLast
  <2>5. IsLast(K, f, m, j)
    BY <2>2, <2>3 DEF IsLast
  <2>6. After(K, n, f, m) = Leaves(K[j])
    BY <1>0, <2>5, AfterLast
  <2> QED
    BY <2>0, <2>2, <2>4, <2>6, AlikeSame
<1>3. NoItem(L, f, k) \/ \E i : IsLast(L, f, k, i)
  BY <1>0, LastItem
<1> QED
  BY <1>1, <1>2, <1>3

-----------------------------------------------------------------------------
(* What the line does depends on the items of the file only.               *)

Op == {"create", "delete", "truncate", "write"}

LEMMA PairedLater ==
  ASSUME NEW L, NEW K, NEW P, NEW f, Len(L) \in Nat, Len(K) \in Nat, Paired(L, K, P, f),
         \A i \in 1 .. Len(L) : L[i].op \in Op,
         NEW k \in 0 .. Len(L), NEW m \in 0 .. Len(K),
         \A p \in P : L[p[1]].file = f => (p[1] <= k <=> p[2] <= m),
         NEW c
  PROVE  Later(L, k, f, c) <=> Later(K, m, f, c)
<1>1. ASSUME Later(L, k, f, c) PROVE Later(K, m, f, c)
  <2>1. PICK i \in k + 1 .. Len(L) : L[i].file = f /\ Decides(L[i], c)
    BY <1>1 DEF Later
  <2>2. i \in 1 .. Len(L) /\ ~(i <= k)
    OBVIOUS
  <2>3. PICK j \in 1 .. Len(K) : <<i, j>> \in P
    BY <2>1, <2>2 DEF Paired
  <2>4. K[j].file = f /\ Alike(L[i], K[j])
    BY <2>1, <2>3 DEF Paired
  <2>5. ~(j <= m)
    BY <2>1, <2>2, <2>3
  <2>6. Decides(K[j], c)
    BY <2>1, <2>2, <2>4, AlikeSame DEF Op
  <2> QED
    BY <2>4, <2>5, <2>6 DEF Later
<1>2. ASSUME Later(K, m, f, c) PROVE Later(L, k, f, c)
  <2>1. PICK j \in m + 1 .. Len(K) : K[j].file = f /\ Decides(K[j], c)
    BY <1>2 DEF Later
  <2>2. j \in 1 .. Len(K) /\ ~(j <= m)
    OBVIOUS
  <2>3. PICK i \in 1 .. Len(L) : <<i, j>> \in P
    BY <2>1, <2>2 DEF Paired
  <2>4. L[i].file = f
    BY <2>1, <2>3 DEF Paired
  <2>5. Alike(L[i], K[j])
    BY <2>3, <2>4 DEF Paired
  <2>6. ~(i <= k)
    BY <2>2, <2>3, <2>4
  <2>7. Decides(L[i], c)
    BY <2>1, <2>5, AlikeSame DEF Op
  <2> QED
    BY <2>4, <2>6, <2>7 DEF Later
<1> QED
  BY <1>1, <1>2

\* Lines with the same items of f do the same to f.
LEMMA PairedLine ==
  ASSUME NEW L, NEW K, NEW P, NEW f, Len(L) \in Nat, Len(K) \in Nat, Paired(L, K, P, f),
         \A i \in 1 .. Len(L) : L[i].op \in Op,
         NEW F, NEW n, NEW cel, NEW size, NEW ok, NEW strong \in BOOLEAN,
         LineFor(L, F, n, cel, f, size, ok, strong),
         NEW F2, NEW ok2, \A c \in Cells : ok[c] \subseteq ok2[c],
         \A p \in P, c \in Cells :
           L[p[1]].file = f /\ (strong \/ Decides(L[p[1]], c))
           => Shown(K[p[2]], F2, c) \in {Shown(L[p[1]], F, c)} \cup ok2[c]
  PROVE  LineFor(K, F2, n, cel, f, size, ok2, strong)
<1>1. ASSUME NEW j \in 1 .. Len(K), K[j].file = f
      PROVE  Runs(K[j], After(K, n, f, j - 1))
  <2>1. PICK i \in 1 .. Len(L) : <<i, j>> \in P
    BY <1>1 DEF Paired
  <2>2. L[i].file = f
    BY <1>1, <2>1 DEF Paired
  <2>3. Alike(L[i], K[j])
    BY <2>1, <2>2 DEF Paired
  <2>4. Runs(L[i], After(L, n, f, i - 1))
    BY <2>2 DEF LineFor
  <2>5. PICK k \in 0 .. Len(L), m \in 0 .. Len(K) : k = i - 1 /\ m = j - 1
    OBVIOUS
  <2>6. ASSUME NEW p \in P PROVE p[1] <= k <=> p[2] <= m
    <3>1. p[1] \in Nat /\ p[2] \in Nat /\ (p[1] < i <=> p[2] < j)
      BY <2>1 DEF Paired
    <3> QED
      BY <2>5, <3>1
  <2>7. After(L, n, f, k) = After(K, n, f, m)
    BY <2>6, PairedAfter DEF Op
  <2> QED
    BY <2>3, <2>4, <2>5, <2>7, AlikeSame DEF Op
<1>2. size = After(K, n, f, Len(K))
  <2>1. \A p \in P : p[1] <= Len(L) <=> p[2] <= Len(K)
    BY DEF Paired
  <2>2. After(L, n, f, Len(L)) = After(K, n, f, Len(K))
    BY <2>1, PairedAfter DEF Op
  <2> QED
    BY <2>2 DEF LineFor
<1>3. ASSUME NEW c \in Cells, ~Later(K, 0, f, c) PROVE cel[c] \in ok2[c]
  <2>1. \A p \in P : p[1] <= 0 <=> p[2] <= 0
    BY DEF Paired
  <2>2. 0 \in 0 .. Len(L) /\ 0 \in 0 .. Len(K)
    OBVIOUS
  <2>3. Later(L, 0, f, c) <=> Later(K, 0, f, c)
    BY <2>1, <2>2, PairedLater
  <2> QED
    BY <1>3, <2>3 DEF LineFor
<1>4. ASSUME NEW c \in Cells, NEW j \in 1 .. Len(K),
             K[j].file = f /\ Tells(K[j], c) /\ (strong \/ Decides(K[j], c)) /\ ~Later(K, j, f, c)
      PROVE  Shown(K[j], F2, c) \in ok2[c]
  <2>1. PICK i \in 1 .. Len(L) : <<i, j>> \in P
    BY <1>4 DEF Paired
  <2>2. L[i].file = f
    BY <1>4, <2>1 DEF Paired
  <2>3. Alike(L[i], K[j])
    BY <2>1, <2>2 DEF Paired
  <2>4. Tells(L[i], c) /\ (strong \/ Decides(L[i], c))
    BY <1>4, <2>3, AlikeSame DEF Op
  <2>5. ASSUME NEW p \in P PROVE p[1] <= i <=> p[2] <= j
    <3>1. p[1] \in Nat /\ p[2] \in Nat /\ (p[1] < i <=> p[2] < j) /\ (i < p[1] <=> j < p[2])
      BY <2>1 DEF Paired
    <3> QED
      BY <3>1
  <2>6. i \in 0 .. Len(L) /\ j \in 0 .. Len(K)
    OBVIOUS
  <2>7. ~Later(L, i, f, c)
    <3>1. Later(L, i, f, c) <=> Later(K, j, f, c)
      BY <2>5, <2>6, PairedLater
    <3> QED
      BY <1>4, <3>1
  <2>8. Shown(L[i], F, c) \in ok[c]
    BY <2>2, <2>4, <2>7 DEF LineFor
  <2>9. Shown(K[j], F2, c) \in {Shown(L[i], F, c)} \cup ok2[c]
    BY <2>1, <2>2, <2>4
  <2> QED
    BY <2>8, <2>9
<1> QED
  BY <1>1, <1>2, <1>3, <1>4 DEF LineFor

LEMMA PairedSame ==
  ASSUME NEW L, NEW K, NEW f, Len(L) \in Nat, Len(K) = Len(L),
         \A i \in 1 .. Len(L) : L[i].file = f => Alike(L[i], K[i]),
         \A i \in 1 .. Len(L) : L[i].file = f <=> K[i].file = f
  PROVE  Paired(L, K, {<<i, i>> : i \in 1 .. Len(L)}, f)
<1> DEFINE P == {<<i, i>> : i \in 1 .. Len(L)}
<1>1. \A p \in P : \E i \in 1 .. Len(L) : p = <<i, i>> /\ p[1] = i /\ p[2] = i
  OBVIOUS
<1>2. \A i \in 1 .. Len(L) : <<i, i>> \in P
  OBVIOUS
<1>3. P \subseteq (1 .. Len(L)) \X (1 .. Len(K))
  OBVIOUS
<1> HIDE DEF P
<1> QED
  BY <1>1, <1>2, <1>3 DEF Paired

\* K is L without its first item; when it has run cel has become cel2.
Ahead(L, K, F, cel, cel2) ==
    /\ Len(L) \in Nat \ {0} /\ Len(K) = Len(L) - 1 /\ \A i \in 1 .. Len(K) : K[i] = L[i + 1]
    /\ \A c \in Cells : cel2[c] = IF Decides(L[1], c) THEN Shown(L[1], F, c) ELSE cel[c]
    /\ \A c \in Cells : Decides(L[1], c) => Tells(L[1], c)

LEMMA LineFirst ==
  ASSUME NEW L, NEW f, L[1].file = f, NEW K, NEW F, NEW cel, NEW cel2, Ahead(L, K, F, cel, cel2),
         NEW n, NEW size, NEW ok, NEW strong, LineFor(L, F, n, cel, f, size, ok, strong)
  PROVE  LineFor(K, F, Leaves(L[1]), cel2, f, size, ok, strong)
<1> DEFINE x == L[1]
<1>1. Len(L) \in Nat \ {0} /\ Len(K) = Len(L) - 1 /\ \A i \in 1 .. Len(K) : K[i] = L[i + 1]
  BY DEF Ahead
<1>0. /\ \A c \in Cells : cel2[c] = IF Decides(x, c) THEN Shown(x, F, c) ELSE cel[c]
      /\ \A c \in Cells : Decides(x, c) => Tells(x, c)
  BY DEF Ahead
<1>2. ASSUME NEW k \in Nat, k <= Len(K)
      PROVE  After(K, Leaves(x), f, k) = After(L, n, f, k + 1)
  <2>0. k + 1 \in Nat
    OBVIOUS
  <2>1. CASE NoItem(K, f, k)
    <3>1. ASSUME NEW j \in 1 + 1 .. k + 1 PROVE L[j].file # f
      <4>1. j - 1 \in 1 .. k /\ j - 1 \in 1 .. Len(K) /\ (j - 1) + 1 = j
        BY <1>1, <1>2
      <4> QED
        BY <1>1, <2>1, <4>1 DEF NoItem
    <3>2. IsLast(L, f, k + 1, 1)
      BY <3>1 DEF IsLast
    <3>3. After(L, n, f, k + 1) = Leaves(x)
      BY <2>0, <3>2, AfterLast
    <3> QED
      BY <2>1, <3>3, AfterNone
  <2>2. ASSUME NEW i, IsLast(K, f, k, i)
        PROVE  After(K, Leaves(x), f, k) = After(L, n, f, k + 1)
    <3>1. i \in 1 .. k /\ K[i].file = f /\ \A j \in i + 1 .. k : K[j].file # f
      BY <2>2 DEF IsLast
    <3>2. i + 1 \in 1 .. k + 1 /\ L[i + 1] = K[i]
      BY <1>1, <1>2, <3>1
    <3>3. ASSUME NEW j \in (i + 1) + 1 .. k + 1 PROVE L[j].file # f
      <4>1. j - 1 \in i + 1 .. k /\ j - 1 \in 1 .. Len(K) /\ (j - 1) + 1 = j
        BY <1>1, <1>2, <3>1
      <4> QED
        BY <1>1, <3>1, <4>1
    <3>4. IsLast(L, f, k + 1, i + 1)
      BY <3>1, <3>2, <3>3 DEF IsLast
    <3>5. After(L, n, f, k + 1) = Leaves(L[i + 1])
      BY <2>0, <3>4, AfterLast
    <3>6. After(K, Leaves(x), f, k) = Leaves(K[i])
      BY <2>2, AfterLast
    <3> QED
      BY <3>2, <3>5, <3>6
  <2>3. NoItem(K, f, k) \/ \E i : IsLast(K, f, k, i)
    BY LastItem
  <2> QED
    BY <2>1, <2>2, <2>3
<1>3. ASSUME NEW k \in 0 .. Len(K), NEW c
      PROVE  Later(K, k, f, c) <=> Later(L, k + 1, f, c)
  <2>1. ASSUME NEW j \in k + 1 .. Len(K), K[j].file = f, Decides(K[j], c)
        PROVE  Later(L, k + 1, f, c)
    <3>1. j + 1 \in (k + 1) + 1 .. Len(L) /\ L[j + 1] = K[j]
      BY <1>1
    <3> QED
      BY <2>1, <3>1 DEF Later
  <2>2. ASSUME NEW j \in (k + 1) + 1 .. Len(L), L[j].file = f, Decides(L[j], c)
        PROVE  Later(K, k, f, c)
    <3>1. j - 1 \in k + 1 .. Len(K) /\ j - 1 \in 1 .. Len(K) /\ (j - 1) + 1 = j
      BY <1>1
    <3>2. L[j] = K[j - 1]
      BY <1>1, <3>1
    <3> QED
      BY <2>2, <3>1, <3>2 DEF Later
  <2> QED
    BY <2>1, <2>2 DEF Later
<1>5. ASSUME NEW j \in 1 .. Len(K), K[j].file = f
      PROVE  Runs(K[j], After(K, Leaves(x), f, j - 1))
  <2>1. PICK k \in Nat : k <= Len(K) /\ k = j - 1 /\ j = k + 1 /\ (j + 1) - 1 = k + 1
    BY <1>1
  <2>2. j + 1 \in 1 .. Len(L) /\ K[j] = L[j + 1]
    BY <1>1
  <2>3. Runs(L[j + 1], After(L, n, f, (j + 1) - 1))
    BY <1>5, <2>2 DEF LineFor
  <2> QED
    BY <1>2, <2>1, <2>2, <2>3
<1>6. size = After(K, Leaves(x), f, Len(K))
  <2>1. Len(K) \in Nat /\ Len(K) <= Len(K) /\ Len(K) + 1 = Len(L)
    BY <1>1
  <2> QED
    BY <1>2, <2>1 DEF LineFor
<1>7. ASSUME NEW c \in Cells, ~Later(K, 0, f, c) PROVE cel2[c] \in ok[c]
  <2>1. 0 \in 0 .. Len(K) /\ 0 + 1 = 1
    BY <1>1
  <2>2. ~Later(L, 1, f, c)
    BY <1>3, <1>7, <2>1
  <2>3. CASE Decides(x, c)
    BY <1>0, <1>1, <2>2, <2>3 DEF LineFor
  <2>4. CASE ~Decides(x, c)
    <3>1. ~Later(L, 0, f, c)
      <4>1. \A j \in 0 + 1 .. Len(L) : j = 1 \/ j \in 1 + 1 .. Len(L)
        BY <1>1
      <4> QED
        BY <2>2, <2>4, <4>1 DEF Later
    <3> QED
      BY <1>0, <2>4, <3>1 DEF LineFor
  <2> QED
    BY <2>3, <2>4
<1>8. ASSUME NEW c \in Cells, NEW j \in 1 .. Len(K),
             K[j].file = f /\ Tells(K[j], c) /\ (strong \/ Decides(K[j], c)) /\ ~Later(K, j, f, c)
      PROVE  Shown(K[j], F, c) \in ok[c]
  <2>1. j \in 0 .. Len(K) /\ j + 1 \in 1 .. Len(L) /\ K[j] = L[j + 1]
    BY <1>1
  <2>2. ~Later(L, j + 1, f, c)
    BY <1>3, <1>8, <2>1
  <2> QED
    BY <1>8, <2>1, <2>2 DEF LineFor
<1>9. LineFor(K, F, Leaves(x), cel2, f, size, ok, strong)
  BY <1>5, <1>6, <1>7, <1>8 DEF LineFor
<1> QED
  BY <1>9

\* K begins as L does, as far as f goes.
Prefix(L, K, f, k) ==
    \A i \in 1 .. k : /\ L[i].file = f <=> K[i].file = f
                      /\ L[i].file = f => Alike(L[i], K[i]) /\ L[i].op \in Op

LEMMA PrefixAfter ==
  ASSUME NEW L, NEW K, NEW f, NEW k \in Nat, Prefix(L, K, f, k), NEW n
  PROVE  After(L, n, f, k) = After(K, n, f, k)
<1>1. CASE NoItem(L, f, k)
  <2>1. NoItem(K, f, k)
    BY <1>1 DEF NoItem, Prefix
  <2> QED
    BY <1>1, <2>1, AfterNone
<1>2. ASSUME NEW i, IsLast(L, f, k, i) PROVE After(L, n, f, k) = After(K, n, f, k)
  <2>1. i \in 1 .. k /\ Alike(L[i], K[i]) /\ L[i].op \in Op
    BY <1>2 DEF IsLast, Prefix
  <2>2. \A j \in i + 1 .. k : j \in 1 .. k
    BY <2>1
  <2>3. IsLast(K, f, k, i)
    BY <1>2, <2>1, <2>2 DEF IsLast, Prefix
  <2>4. Leaves(L[i]) = Leaves(K[i])
    BY <2>1, AlikeSame DEF Op
  <2> QED
    BY <1>2, <2>3, <2>4, AfterLast
<1>3. NoItem(L, f, k) \/ \E i : IsLast(L, f, k, i)
  BY LastItem
<1> QED
  BY <1>1, <1>2, <1>3

LEMMA PrefixRuns ==
  ASSUME NEW L, NEW K, NEW f, NEW k \in Nat, Prefix(L, K, f, k), NEW n,
         \A j \in 1 .. k : L[j].file = f => Runs(L[j], After(L, n, f, j - 1))
  PROVE  \A j \in 1 .. k : K[j].file = f => Runs(K[j], After(K, n, f, j - 1))
<1>1. SUFFICES ASSUME NEW j \in 1 .. k, K[j].file = f PROVE Runs(K[j], After(K, n, f, j - 1))
  OBVIOUS
<1>2. L[j].file = f /\ Alike(L[j], K[j]) /\ L[j].op \in Op
  BY <1>1 DEF Prefix
<1>3. PICK m \in Nat : m = j - 1
  OBVIOUS
<1>4. Prefix(L, K, f, m)
  BY <1>3 DEF Prefix
<1>5. After(L, n, f, m) = After(K, n, f, m)
  BY <1>4, PrefixAfter
<1>6. Runs(L[j], After(K, n, f, j - 1))
  BY <1>2, <1>3, <1>5
<1> QED
  BY <1>2, <1>6, AlikeSame DEF Op

\* In the cells that x does not decide all is as it was.
Outside(L, K, f, F, F2, ok, ok2, x) ==
    \A c \in Cells : ~Decides(x, c) =>
      /\ ok[c] \subseteq ok2[c]
      /\ \A i \in 1 .. Len(L) : L[i].file = f /\ Tells(L[i], c) => Shown(K[i], F2, c) = Shown(L[i], F, c)

\* An item joins the end of the line.
LEMMA LineAppend ==
  ASSUME NEW L, NEW K, NEW f, NEW x, Len(L) \in Nat, Len(K) = Len(L) + 1,
         Prefix(L, K, f, Len(L)), K[Len(L) + 1] = x, x.file = f,
         NEW F, NEW n, NEW cel, NEW size, NEW ok,
         LineFor(L, F, n, cel, f, size, ok, TRUE),
         NEW F2, NEW ok2, NEW size2, Runs(x, size), size2 = Leaves(x),
         \A c \in Cells : Tells(x, c) => Shown(x, F2, c) \in ok2[c],
         Outside(L, K, f, F, F2, ok, ok2, x)
  PROVE  LineFor(K, F2, n, cel, f, size2, ok2, TRUE)
<1>1. After(K, n, f, Len(L)) = size
  BY PrefixAfter DEF LineFor
<1>2. ASSUME NEW j \in 1 .. Len(K), K[j].file = f PROVE Runs(K[j], After(K, n, f, j - 1))
  <2>1. CASE j = Len(L) + 1
    <3>1. j - 1 = Len(L)
      BY <2>1
    <3> QED
      BY <1>1, <2>1, <3>1
  <2>2. CASE j # Len(L) + 1
    <3>1. j \in 1 .. Len(L)
      BY <2>2
    <3>2. \A i \in 1 .. Len(L) : L[i].file = f => Runs(L[i], After(L, n, f, i - 1))
      BY DEF LineFor
    <3> QED
      BY <1>2, <3>1, <3>2, PrefixRuns
  <2> QED
    BY <2>1, <2>2
<1>3. size2 = After(K, n, f, Len(K))
  <2>1. IsLast(K, f, Len(K), Len(K))
    BY DEF IsLast
  <2> QED
    BY <2>1, AfterLast
<1>4. ASSUME NEW i \in 0 .. Len(L), NEW c \in Cells, ~Later(K, i, f, c)
      PROVE  ~Later(L, i, f, c) /\ ~Decides(x, c)
  <2>1. ~Decides(x, c)
    <3>1. Len(L) + 1 \in i + 1 .. Len(K)
      OBVIOUS
    <3> QED
      BY <1>4, <3>1 DEF Later
  <2>2. ASSUME NEW j \in i + 1 .. Len(L), L[j].file = f, Decides(L[j], c) PROVE FALSE
    <3>1. j \in 1 .. Len(L) /\ j \in i + 1 .. Len(K)
      OBVIOUS
    <3>2. K[j].file = f /\ Alike(L[j], K[j]) /\ L[j].op \in Op
      BY <2>2, <3>1 DEF Prefix
    <3>3. Decides(K[j], c)
      BY <2>2, <3>2, AlikeSame DEF Op
    <3> QED
      BY <1>4, <3>1, <3>2, <3>3 DEF Later
  <2> QED
    BY <2>1, <2>2 DEF Later
<1>5. ASSUME NEW c \in Cells, ~Later(K, 0, f, c) PROVE cel[c] \in ok2[c]
  <2>1. 0 \in 0 .. Len(L)
    OBVIOUS
  <2> QED
    BY <1>4, <1>5, <2>1 DEF LineFor, Outside
<1>6. ASSUME NEW c \in Cells, NEW i \in 1 .. Len(K), K[i].file = f /\ Tells(K[i], c) /\ ~Later(K, i, f, c)
      PROVE  Shown(K[i], F2, c) \in ok2[c]
  <2>1. CASE i = Len(L) + 1
    BY <1>6, <2>1
  <2>2. CASE i # Len(L) + 1
    <3>1. i \in 1 .. Len(L) /\ i \in 0 .. Len(L)
      BY <2>2
    <3>2. ~Later(L, i, f, c) /\ ~Decides(x, c)
      BY <1>4, <1>6, <3>1
    <3>3. L[i].file = f /\ Alike(L[i], K[i]) /\ L[i].op \in Op
      BY <1>6, <3>1 DEF Prefix
    <3>4. Tells(L[i], c)
      BY <1>6, <3>3, AlikeSame DEF Op
    <3>5. Shown(L[i], F, c) \in ok[c]
      BY <3>1, <3>2, <3>3, <3>4 DEF LineFor
    <3> QED
      BY <3>1, <3>2, <3>3, <3>4, <3>5 DEF Outside
  <2> QED
    BY <2>1, <2>2
<1> QED
  BY <1>2, <1>3, <1>5, <1>6 DEF LineFor

\* A write is joined to the last item of the file, which stands at p.
LEMMA LineJoin ==
  ASSUME NEW L, NEW K, NEW f, NEW p \in 1 .. Len(L), Len(L) \in Nat, Len(K) = Len(L),
         \A i \in 1 .. Len(L) : L[i].file = f <=> K[i].file = f,
         \A i \in 1 .. Len(L) : L[i].file = f /\ i # p => Alike(L[i], K[i]) /\ L[i].op \in Op,
         IsLast(L, f, Len(L), p),
         L[p].op = "write", K[p].op = "write", L[p].base.len = K[p].base.len,
         NEW F, NEW n, NEW cel, NEW size, NEW ok,
         LineFor(L, F, n, cel, f, size, ok, TRUE),
         NEW F2, NEW ok2, NEW size2, size2 = Leaves(K[p]),
         \A c \in Cells : Decides(L[p], c) => Decides(K[p], c),
         \A c \in Cells : ~Later(L, p, f, c) => Shown(K[p], F2, c) \in ok2[c],
         Outside(L, K, f, F, F2, ok, ok2, K[p])
  PROVE  LineFor(K, F2, n, cel, f, size2, ok2, TRUE)
<1>0. p \in Nat /\ L[p].file = f /\ K[p].file = f /\ \A j \in p + 1 .. Len(L) : L[j].file # f
  BY DEF IsLast
<1>1. PICK m \in Nat : m = p - 1
  OBVIOUS
<1>2. Prefix(L, K, f, m)
  <2>1. \A i \in 1 .. m : i \in 1 .. Len(L) /\ i # p
    BY <1>1
  <2> QED
    BY <2>1 DEF Prefix
<1>3. IsLast(K, f, Len(K), p)
  <2>1. \A j \in p + 1 .. Len(L) : j \in 1 .. Len(L)
    BY <1>0
  <2> QED
    BY <1>0, <2>1 DEF IsLast
<1>4. size2 = After(K, n, f, Len(K))
  BY <1>3, AfterLast
<1>5. ASSUME NEW j \in 1 .. Len(K), K[j].file = f PROVE Runs(K[j], After(K, n, f, j - 1))
  <2>1. CASE j = p
    <3>1. Runs(L[p], After(L, n, f, m))
      BY <1>0, <1>1 DEF LineFor
    <3>2. After(L, n, f, m) = After(K, n, f, m)
      BY <1>2, PrefixAfter
    <3>3. Runs(K[p], After(K, n, f, m))
      BY <3>1, <3>2 DEF Runs
    <3> QED
      BY <1>1, <2>1, <3>3
  <2>2. CASE j # p
    <3>1. j \in 1 .. m
      <4>1. ~(j > p)
        BY <1>0, <1>3, <1>5 DEF IsLast
      <4> QED
        BY <1>1, <2>2, <4>1
    <3>2. \A i \in 1 .. m : i \in 1 .. Len(L)
      BY <1>1
    <3>3. \A i \in 1 .. m : L[i].file = f => Runs(L[i], After(L, n, f, i - 1))
      BY <3>2 DEF LineFor
    <3> QED
      BY <1>2, <1>5, <3>1, <3>3, PrefixRuns
  <2> QED
    BY <2>1, <2>2
<1>6. ASSUME NEW i \in 0 .. p - 1, NEW c \in Cells, ~Later(K, i, f, c)
      PROVE  ~Later(L, i, f, c) /\ ~Decides(K[p], c)
  <2>1. ~Decides(K[p], c)
    <3>1. p \in i + 1 .. Len(K)
      OBVIOUS
    <3> QED
      BY <1>0, <1>6, <3>1 DEF Later
  <2>2. ASSUME NEW j \in i + 1 .. Len(L), L[j].file = f, Decides(L[j], c) PROVE FALSE
    <3>1. j \in 1 .. Len(L) /\ j \in i + 1 .. Len(K)
      OBVIOUS
    <3>2. j # p
      BY <2>1, <2>2
    <3>3. K[j].file = f /\ Alike(L[j], K[j]) /\ L[j].op \in Op
      BY <2>2, <3>1, <3>2
    <3>4. Decides(K[j], c)
      BY <2>2, <3>3, AlikeSame DEF Op
    <3> QED
      BY <1>6, <3>1, <3>3, <3>4 DEF Later
  <2> QED
    BY <2>1, <2>2 DEF Later
<1>7. ASSUME NEW c \in Cells, ~Later(K, 0, f, c) PROVE cel[c] \in ok2[c]
  <2>1. 0 \in 0 .. p - 1
    OBVIOUS
  <2> QED
    BY <1>6, <1>7, <2>1 DEF LineFor, Outside
<1>8. ASSUME NEW c \in Cells, NEW i \in 1 .. Len(K), K[i].file = f /\ Tells(K[i], c) /\ ~Later(K, i, f, c)
      PROVE  Shown(K[i], F2, c) \in ok2[c]
  <2>1. CASE i = p
    <3>1. ~Later(L, p, f, c)
      BY <1>0 DEF Later
    <3> QED
      BY <2>1, <3>1
  <2>2. CASE i # p
    <3>1. i \in 0 .. p - 1
      <4>1. ~(i > p)
        BY <1>0, <1>3, <1>8 DEF IsLast
      <4> QED
        BY <2>2, <4>1
    <3>2. ~Later(L, i, f, c) /\ ~Decides(K[p], c)
      BY <1>6, <1>8, <3>1
    <3>3. i \in 1 .. Len(L) /\ L[i].file = f /\ Alike(L[i], K[i]) /\ L[i].op \in Op
      BY <1>8, <2>2
    <3>4. Tells(L[i], c)
      BY <1>8, <3>3, AlikeSame DEF Op
    <3>5. Shown(L[i], F, c) \in ok[c]
      BY <3>2, <3>3, <3>4 DEF LineFor
    <3> QED
      BY <3>2, <3>3, <3>4, <3>5 DEF Outside
  <2> QED
    BY <2>1, <2>2
<1> QED
  BY <1>4, <1>5, <1>7, <1>8 DEF LineFor

-----------------------------------------------------------------------------
(* Items that leave the line.                                              *)

LEMMA LeavesNone ==
  ASSUME NEW x, x.op \in Op, x.op = "write" => LenWritten(x) \in Nat, x.op = "truncate" => x.len \in Nat
  PROVE  Leaves(x) = -1 <=> x.op = "delete"
BY DEF Leaves, Op

\* What the first k items leave is left by all if no other item is of the file.
LEMMA AfterMore ==
  ASSUME NEW L, NEW f, NEW n, NEW k \in Nat, NEW m \in Nat, k <= m,
         \A i \in k + 1 .. m : L[i].file # f
  PROVE  After(L, n, f, m) = After(L, n, f, k)
<1>1. CASE NoItem(L, f, k)
  <2>1. NoItem(L, f, m)
    BY <1>1 DEF NoItem
  <2> QED
    BY <1>1, <2>1, AfterNone
<1>2. ASSUME NEW i, IsLast(L, f, k, i) PROVE After(L, n, f, m) = After(L, n, f, k)
  <2>1. IsLast(L, f, m, i)
    BY <1>2 DEF IsLast
  <2> QED
    BY <1>2, <2>1, AfterLast
<1>3. NoItem(L, f, k) \/ \E i : IsLast(L, f, k, i)
  BY LastItem
<1> QED
  BY <1>1, <1>2, <1>3

\* The writes to f behind the place p are gone, a deletion of f ends the line.
Cleared(L, K, f, p) ==
    /\ p \in 0 .. Len(L) /\ p < Len(K) /\ Prefix(L, K, f, p)
    /\ \A j \in p + 1 .. Len(K) - 1 : K[j].file # f
    /\ K[Len(K)].file = f /\ K[Len(K)].op = "delete"
    /\ \A j \in p + 1 .. Len(L) : L[j].file = f => L[j].op = "write" /\ L[j].base.len >= 0

LEMMA LineDelete ==
  ASSUME NEW L, NEW K, NEW f, Len(L) \in Nat, Len(K) \in Nat, NEW p, Cleared(L, K, f, p),
         NEW F, NEW n, NEW cel, NEW size, size >= 0, NEW ok,
         LineFor(L, F, n, cel, f, size, ok, TRUE),
         NEW F2, NEW ok2, \A c \in Cells : 0 \in ok2[c], NEW size2, size2 = -1
  PROVE  LineFor(K, F2, n, cel, f, size2, ok2, TRUE)
<1> DEFINE m == Len(K)
<1>0. /\ p \in 0 .. Len(L) /\ p < Len(K) /\ Prefix(L, K, f, p)
      /\ \A j \in p + 1 .. Len(K) - 1 : K[j].file # f
      /\ K[Len(K)].file = f /\ K[Len(K)].op = "delete"
      /\ \A j \in p + 1 .. Len(L) : L[j].file = f => L[j].op = "write" /\ L[j].base.len >= 0
  BY DEF Cleared
<1> USE <1>0
<1>1. After(L, n, f, p) >= 0
  <2>1. CASE \A j \in p + 1 .. Len(L) : L[j].file # f
    <3>1. After(L, n, f, Len(L)) = After(L, n, f, p)
      BY <2>1, AfterMore
    <3> QED
      BY <3>1 DEF LineFor
  <2>2. CASE \E j \in p + 1 .. Len(L) : L[j].file = f
    <3> DEFINE T == {j \in p + 1 .. Len(L) : L[j].file = f}
    <3>1. T # {} /\ T \subseteq Nat
      BY <2>2
    <3>2. PICK j \in T : \A k \in T : j <= k
      BY <3>1, Least
    <3>3. PICK k \in Nat : k = j - 1
      BY <3>2
    <3>4. p <= k /\ \A i \in p + 1 .. k : L[i].file # f
      BY <3>2, <3>3
    <3>5. After(L, n, f, k) = After(L, n, f, p)
      BY <3>4, AfterMore
    <3>6. j \in 1 .. Len(L) /\ L[j].file = f /\ L[j].op = "write" /\ L[j].base.len >= 0
      BY <3>2
    <3>7. Runs(L[j], After(L, n, f, k))
      BY <3>3, <3>6 DEF LineFor
    <3>8. After(L, n, f, k) = L[j].base.len
      BY <3>6, <3>7 DEF Runs
    <3> QED
      BY <3>5, <3>6, <3>8
  <2> QED
    BY <2>1, <2>2
<1>2. PICK k \in Nat : k = m - 1 /\ p <= k
  OBVIOUS
<1>3. After(K, n, f, k) >= 0
  <2>1. After(L, n, f, p) = After(K, n, f, p)
    BY PrefixAfter
  <2>2. After(K, n, f, k) = After(K, n, f, p)
    BY <1>2, AfterMore
  <2> QED
    BY <1>1, <2>1, <2>2
<1>4. ASSUME NEW j \in 1 .. m, K[j].file = f PROVE Runs(K[j], After(K, n, f, j - 1))
  <2>1. CASE j = m
    BY <1>2, <1>3, <2>1 DEF Runs
  <2>2. CASE j # m
    <3>1. j \in 1 .. p
      BY <1>4, <2>2
    <3>2. \A i \in 1 .. p : L[i].file = f => Runs(L[i], After(L, n, f, i - 1))
      BY DEF LineFor
    <3>3. p \in Nat
      OBVIOUS
    <3> QED
      BY <1>4, <3>1, <3>2, <3>3, PrefixRuns
  <2> QED
    BY <2>1, <2>2
<1>5. -1 = After(K, n, f, m)
  <2>1. IsLast(K, f, m, m)
    BY DEF IsLast
  <2>2. Leaves(K[m]) = -1
    BY DEF Leaves
  <2> QED
    BY <2>1, <2>2, AfterLast
<1>6. ASSUME NEW i \in 0 .. m - 1, NEW c \in Cells PROVE Later(K, i, f, c)
  <2>1. m \in i + 1 .. Len(K) /\ Decides(K[m], c)
    BY DEF Decides
  <2> QED
    BY <2>1 DEF Later
<1>7. ASSUME NEW c \in Cells PROVE Later(K, 0, f, c)
  BY <1>6
<1>8. ASSUME NEW c \in Cells, NEW i \in 1 .. m, ~Later(K, i, f, c)
      PROVE  Shown(K[i], F2, c) \in ok2[c]
  <2>1. i = m
    BY <1>6, <1>8
  <2> QED
    BY <2>1 DEF Shown
<1> QED
  BY <1>4, <1>5, <1>7, <1>8 DEF LineFor

\* The creation of f at p and all of f behind it are gone.
Forgotten(L, K, f, p) ==
    /\ p \in 1 .. Len(L) /\ p - 1 <= Len(K) /\ Prefix(L, K, f, p - 1)
    /\ \A j \in p .. Len(K) : K[j].file # f
    /\ L[p].file = f /\ L[p].op = "create"
    /\ \A i \in 1 .. p - 1 : Leaves(L[i]) = -1 => L[i].op = "delete"

LEMMA LineForget ==
  ASSUME NEW L, NEW K, NEW f, Len(L) \in Nat, Len(K) \in Nat, NEW p, Forgotten(L, K, f, p),
         NEW F, NEW n, NEW cel, NEW size, NEW ok,
         LineFor(L, F, n, cel, f, size, ok, TRUE),
         \A c \in Cells : n = -1 => cel[c] = 0,
         NEW F2, NEW ok2, \A c \in Cells : 0 \in ok2[c], NEW size2, size2 = -1
  PROVE  LineFor(K, F2, n, cel, f, size2, ok2, TRUE)
<1>0. /\ p \in 1 .. Len(L) /\ p - 1 <= Len(K) /\ Prefix(L, K, f, p - 1)
      /\ \A j \in p .. Len(K) : K[j].file # f
      /\ L[p].file = f /\ L[p].op = "create"
      /\ \A i \in 1 .. p - 1 : Leaves(L[i]) = -1 => L[i].op = "delete"
  BY DEF Forgotten
<1> USE <1>0
<1>1. PICK k \in Nat : k = p - 1
  OBVIOUS
<1>2. After(L, n, f, k) = -1
  <2>1. Runs(L[p], After(L, n, f, k))
    BY <1>1 DEF LineFor
  <2> QED
    BY <2>1 DEF Runs
<1>3. After(K, n, f, k) = -1
  BY <1>1, <1>2, PrefixAfter
<1>4. After(K, n, f, Len(K)) = -1
  <2>1. \A j \in k + 1 .. Len(K) : K[j].file # f
    BY <1>1
  <2>2. k <= Len(K)
    BY <1>1
  <2>3. After(K, n, f, Len(K)) = After(K, n, f, k)
    BY <2>1, <2>2, AfterMore
  <2> QED
    BY <1>3, <2>3
<1>5. ASSUME NEW j \in 1 .. Len(K), K[j].file = f PROVE Runs(K[j], After(K, n, f, j - 1))
  <2>1. j \in 1 .. k
    BY <1>1, <1>5
  <2>2. \A i \in 1 .. k : i \in 1 .. Len(L)
    BY <1>1
  <2>3. \A i \in 1 .. k : L[i].file = f => Runs(L[i], After(L, n, f, i - 1))
    BY <2>2 DEF LineFor
  <2>4. Prefix(L, K, f, k)
    BY <1>1
  <2> QED
    BY <1>5, <2>1, <2>3, <2>4, PrefixRuns
<1>6. CASE NoItem(L, f, k)
  <2>1. n = -1
    BY <1>2, <1>6, AfterNone
  <2>2. ASSUME NEW j \in 1 .. Len(K) PROVE K[j].file # f
    BY <1>1, <1>6 DEF NoItem, Prefix
  <2> QED
    BY <1>4, <1>5, <2>1, <2>2 DEF LineFor
<1>7. ASSUME NEW i, IsLast(L, f, k, i) PROVE LineFor(K, F2, n, cel, f, size2, ok2, TRUE)
  <2>1. i \in 1 .. k /\ L[i].file = f /\ \A j \in i + 1 .. k : L[j].file # f
    BY <1>7 DEF IsLast
  <2>2. Leaves(L[i]) = -1
    BY <1>2, <1>7, AfterLast
  <2>3. L[i].op = "delete"
    BY <1>1, <2>1, <2>2
  <2>4. i \in 1 .. Len(K) /\ K[i].op = "delete" /\ K[i].file = f
    BY <1>1, <2>1, <2>3 DEF Prefix, Alike
  <2>5. ASSUME NEW j \in i + 1 .. Len(K) PROVE K[j].file # f
    <3>1. CASE j \in i + 1 .. k
      BY <1>1, <2>1, <3>1 DEF Prefix
    <3>2. CASE j \notin i + 1 .. k
      <4>1. j \in p .. Len(K)
        BY <1>1, <2>1, <3>2
      <4> QED
        BY <4>1
    <3> QED
      BY <3>1, <3>2
  <2>6. ASSUME NEW j \in 0 .. i - 1, NEW c \in Cells PROVE Later(K, j, f, c)
    <3>1. i \in j + 1 .. Len(K) /\ Decides(K[i], c)
      BY <2>1, <2>4 DEF Decides
    <3> QED
      BY <2>4, <3>1 DEF Later
  <2>7. ASSUME NEW c \in Cells PROVE Later(K, 0, f, c)
    <3>1. 0 \in 0 .. i - 1
      BY <2>1
    <3> QED
      BY <2>6, <3>1
  <2>8. ASSUME NEW c \in Cells, NEW j \in 1 .. Len(K), K[j].file = f, ~Later(K, j, f, c)
        PROVE  Shown(K[j], F2, c) \in ok2[c]
    <3>1. j = i
      <4>1. ~(j \in i + 1 .. Len(K))
        BY <2>5, <2>8
      <4>2. ~(j \in 0 .. i - 1)
        BY <2>6, <2>8
      <4> QED
        BY <2>1, <4>1, <4>2
    <3> QED
      BY <2>4, <3>1 DEF Shown
  <2> QED
    BY <1>4, <1>5, <2>7, <2>8 DEF LineFor
<1>8. NoItem(L, f, k) \/ \E i : IsLast(L, f, k, i)
  BY LastItem
<1> QED
  BY <1>6, <1>7, <1>8

-----------------------------------------------------------------------------
(* Blocks and lengths.                                                     *)

LEMMA Constants ==
  /\ BlockSize \in Nat /\ BlockSize > 0 /\ MinCap \in Nat /\ MaxOps \in Nat
  /\ MaxLen \in Nat /\ BlockSize <= MaxLen /\ Cells \subseteq Nat
  /\ \A c \in Cells : c < MaxLen
BY BlockAssumption DEF Cells

LEMMA Times ==
  ASSUME NEW a \in Nat, NEW b \in Nat, NEW m \in Nat, a <= b
  PROVE  m * a <= m * b
<1>1. PICK d \in Nat : b = a + d
  OBVIOUS
<1>2. m * b = m * a + m * d /\ m * d \in Nat
  BY <1>1
<1>3. m * a \in Nat /\ m * b \in Nat
  OBVIOUS
<1> QED
  BY <1>2, <1>3

LEMMA TimesNext ==
  ASSUME NEW a \in Nat, NEW b \in Nat, NEW m \in Nat, a < b
  PROVE  m * a \in Nat /\ m * b \in Nat /\ m * a + m <= m * b
<1>1. a + 1 \in Nat /\ a + 1 <= b
  OBVIOUS
<1>2. m * (a + 1) <= m * b
  BY <1>1, Times
<1>3. m * (a + 1) = m * a + m
  OBVIOUS
<1>4. m * a \in Nat /\ m * b \in Nat
  OBVIOUS
<1> QED
  BY <1>2, <1>3, <1>4

LEMMA Dividing ==
  ASSUME NEW m \in Nat, m > 0, NEW c \in Nat
  PROVE  /\ c \div m \in Nat /\ m * (c \div m) \in Nat
         /\ m * (c \div m) <= c /\ c < m * (c \div m) + m
         /\ c % m = 0 => c = m * (c \div m)
<1>1. c \div m \in Nat
  OBVIOUS
<1>2. m * (c \div m) <= c /\ c < m * (c \div m) + m
  OBVIOUS
<1>3. c % m = 0 => m * (c \div m) = c
  OBVIOUS
<1>4. m * (c \div m) \in Nat
  BY <1>1
<1> QED
  BY <1>1, <1>2, <1>3, <1>4

LEMMA BlockIs ==
  ASSUME NEW c \in Nat
  PROVE  /\ Block(c) \in Nat /\ BlockSize * Block(c) \in Nat
         /\ BlockSize * Block(c) <= c /\ c < BlockSize * Block(c) + BlockSize
         /\ c % BlockSize = 0 => c = BlockSize * Block(c)
BY Constants, Dividing DEF Block

\* The cells from a border of blocks on are those of the blocks from there.
LEMMA BlockOrder ==
  ASSUME NEW c \in Nat, NEW n \in Nat, n % BlockSize = 0
  PROVE  c >= n <=> Block(c) >= Block(n)
<1> DEFINE x == BlockSize * Block(c)
           y == BlockSize * Block(n)
<1>1. n = y /\ Block(n) \in Nat /\ y \in Nat
  BY BlockIs
<1>2. Block(c) \in Nat /\ x \in Nat /\ x <= c /\ c < x + BlockSize
  BY BlockIs
<1>3. BlockSize \in Nat /\ BlockSize > 0
  BY Constants
<1>4. Block(c) >= Block(n) => y <= x
  BY <1>1, <1>2, <1>3, Times
<1>5. Block(c) < Block(n) => x + BlockSize <= y
  BY <1>1, <1>2, <1>3, TimesNext
<1> HIDE DEF x, y
<1> QED
  BY <1>1, <1>2, <1>3, <1>4, <1>5

LEMMA WholeIs ==
  ASSUME NEW w \in Whole
  PROVE  /\ w.at \in Nat /\ w.len = BlockSize /\ w.at + w.len <= MaxLen
         /\ \A c, d \in Nat : d \in w.at .. w.at + w.len - 1 /\ Block(c) = Block(d)
                              => c \in w.at .. w.at + w.len - 1
<1>1. PICK b \in 0 .. (MaxLen \div BlockSize) - 1 : w = [at |-> b * BlockSize, len |-> BlockSize]
  BY DEF Whole
<1>2. BlockSize \in Nat /\ BlockSize > 0 /\ MaxLen \in Nat
  BY Constants
<1> DEFINE top == BlockSize * Block(MaxLen)
           at == BlockSize * b
<1>3. Block(MaxLen) \in Nat /\ top \in Nat /\ top <= MaxLen
  BY <1>2, BlockIs
<1>4. b \in Nat /\ b < Block(MaxLen)
  BY <1>3 DEF Block
<1>5. w.at = at /\ w.len = BlockSize /\ at \in Nat
  BY <1>1, <1>2, <1>4
<1>6. at + BlockSize <= top
  BY <1>2, <1>3, <1>4, TimesNext
<1>7. ASSUME NEW c \in Nat, NEW d \in Nat, d \in w.at .. w.at + w.len - 1, Block(c) = Block(d)
      PROVE  c \in w.at .. w.at + w.len - 1
  <2> DEFINE x == BlockSize * Block(c)
  <2>1. /\ Block(c) \in Nat /\ x \in Nat /\ x <= c /\ c < x + BlockSize
        /\ x <= d /\ d < x + BlockSize
    BY <1>7, BlockIs
  <2>2. at <= d /\ d < at + BlockSize
    <3> HIDE DEF at
    <3> QED
      BY <1>2, <1>5, <1>7
  <2>3. ~(Block(c) < b)
    <3>1. Block(c) < b => x + BlockSize <= at
      BY <1>2, <1>4, <2>1, TimesNext
    <3> HIDE DEF x, at
    <3> QED
      BY <1>2, <1>5, <2>1, <2>2, <3>1
  <2>4. ~(b < Block(c))
    <3>1. b < Block(c) => at + BlockSize <= x
      BY <1>2, <1>4, <2>1, TimesNext
    <3> HIDE DEF x, at
    <3> QED
      BY <1>2, <1>5, <2>1, <2>2, <3>1
  <2>5. x = at
    <3>1. Block(c) = b
      BY <1>4, <2>1, <2>3, <2>4
    <3> QED
      BY <3>1
  <2> HIDE DEF x, at
  <2> QED
    BY <1>2, <1>5, <2>1, <2>5
<1> HIDE DEF top, at
<1> QED
  BY <1>2, <1>3, <1>5, <1>6, <1>7

-----------------------------------------------------------------------------
(* Items.                                                                  *)

LEMMA ItemShape ==
  ASSUME NEW x \in Item
  PROVE  /\ x.op \in Op /\ x.file \in File
         /\ x.op = "truncate" => x \in Cuts /\ x.len \in 0 .. MaxLen /\ x.len % BlockSize = 0
         /\ x.op = "write" => x \in WriteShape /\ WholeBlocks(x)
<1>1. CASE x \in Marks
  BY <1>1 DEF Marks, Op
<1>2. CASE x \in Cuts
  BY <1>2 DEF Cuts, Op, Lengths
<1>3. CASE x \in Writes
  BY <1>3 DEF Writes, WriteShape, Op
<1> QED
  BY <1>1, <1>2, <1>3 DEF Item

LEMMA ShapeParts ==
  ASSUME NEW x \in WriteShape
  PROVE  /\ x.file \in File /\ x.op = "write" /\ x.base \in View /\ x.writes \in Seq(Piece)
         /\ x.base.len \in 0 .. MaxLen /\ x.base.data \in Seq(Nat) /\ Len(x.base.data) <= x.base.len
         /\ Len(x.base.data) \in Nat /\ x.base.live \in BOOLEAN
         /\ DOMAIN x.writes = 1 .. Len(x.writes) /\ Len(x.writes) \in Nat
         /\ \A i \in DOMAIN x.writes :
              /\ x.writes[i] \in Piece
              /\ x.writes[i].at \in 0 .. MaxLen /\ x.writes[i].len \in 0 .. MaxLen
              /\ x.writes[i].val \in Nat /\ x.writes[i].at + x.writes[i].len <= MaxLen
<1>1. x.file \in File /\ x.op = "write" /\ x.base \in View /\ x.writes \in Seq(Piece)
  BY DEF WriteShape
<1>2. x.base.len \in 0 .. MaxLen /\ x.base.data \in Text /\ Len(x.base.data) <= x.base.len
      /\ x.base.live \in BOOLEAN
  BY <1>1 DEF View
<1>3. x.base.data \in Seq(Nat) /\ Len(x.base.data) \in Nat
  BY <1>2 DEF Text
<1>4. DOMAIN x.writes = 1 .. Len(x.writes) /\ Len(x.writes) \in Nat
      /\ \A i \in DOMAIN x.writes : x.writes[i] \in Piece
  BY <1>1
<1> QED
  BY <1>1, <1>2, <1>3, <1>4 DEF Piece

LEMMA PaddedIs ==
  ASSUME NEW d \in Seq(Nat), NEW n \in Nat
  PROVE  /\ Padded(d, n) \in Seq(Nat) /\ Len(Padded(d, n)) = n
         /\ \A i \in 1 .. n : Padded(d, n)[i] = IF i <= Len(d) THEN d[i] ELSE 0
<1>1. Zeros(n) \in Seq(Nat) /\ Len(Zeros(n)) = n /\ \A i \in 1 .. n : Zeros(n)[i] = 0
  BY DEF Zeros
<1> DEFINE e == d \o Zeros(n)
<1>2. e \in Seq(Nat) /\ Len(e) = Len(d) + n /\ Len(d) \in Nat
      /\ \A i \in 1 .. Len(e) : e[i] = IF i <= Len(d) THEN d[i] ELSE Zeros(n)[i - Len(d)]
  BY <1>1
<1> HIDE DEF e
<1>3. SubSeq(e, 1, n) \in Seq(Nat) /\ Len(SubSeq(e, 1, n)) = n
      /\ \A i \in 1 .. n : SubSeq(e, 1, n)[i] = e[i]
  BY <1>2
<1>4. Padded(d, n) = SubSeq(e, 1, n)
  BY DEF Padded, e
<1>5. ASSUME NEW i \in 1 .. n PROVE e[i] = IF i <= Len(d) THEN d[i] ELSE 0
  BY <1>1, <1>2
<1> QED
  BY <1>3, <1>4, <1>5

\* A bound that is reached is the greatest element.
LEMMA MaxIs ==
  ASSUME NEW T, T \subseteq Int, NEW m \in T, \A k \in T : k <= m
  PROVE  Max(T) = m
<1>1. \E x \in T : \A y \in T : x >= y
  OBVIOUS
<1>2. Max(T) \in T /\ \A y \in T : Max(T) >= y
  BY <1>1 DEF Max
<1>3. Max(T) \in Int /\ Max(T) <= m /\ Max(T) >= m
  BY <1>2
<1> QED
  BY <1>3

\* m is how long the file is after the writes of x.
Ends(x, m) ==
    /\ x.base.len <= m /\ \A i \in DOMAIN x.writes : x.writes[i].at + x.writes[i].len <= m
    /\ x.base.len = m \/ \E i \in DOMAIN x.writes : x.writes[i].at + x.writes[i].len = m

LEMMA LenWrittenIs ==
  ASSUME NEW x \in WriteShape
  PROVE  /\ LenWritten(x) \in 0 .. MaxLen /\ Ends(x, LenWritten(x))
         /\ \A m \in Nat : Ends(x, m) => m = LenWritten(x)
<1> DEFINE T == {x.base.len} \cup {w.at + w.len : w \in ToSet(x.writes)}
<1>0. MaxLen \in Nat
  BY Constants
<1>1. LenWritten(x) = Max(T)
  BY DEF LenWritten
<1>2. \A k : k \in T <=> k = x.base.len \/ \E i \in DOMAIN x.writes : k = x.writes[i].at + x.writes[i].len
  BY DEF ToSet
<1>3. T \subseteq 0 .. MaxLen /\ T # {}
  <2>1. x.base.len \in 0 .. MaxLen
    BY ShapeParts
  <2>2. \A i \in DOMAIN x.writes : x.writes[i].at + x.writes[i].len \in 0 .. MaxLen
    BY <1>0, ShapeParts
  <2> QED
    BY <1>2, <2>1, <2>2
<1> HIDE DEF T
<1>4. Max(T) \in T /\ \A k \in T : k <= Max(T)
  BY <1>0, <1>3, Greatest
<1>5. Ends(x, Max(T))
  BY <1>2, <1>4 DEF Ends
<1>6. ASSUME NEW m \in Nat, Ends(x, m) PROVE m = Max(T)
  <2>1. m \in T /\ \A k \in T : k <= m
    BY <1>2, <1>6 DEF Ends
  <2>2. T \subseteq Int
    BY <1>3
  <2> QED
    BY <2>1, <2>2, MaxIs
<1> QED
  BY <1>1, <1>3, <1>4, <1>5, <1>6

\* The last write of x over the cell c.
Tops(x, c, k) ==
    /\ k \in DOMAIN x.writes /\ Covers(x.writes[k], c)
    /\ \A i \in DOMAIN x.writes : Covers(x.writes[i], c) => i <= k

LEMMA CellWrittenIs ==
  ASSUME NEW x \in WriteShape, NEW c \in Cells
  PROVE  /\ Covered(x, c) => \E k : Tops(x, c, k)
         /\ \A k : Tops(x, c, k) => CellWritten(x, c) = x.writes[k].val
         /\ ~Covered(x, c) => CellWritten(x, c) = IF c < Len(x.base.data) THEN x.base.data[c + 1] ELSE 0
         /\ CellWritten(x, c) \in Nat
<1> DEFINE T == {i \in DOMAIN x.writes : Covers(x.writes[i], c)}
<1>1. /\ DOMAIN x.writes = 1 .. Len(x.writes) /\ Len(x.writes) \in Nat
      /\ \A i \in DOMAIN x.writes : x.writes[i].val \in Nat
      /\ x.base.data \in Seq(Nat) /\ Len(x.base.data) \in Nat
  BY ShapeParts
<1>2. Covered(x, c) <=> T # {}
  BY DEF Covered
<1>3. ASSUME Covered(x, c) PROVE \E k : Tops(x, c, k)
  <2>1. T \subseteq 0 .. Len(x.writes)
    BY <1>1
  <2>2. Max(T) \in T /\ \A k \in T : k <= Max(T)
    BY <1>1, <1>2, <1>3, <2>1, Greatest
  <2> QED
    BY <2>2 DEF Tops
<1>4. ASSUME NEW k, Tops(x, c, k) PROVE CellWritten(x, c) = x.writes[k].val
  <2>1. k \in T /\ (\A i \in T : i <= k) /\ T \subseteq Int
    BY <1>1, <1>4 DEF Tops
  <2>2. Max(T) = k /\ T # {}
    BY <2>1, MaxIs
  <2> QED
    BY <2>2 DEF CellWritten
<1>5. ASSUME ~Covered(x, c)
      PROVE  CellWritten(x, c) = IF c < Len(x.base.data) THEN x.base.data[c + 1] ELSE 0
  <2>1. c \in Nat /\ MaxLen \in Nat /\ c + 1 \in 1 .. MaxLen
    BY Constants
  <2>2. Padded(x.base.data, MaxLen)[c + 1] = IF c + 1 <= Len(x.base.data) THEN x.base.data[c + 1] ELSE 0
    BY <1>1, <2>1, PaddedIs
  <2>3. CellWritten(x, c) = Padded(x.base.data, MaxLen)[c + 1]
    BY <1>2, <1>5 DEF CellWritten
  <2> QED
    BY <1>1, <2>1, <2>2, <2>3
<1>6. CellWritten(x, c) \in Nat
  <2>1. CASE Covered(x, c)
    <3>1. PICK k : Tops(x, c, k)
      BY <1>3, <2>1
    <3> QED
      BY <1>1, <1>4, <3>1 DEF Tops
  <2>2. CASE ~Covered(x, c)
    <3>1. c < Len(x.base.data) => c + 1 \in 1 .. Len(x.base.data)
      BY <1>1, Constants
    <3> QED
      BY <1>1, <1>5, <2>2, <3>1
  <2> QED
    BY <2>1, <2>2
<1> QED
  BY <1>3, <1>4, <1>5, <1>6

LEMMA CoveredTouched ==
  ASSUME NEW x \in WriteShape, NEW c \in Cells, Covered(x, c)
  PROVE  Block(c) \in Touched(x) /\ c < LenWritten(x)
<1>1. PICK i \in DOMAIN x.writes : Covers(x.writes[i], c)
  BY DEF Covered
<1>2. x.writes[i] \in ToSet(x.writes)
  BY DEF ToSet
<1>3. Block(c) \in Touched(x)
  BY <1>1, <1>2 DEF Touched
<1>4. x.writes[i].at + x.writes[i].len <= LenWritten(x) /\ LenWritten(x) \in Nat
  BY LenWrittenIs DEF Ends
<1>5. c <= x.writes[i].at + x.writes[i].len - 1 /\ x.writes[i].at \in Nat /\ x.writes[i].len \in Nat /\ c \in Nat
  BY <1>1, ShapeParts, Constants DEF Covers
<1> QED
  BY <1>3, <1>4, <1>5

\* What is shown of an item beyond the length it leaves is zero.
LEMMA ShownBeyond ==
  ASSUME NEW x \in WriteShape, NEW c \in Cells, c >= LenWritten(x)
  PROVE  CellWritten(x, c) = 0
<1>1. LenWritten(x) \in Nat /\ x.base.len <= LenWritten(x) /\ c \in Nat
  BY LenWrittenIs, Constants DEF Ends
<1>2. ~Covered(x, c)
  BY <1>1, CoveredTouched
<1>3. ~(c < Len(x.base.data))
  BY <1>1, ShapeParts
<1> QED
  BY <1>2, <1>3, CellWrittenIs

LEMMA ShownWritten ==
  ASSUME NEW x \in WriteShape, ~x.base.live, NEW F, NEW c \in Cells
  PROVE  Shown(x, F, c) = CellWritten(x, c)
<1>1. x.op = "write"
  BY ShapeParts
<1> QED
  BY <1>1, CellWrittenIs DEF Shown, Viewed

LEMMA LeavesIs ==
  ASSUME NEW x \in Item
  PROVE  /\ Leaves(x) \in -1 .. MaxLen
         /\ Leaves(x) = -1 <=> x.op = "delete"
<1>1. x.op = "write" => LenWritten(x) \in 0 .. MaxLen
  BY ItemShape, LenWrittenIs
<1>2. x.op = "truncate" => x.len \in 0 .. MaxLen
  BY ItemShape
<1>3. x.op \in Op
  BY ItemShape
<1>4. MaxLen \in Nat
  BY Constants
<1> QED
  BY <1>1, <1>2, <1>3, <1>4 DEF Leaves, Op

\* An item that decides a cell tells it.
LEMMA DecidesTells ==
  ASSUME NEW x, NEW c, Decides(x, c)
  PROVE  Tells(x, c)
BY DEF Decides, Tells

-----------------------------------------------------------------------------
(* The object stores.                                                      *)

Row == [name : File, len : 0 .. MaxLen, cells : [Cells -> Nat]]
Tables == UNION {[D -> Row] : D \in SUBSET Nat}
Db == {b \in [next : Nat, rows : Tables] :
         /\ \A i \in DOMAIN b.rows : i < b.next
         /\ \A i, j \in DOMAIN b.rows : b.rows[i].name = b.rows[j].name => i = j}

\* The length of a file, -1 without a row; a cell, zero without a row.
Extent(b, f) == IF f \in Names(b) THEN b.rows[IdIn(b, f)].len ELSE -1
CellIn(b, f, c) == IF f \in Names(b) THEN b.rows[IdIn(b, f)].cells[c] ELSE 0

\* Behind the end of a file there are zeros.
Zero(b) == \A i \in DOMAIN b.rows : \A c \in Cells : c >= b.rows[i].len => b.rows[i].cells[c] = 0

LEMMA SequenceIs ==
  ASSUME NEW S, NEW n \in Nat, NEW q \in [1 .. n -> S]
  PROVE  q \in Seq(S) /\ Len(q) = n
OBVIOUS

LEMMA ConcatIs ==
  ASSUME NEW S, NEW p \in Seq(S), NEW q \in Seq(S)
  PROVE  /\ p \o q \in Seq(S) /\ Len(p \o q) = Len(p) + Len(q)
         /\ DOMAIN (p \o q) = 1 .. Len(p) + Len(q)
         /\ \A i \in 1 .. Len(p) : (p \o q)[i] = p[i]
         /\ \A i \in 1 .. Len(q) : (p \o q)[Len(p) + i] = q[i]
<1>1. Len(p) \in Nat /\ Len(q) \in Nat
  OBVIOUS
<1>2. /\ p \o q \in Seq(S) /\ Len(p \o q) = Len(p) + Len(q)
      /\ DOMAIN (p \o q) = 1 .. Len(p) + Len(q)
  OBVIOUS
<1>3. \A i \in 1 .. Len(p) : (p \o q)[i] = p[i]
  OBVIOUS
<1>4. ASSUME NEW i \in 1 .. Len(q) PROVE (p \o q)[Len(p) + i] = q[i]
  <2>1. Len(p) + i \in 1 .. Len(p) + Len(q) /\ ~(Len(p) + i <= Len(p)) /\ (Len(p) + i) - Len(p) = i
    BY <1>1
  <2> QED
    BY <1>1, <2>1
<1> QED
  BY <1>2, <1>3, <1>4

LEMMA TablesAre ==
  /\ \A r : r \in Tables => /\ DOMAIN r \subseteq Nat /\ r = [i \in DOMAIN r |-> r[i]]
                            /\ \A i \in DOMAIN r : r[i] \in Row
  /\ \A D \in SUBSET Nat : \A r \in [D -> Row] : r \in Tables
BY DEF Tables

LEMMA DbIs ==
  ASSUME NEW b \in Db
  PROVE  /\ b.next \in Nat /\ b.rows \in Tables /\ DOMAIN b.rows \subseteq Nat
         /\ \A i \in DOMAIN b.rows :
              /\ i < b.next /\ b.rows[i] \in Row /\ b.rows[i].name \in File
              /\ b.rows[i].len \in 0 .. MaxLen /\ b.rows[i].cells \in [Cells -> Nat]
         /\ \A i, j \in DOMAIN b.rows : b.rows[i].name = b.rows[j].name => i = j
<1>1. b.next \in Nat /\ b.rows \in Tables
      /\ (\A i \in DOMAIN b.rows : i < b.next)
      /\ \A i, j \in DOMAIN b.rows : b.rows[i].name = b.rows[j].name => i = j
  BY DEF Db
<1>2. DOMAIN b.rows \subseteq Nat /\ \A i \in DOMAIN b.rows : b.rows[i] \in Row
  BY <1>1, TablesAre
<1> QED
  BY <1>1, <1>2 DEF Row

\* i is the row of f.
Of(b, f, i) == i \in DOMAIN b.rows /\ b.rows[i].name = f

LEMMA OfIs ==
  ASSUME NEW b \in Db, NEW f
  PROVE  /\ f \in Names(b) <=> \E i : Of(b, f, i)
         /\ f \in Names(b) => Of(b, f, IdIn(b, f))
         /\ f \notin Names(b) => Extent(b, f) = -1 /\ \A c : CellIn(b, f, c) = 0
         /\ \A i : Of(b, f, i) => /\ f \in Names(b) /\ IdIn(b, f) = i
                                  /\ Extent(b, f) = b.rows[i].len
                                  /\ \A c : CellIn(b, f, c) = b.rows[i].cells[c]
<1>1. f \in Names(b) <=> \E i : Of(b, f, i)
  BY DEF Names, Of
<1>2. f \in Names(b) => Of(b, f, IdIn(b, f))
  BY <1>1 DEF IdIn, Of
<1>3. f \notin Names(b) => Extent(b, f) = -1 /\ \A c : CellIn(b, f, c) = 0
  BY DEF Extent, CellIn
<1>4. ASSUME NEW i, Of(b, f, i)
      PROVE  /\ f \in Names(b) /\ IdIn(b, f) = i
             /\ Extent(b, f) = b.rows[i].len
             /\ \A c : CellIn(b, f, c) = b.rows[i].cells[c]
  <2>1. f \in Names(b) /\ Of(b, f, IdIn(b, f))
    BY <1>1, <1>2, <1>4
  <2>2. IdIn(b, f) = i
    BY <1>4, <2>1, DbIs DEF Of
  <2> QED
    BY <2>1, <2>2 DEF Extent, CellIn
<1> QED
  BY <1>1, <1>2, <1>3, <1>4

LEMMA ExtentIs ==
  ASSUME NEW b \in Db, NEW f
  PROVE  /\ Extent(b, f) \in -1 .. MaxLen
         /\ f \in Names(b) <=> Extent(b, f) >= 0
         /\ f \in Names(b) => f \in File
<1>1. CASE f \in Names(b)
  <2>1. PICK i : Of(b, f, i)
    BY <1>1, OfIs
  <2>2. Extent(b, f) = b.rows[i].len /\ i \in DOMAIN b.rows /\ b.rows[i].name = f
    BY <2>1, OfIs DEF Of
  <2> QED
    BY <1>1, <2>2, DbIs, Constants
<1>2. CASE f \notin Names(b)
  BY <1>2, OfIs, Constants
<1> QED
  BY <1>1, <1>2

\* The files of a store.
LEMMA OnDiskIs ==
  ASSUME NEW b \in Db
  PROVE  /\ OnDisk(b) \in [Names(b) -> Text] /\ Names(b) \subseteq File
         /\ \A f : Size(OnDisk(b), f) = Extent(b, f)
         /\ Zero(b) => \A f : \A c \in Cells : Data(OnDisk(b), f, c) = CellIn(b, f, c)
<1>1. ASSUME NEW f \in Names(b)
      PROVE  /\ OnDisk(b)[f] \in Text /\ f \in File
             /\ Len(OnDisk(b)[f]) = Extent(b, f)
             /\ \A c \in Cells : c < Extent(b, f) => OnDisk(b)[f][c + 1] = CellIn(b, f, c)
             /\ Zero(b) => \A c \in Cells : c >= Extent(b, f) => CellIn(b, f, c) = 0
  <2>1. PICK i : Of(b, f, i)
    BY OfIs
  <2>2. /\ IdIn(b, f) = i /\ i \in DOMAIN b.rows /\ b.rows[i].name = f
        /\ Extent(b, f) = b.rows[i].len /\ \A c : CellIn(b, f, c) = b.rows[i].cells[c]
    BY <2>1, OfIs DEF Of
  <2> DEFINE r == b.rows[i]
  <2>3. r.len \in 0 .. MaxLen /\ r.cells \in [Cells -> Nat] /\ r.name \in File
    BY <2>2, DbIs
  <2>4. OnDisk(b)[f] = Content(r)
    BY <2>2 DEF OnDisk
  <2>5. \A k \in 1 .. r.len : k - 1 \in Cells /\ r.cells[k - 1] \in Nat
    BY <2>3, Constants DEF Cells
  <2>6. Content(r) \in Seq(Nat) /\ Len(Content(r)) = r.len /\ \A k \in 1 .. r.len : Content(r)[k] = r.cells[k - 1]
    <3>1. r.len \in Nat /\ Content(r) = [k \in 1 .. r.len |-> r.cells[k - 1]]
      BY <2>3, Constants DEF Content
    <3> HIDE DEF r
    <3>2. Content(r) \in [1 .. r.len -> Nat]
      BY <2>5, <3>1
    <3>3. Content(r) \in Seq(Nat) /\ Len(Content(r)) = r.len
      BY <3>1, <3>2, SequenceIs
    <3> QED
      BY <3>1, <3>3
  <2>7. ASSUME NEW c \in Cells, c < r.len PROVE Content(r)[c + 1] = r.cells[c]
    <3>1. c \in Nat /\ r.len \in Nat /\ c + 1 \in 1 .. r.len /\ (c + 1) - 1 = c
      BY <2>3, <2>7, Constants
    <3> QED
      BY <2>6, <3>1
  <2>8. Zero(b) => \A c \in Cells : c >= r.len => r.cells[c] = 0
    BY <2>2 DEF Zero
  <2>9. Content(r) \in Text
    BY <2>3, <2>6 DEF Text
  <2> QED
    BY <2>2, <2>3, <2>4, <2>6, <2>7, <2>8, <2>9
<1>2. OnDisk(b) \in [Names(b) -> Text] /\ DOMAIN OnDisk(b) = Names(b)
  BY <1>1 DEF OnDisk
<1>3. \A f : Size(OnDisk(b), f) = Extent(b, f)
  BY <1>1, <1>2, OfIs DEF Size
<1>4. ASSUME Zero(b), NEW f, NEW c \in Cells PROVE Data(OnDisk(b), f, c) = CellIn(b, f, c)
  <2>1. CASE f \in Names(b)
    <3>1. Extent(b, f) \in Int /\ c \in Nat
      BY ExtentIs, Constants
    <3> QED
      BY <1>1, <1>2, <1>4, <2>1, <3>1 DEF Data
  <2>2. CASE f \notin Names(b)
    BY <1>2, <2>2, OfIs DEF Data
  <2> QED
    BY <2>1, <2>2
<1> QED
  BY <1>1, <1>2, <1>3, <1>4

\* What becomes of a store when the file f is given the length n and the cells cel.
Turned(b, b2, f, n, cel) ==
    /\ \A g : Extent(b2, g) = IF g = f THEN n ELSE Extent(b, g)
    /\ \A g : \A c \in Cells : CellIn(b2, g, c) = IF g = f THEN cel[c] ELSE CellIn(b, g, c)

EmptyRow(f) == [name |-> f, len |-> 0, cells |-> [c \in Cells |-> 0]]
Added(b, r) == [WithRow(b, b.next, r) EXCEPT !.next = @ + 1]

LEMMA RowAdded ==
  ASSUME NEW b \in Db, NEW f \in File, f \notin Names(b),
         NEW b2, b2 = Added(b, EmptyRow(f))
  PROVE  /\ b2 \in Db
         /\ Zero(b) => Zero(b2)
         /\ Turned(b, b2, f, 0, [c \in Cells |-> 0])
         /\ Of(b2, f, b.next) /\ \A i \in DOMAIN b.rows : i \in DOMAIN b2.rows /\ b2.rows[i] = b.rows[i]
<1> DEFINE n == b.next
           r == EmptyRow(f)
<1>1. /\ n \in Nat /\ n \notin DOMAIN b.rows /\ DOMAIN b.rows \subseteq Nat
      /\ \A i \in DOMAIN b.rows : i < n /\ b.rows[i] \in Row
      /\ b \in [next : Nat, rows : Tables]
  BY DbIs DEF Db
<1>2. b2 = [next |-> n + 1, rows |-> [j \in DOMAIN b.rows \cup {n} |-> IF j = n THEN r ELSE b.rows[j]]]
  BY <1>1 DEF Added, WithRow
<1>3. r \in Row /\ r.name = f /\ r.len = 0 /\ r.cells = [c \in Cells |-> 0]
  BY Constants DEF Row, EmptyRow
<1>4. /\ DOMAIN b2.rows = DOMAIN b.rows \cup {n} /\ b2.rows[n] = r /\ b2.next = n + 1
      /\ \A j \in DOMAIN b.rows : b2.rows[j] = b.rows[j]
  BY <1>1, <1>2
<1>5. b2.rows \in [DOMAIN b.rows \cup {n} -> Row] /\ DOMAIN b.rows \cup {n} \in SUBSET Nat
  BY <1>1, <1>2, <1>3
<1>6. b2 \in [next : Nat, rows : Tables]
  BY <1>1, <1>2, <1>5, TablesAre
<1>7. \A i \in DOMAIN b.rows : b.rows[i].name # f
  BY DEF Names
<1>8. b2 \in Db
  BY <1>1, <1>3, <1>4, <1>6, <1>7, DbIs DEF Db
<1>9. Of(b2, f, n)
  BY <1>3, <1>4 DEF Of
<1>10. ASSUME NEW g, g # f
       PROVE  Extent(b2, g) = Extent(b, g) /\ \A c \in Cells : CellIn(b2, g, c) = CellIn(b, g, c)
  <2>1. CASE g \in Names(b)
    <3>1. PICK i : Of(b, g, i)
      BY <2>1, OfIs
    <3>2. Of(b2, g, i)
      BY <1>4, <3>1 DEF Of
    <3>3. b2.rows[i] = b.rows[i]
      BY <1>4, <3>1 DEF Of
    <3>4. Extent(b, g) = b.rows[i].len /\ \A c : CellIn(b, g, c) = b.rows[i].cells[c]
      BY <3>1, OfIs
    <3>5. Extent(b2, g) = b2.rows[i].len /\ \A c : CellIn(b2, g, c) = b2.rows[i].cells[c]
      BY <1>8, <3>2, OfIs
    <3> QED
      BY <3>3, <3>4, <3>5
  <2>2. CASE g \notin Names(b)
    <3>1. \A i : ~Of(b, g, i)
      BY <2>2, OfIs
    <3>2. \A i : ~Of(b2, g, i)
      BY <1>3, <1>4, <1>10, <3>1 DEF Of
    <3>3. g \notin Names(b2)
      BY <1>8, <3>2, OfIs
    <3> QED
      BY <1>8, <2>2, <3>3, OfIs
  <2> QED
    BY <2>1, <2>2
<1>11. Extent(b2, f) = 0 /\ \A c \in Cells : CellIn(b2, f, c) = 0
  <2>1. Extent(b2, f) = b2.rows[n].len /\ \A c : CellIn(b2, f, c) = b2.rows[n].cells[c]
    BY <1>8, <1>9, OfIs
  <2> QED
    BY <1>3, <1>4, <2>1
<1>12. Zero(b) => Zero(b2)
  BY <1>3, <1>4 DEF Zero
<1> QED
  BY <1>4, <1>8, <1>9, <1>10, <1>11, <1>12 DEF Turned

LEMMA RowGone ==
  ASSUME NEW b \in Db, NEW i, NEW b2, b2 = WithoutRow(b, i)
  PROVE  /\ b2 \in Db
         /\ Zero(b) => Zero(b2)
         /\ \A f : Of(b, f, i) => Turned(b, b2, f, -1, [c \in Cells |-> 0])
         /\ DOMAIN b2.rows = DOMAIN b.rows \ {i} /\ \A j \in DOMAIN b2.rows : b2.rows[j] = b.rows[j]
<1>1. /\ b.next \in Nat /\ DOMAIN b.rows \subseteq Nat /\ \A j \in DOMAIN b.rows : b.rows[j] \in Row
      /\ b \in [next : Nat, rows : Tables]
  BY DbIs DEF Db
<1>2. b2 = [next |-> b.next, rows |-> [j \in DOMAIN b.rows \ {i} |-> b.rows[j]]]
  BY <1>1 DEF WithoutRow, Restrict
<1>3. /\ DOMAIN b2.rows = DOMAIN b.rows \ {i} /\ b2.next = b.next
      /\ \A j \in DOMAIN b2.rows : b2.rows[j] = b.rows[j]
  BY <1>2
<1>4. b2.rows \in [DOMAIN b.rows \ {i} -> Row] /\ DOMAIN b.rows \ {i} \in SUBSET Nat
  BY <1>1, <1>2
<1>5. b2 \in [next : Nat, rows : Tables]
  BY <1>1, <1>2, <1>4, TablesAre
<1>6. b2 \in Db
  BY <1>1, <1>3, <1>5, DbIs DEF Db
<1>7. ASSUME NEW f, Of(b, f, i) PROVE Turned(b, b2, f, -1, [c \in Cells |-> 0])
  <2>1. \A j : ~Of(b2, f, j)
    BY <1>3, <1>7, DbIs DEF Of
  <2>2. f \notin Names(b2)
    BY <1>6, <2>1, OfIs
  <2>3. Extent(b2, f) = -1 /\ \A c \in Cells : CellIn(b2, f, c) = 0
    BY <1>6, <2>2, OfIs
  <2>4. ASSUME NEW g, g # f
        PROVE  Extent(b2, g) = Extent(b, g) /\ \A c \in Cells : CellIn(b2, g, c) = CellIn(b, g, c)
    <3>1. \A j : Of(b2, g, j) <=> Of(b, g, j)
      BY <1>3, <1>7, <2>4 DEF Of
    <3>2. CASE g \in Names(b)
      <4>1. PICK j : Of(b, g, j)
        BY <3>2, OfIs
      <4>2. Of(b2, g, j) /\ b2.rows[j] = b.rows[j]
        BY <1>3, <3>1, <4>1 DEF Of
      <4> QED
        BY <1>6, <4>1, <4>2, OfIs
    <3>3. CASE g \notin Names(b)
      <4>1. g \notin Names(b2)
        BY <1>6, <3>1, <3>3, OfIs
      <4> QED
        BY <1>6, <3>3, <4>1, OfIs
    <3> QED
      BY <3>2, <3>3
  <2> QED
    BY <2>3, <2>4 DEF Turned
<1>8. Zero(b) => Zero(b2)
  BY <1>3 DEF Zero
<1> QED
  BY <1>3, <1>6, <1>7, <1>8

LEMMA RowChanged ==
  ASSUME NEW b \in Db, NEW f, NEW i, Of(b, f, i), NEW r \in Row, r.name = f,
         NEW b2, b2 = WithRow(b, i, r)
  PROVE  /\ b2 \in Db /\ Turned(b, b2, f, r.len, r.cells)
         /\ Zero(b) /\ (\A c \in Cells : c >= r.len => r.cells[c] = 0) => Zero(b2)
         /\ DOMAIN b2.rows = DOMAIN b.rows /\ \A j \in DOMAIN b.rows : b2.rows[j].name = b.rows[j].name
<1>1. /\ b.next \in Nat /\ DOMAIN b.rows \subseteq Nat /\ \A j \in DOMAIN b.rows : b.rows[j] \in Row
      /\ b \in [next : Nat, rows : Tables] /\ i \in DOMAIN b.rows /\ b.rows[i].name = f
  BY DbIs DEF Db, Of
<1>2. b2 = [next |-> b.next, rows |-> [j \in DOMAIN b.rows |-> IF j = i THEN r ELSE b.rows[j]]]
  <2>1. DOMAIN b.rows \cup {i} = DOMAIN b.rows
    BY <1>1
  <2> QED
    BY <1>1, <2>1 DEF WithRow
<1>3. /\ DOMAIN b2.rows = DOMAIN b.rows /\ b2.next = b.next /\ b2.rows[i] = r
      /\ \A j \in DOMAIN b.rows : j # i => b2.rows[j] = b.rows[j]
  BY <1>1, <1>2
<1>4. b2.rows \in [DOMAIN b.rows -> Row]
  BY <1>1, <1>2
<1>5. b2 \in [next : Nat, rows : Tables]
  BY <1>1, <1>2, <1>4, TablesAre
<1>6. \A j \in DOMAIN b.rows : b2.rows[j].name = b.rows[j].name
  BY <1>1, <1>3
<1>7. b2 \in Db
  BY <1>1, <1>3, <1>5, <1>6, DbIs DEF Db
<1>8. \A g, j : Of(b2, g, j) <=> Of(b, g, j)
  BY <1>3, <1>6 DEF Of
<1>9. Extent(b2, f) = r.len /\ \A c \in Cells : CellIn(b2, f, c) = r.cells[c]
  BY <1>3, <1>7, <1>8, OfIs
<1>10. ASSUME NEW g, g # f
       PROVE  Extent(b2, g) = Extent(b, g) /\ \A c \in Cells : CellIn(b2, g, c) = CellIn(b, g, c)
  <2>1. CASE g \in Names(b)
    <3>1. PICK j : Of(b, g, j)
      BY <2>1, OfIs
    <3>2. Of(b2, g, j) /\ b2.rows[j] = b.rows[j]
      BY <1>1, <1>3, <1>8, <1>10, <3>1 DEF Of
    <3> QED
      BY <1>7, <3>1, <3>2, OfIs
  <2>2. CASE g \notin Names(b)
    <3>1. g \notin Names(b2)
      BY <1>7, <1>8, <2>2, OfIs
    <3> QED
      BY <1>7, <2>2, <3>1, OfIs
  <2> QED
    BY <2>1, <2>2
<1>11. Zero(b) /\ (\A c \in Cells : c >= r.len => r.cells[c] = 0) => Zero(b2)
  BY <1>3 DEF Zero
<1> QED
  BY <1>3, <1>6, <1>7, <1>9, <1>10, <1>11 DEF Turned

-----------------------------------------------------------------------------
(* What the items do to the rows.                                          *)

LEMMA RowIs ==
  ASSUME NEW r \in Row
  PROVE  /\ r.name \in File /\ r.len \in 0 .. MaxLen /\ r.cells \in [Cells -> Nat]
         /\ r = [name |-> r.name, len |-> r.len, cells |-> r.cells]
BY DEF Row

LEMMA RowMade ==
  ASSUME NEW f \in File, NEW n \in 0 .. MaxLen, NEW cel \in [Cells -> Nat],
         NEW q, q = [name |-> f, len |-> n, cells |-> cel]
  PROVE  q \in Row /\ q.name = f /\ q.len = n /\ q.cells = cel
BY DEF Row

LEMMA RowWrittenIs ==
  ASSUME NEW r \in Row, NEW x \in WriteShape
  PROVE  /\ RowWritten(r, x) \in Row /\ RowWritten(r, x).name = r.name
         /\ RowWritten(r, x).len = LenWritten(x)
         /\ \A c \in Cells : RowWritten(r, x).cells[c]
                               = IF Block(c) \in Touched(x) THEN CellWritten(x, c) ELSE r.cells[c]
<1> DEFINE cel == [c \in Cells |-> IF Block(c) \in Touched(x) THEN CellWritten(x, c) ELSE r.cells[c]]
<1>1. r = [name |-> r.name, len |-> r.len, cells |-> r.cells] /\ r.name \in File /\ r.cells \in [Cells -> Nat]
  BY RowIs
<1>2. RowWritten(r, x) = [name |-> r.name, len |-> LenWritten(x), cells |-> cel]
  <2>1. RowWritten(r, x) = [r EXCEPT !.len = LenWritten(x), !.cells = cel]
    BY <1>1 DEF RowWritten
  <2> HIDE DEF cel
  <2> QED
    BY <1>1, <2>1 DEF Row
<1>3. cel \in [Cells -> Nat]
  BY <1>1, CellWrittenIs
<1>4. LenWritten(x) \in 0 .. MaxLen
  BY LenWrittenIs
<1>5. \A c \in Cells : cel[c] = IF Block(c) \in Touched(x) THEN CellWritten(x, c) ELSE r.cells[c]
  OBVIOUS
<1> HIDE DEF cel
<1> QED
  BY <1>1, <1>2, <1>3, <1>4, <1>5, RowMade

LEMMA RowTruncatedIs ==
  ASSUME NEW r \in Row, NEW n \in 0 .. MaxLen
  PROVE  /\ RowTruncated(r, n) \in Row /\ RowTruncated(r, n).name = r.name
         /\ RowTruncated(r, n).len = n
         /\ \A c \in Cells : RowTruncated(r, n).cells[c]
                               = IF r.len > n /\ Block(c) >= Block(n) THEN 0 ELSE r.cells[c]
<1> DEFINE cel == [c \in Cells |-> IF r.len > n /\ Block(c) >= Block(n) THEN 0 ELSE r.cells[c]]
<1>1. r = [name |-> r.name, len |-> r.len, cells |-> r.cells] /\ r.name \in File /\ r.cells \in [Cells -> Nat]
  BY RowIs
<1>2. RowTruncated(r, n) = [name |-> r.name, len |-> n, cells |-> cel]
  <2>1. RowTruncated(r, n) = [r EXCEPT !.len = n, !.cells = cel]
    BY <1>1 DEF RowTruncated
  <2> HIDE DEF cel
  <2> QED
    BY <1>1, <2>1 DEF Row
<1>3. cel \in [Cells -> Nat]
  BY <1>1
<1>5. \A c \in Cells : cel[c] = IF r.len > n /\ Block(c) >= Block(n) THEN 0 ELSE r.cells[c]
  OBVIOUS
<1> HIDE DEF cel
<1> QED
  BY <1>1, <1>2, <1>3, <1>5, RowMade

\* The zeros behind the end of a row.
Ended(r) == \A c \in Cells : c >= r.len => r.cells[c] = 0

LEMMA WriteRuns ==
  ASSUME NEW r \in Row, Ended(r), NEW x \in Writes, ~x.base.live, r.len = x.base.len, NEW F
  PROVE  LET q == RowWritten(r, x) IN
         /\ q.len = Leaves(x) /\ Ended(q)
         /\ \A c \in Cells : q.cells[c] = IF Decides(x, c) THEN Shown(x, F, c) ELSE r.cells[c]
<1> DEFINE q == RowWritten(r, x)
<1>1. x \in WriteShape /\ x.op = "write"
  BY ShapeParts DEF Writes
<1>2. /\ q.len = LenWritten(x) /\ q \in Row
      /\ \A c \in Cells : q.cells[c] = IF Block(c) \in Touched(x) THEN CellWritten(x, c) ELSE r.cells[c]
  BY <1>1, RowWrittenIs
<1> HIDE DEF q
<1>3. q.len = Leaves(x)
  BY <1>1, <1>2 DEF Leaves
<1>4. \A c \in Cells : q.cells[c] = IF Decides(x, c) THEN Shown(x, F, c) ELSE r.cells[c]
  BY <1>1, <1>2, ShownWritten DEF Decides
<1>5. ASSUME NEW c \in Cells, c >= q.len PROVE q.cells[c] = 0
  <2>1. CellWritten(x, c) = 0
    BY <1>1, <1>2, <1>5, ShownBeyond
  <2>2. c \in Nat /\ LenWritten(x) \in Nat /\ r.len \in Nat /\ r.len <= LenWritten(x)
    BY <1>1, LenWrittenIs, Constants, RowIs DEF Ends
  <2>3. r.cells[c] = 0
    BY <1>2, <1>5, <2>2 DEF Ended
  <2> QED
    BY <1>2, <1>5, <2>1, <2>3
<1> QED
  BY <1>3, <1>4, <1>5 DEF Ended, q

LEMMA CutRuns ==
  ASSUME NEW r \in Row, Ended(r), NEW x \in Cuts, NEW F
  PROVE  LET q == RowTruncated(r, x.len) IN
         /\ q.len = Leaves(x) /\ Ended(q)
         /\ \A c \in Cells : q.cells[c] = IF Decides(x, c) THEN Shown(x, F, c) ELSE r.cells[c]
<1> DEFINE q == RowTruncated(r, x.len)
           n == x.len
<1>1. x.op = "truncate" /\ n \in 0 .. MaxLen /\ n \in Nat /\ n % BlockSize = 0
  BY Constants DEF Cuts, Lengths
<1>2. /\ q.len = n /\ q \in Row
      /\ \A c \in Cells : q.cells[c] = IF r.len > n /\ Block(c) >= Block(n) THEN 0 ELSE r.cells[c]
  BY <1>1, RowTruncatedIs
<1> HIDE DEF q
<1>3. q.len = Leaves(x)
  BY <1>1, <1>2 DEF Leaves
<1>4. ASSUME NEW c \in Cells PROVE q.cells[c] = IF c >= n THEN 0 ELSE r.cells[c]
  <2>1. c \in Nat /\ r.len \in Nat
    BY Constants, RowIs
  <2>2. c >= n <=> Block(c) >= Block(n)
    BY <1>1, <2>1, BlockOrder
  <2>3. c >= n /\ r.len <= n => r.cells[c] = 0
    BY <1>1, <2>1 DEF Ended
  <2> QED
    BY <1>1, <1>2, <2>1, <2>2, <2>3
<1>5. \A c \in Cells : q.cells[c] = IF Decides(x, c) THEN Shown(x, F, c) ELSE r.cells[c]
  BY <1>1, <1>4 DEF Decides, Shown
<1>6. Ended(q)
  BY <1>2, <1>4 DEF Ended
<1> QED
  BY <1>3, <1>5, <1>6 DEF q

-----------------------------------------------------------------------------
(* Ids.                                                                    *)

Owned(known, b) == \A f \in DOMAIN known : Of(b, f, known[f])

LEMMA ResolvedTyped ==
  ASSUME work \in Db, DOMAIN ids \subseteq File, NEW x
  PROVE  DOMAIN Resolved(x) \subseteq File
<1>1. x.file \in Names(work) => x.file \in File
  BY ExtentIs
<1> QED
  BY <1>1 DEF Resolved

LEMMA ResolvedIs ==
  ASSUME work \in Db, Owned(ids, work), NEW x
  PROVE  /\ Owned(Resolved(x), work)
         /\ x.file \in DOMAIN Resolved(x) <=> x.file \in Names(work)
         /\ x.file \in Names(work) => Of(work, x.file, Resolved(x)[x.file])
<1>1. x.file \in DOMAIN ids => x.file \in Names(work)
  BY OfIs DEF Owned
<1>2. CASE x.file \in DOMAIN ids \/ x.file \notin Names(work)
  <2>1. Resolved(x) = ids
    BY <1>2 DEF Resolved
  <2> QED
    BY <1>1, <1>2, <2>1 DEF Owned
<1>3. CASE x.file \notin DOMAIN ids /\ x.file \in Names(work)
  <2>1. Resolved(x) = [f \in DOMAIN ids \cup {x.file} |-> IF f = x.file THEN IdIn(work, x.file) ELSE ids[f]]
    BY <1>3 DEF Resolved
  <2>2. Of(work, x.file, IdIn(work, x.file))
    BY <1>3, OfIs
  <2> QED
    BY <1>3, <2>1, <2>2 DEF Owned
<1> QED
  BY <1>2, <1>3

\* The cells of the file of x when x has run.
Ran(b, x, F) == [c \in Cells |-> IF Decides(x, c) THEN Shown(x, F, c) ELSE CellIn(b, x.file, c)]

LEMMA RunTyped ==
  ASSUME work \in Db, item \in Item, DOMAIN ids \subseteq File, RunCreate \/ RunDelete \/ RunChange
  PROVE  work' \in Db /\ DOMAIN ids' \subseteq File
<1> DEFINE x == item
           known == Resolved(x)
<1>0. x.file \in File /\ DOMAIN known \subseteq File
  BY ItemShape, ResolvedTyped
<1>1. CASE RunCreate
  <2>1. work' = Added(work, EmptyRow(x.file)) /\ x.file \notin Names(work)
    BY <1>1 DEF RunCreate, Added, EmptyRow
  <2> HIDE DEF x
  <2>2. work' \in Db
    BY <1>0, <2>1, RowAdded
  <2>3. DOMAIN ids' = DOMAIN ids \cup {x.file}
    BY <1>1 DEF RunCreate, x
  <2> QED
    BY <1>0, <2>2, <2>3
<1>2. CASE RunDelete
  <2>1. work' = WithoutRow(work, known[x.file]) /\ ids' = Restrict(ids, DOMAIN ids \ {x.file})
    BY <1>2 DEF RunDelete
  <2> HIDE DEF x, known
  <2>2. work' \in Db
    BY <2>1, RowGone
  <2>3. DOMAIN ids' = DOMAIN ids \ {x.file}
    BY <2>1 DEF Restrict
  <2> QED
    BY <2>2, <2>3
<1>3. CASE RunChange
  <2> DEFINE i == known[x.file]
             r == work.rows[i]
  <2>1. /\ x.op \in {"write", "truncate"} /\ i \in DOMAIN work.rows /\ ids' = known
        /\ work' = WithRow(work, i, IF x.op = "write" THEN RowWritten(r, x) ELSE RowTruncated(r, x.len))
    BY <1>3 DEF RunChange
  <2>2. Of(work, r.name, i) /\ r \in Row
    BY <2>1, DbIs DEF Of
  <2>3. CASE x.op = "write"
    <3>1. x \in WriteShape
      BY <2>3, ItemShape
    <3>2. work' = WithRow(work, i, RowWritten(r, x))
      BY <2>1, <2>3
    <3>3. RowWritten(r, x) \in Row /\ RowWritten(r, x).name = r.name
      BY <2>2, <3>1, RowWrittenIs
    <3> HIDE DEF i, r
    <3>4. work' \in Db
      BY <2>2, <3>2, <3>3, RowChanged
    <3> QED
      BY <1>0, <2>1, <3>4
  <2>4. CASE x.op = "truncate"
    <3>1. x.len \in 0 .. MaxLen
      BY <2>4, ItemShape
    <3>2. work' = WithRow(work, i, RowTruncated(r, x.len))
      BY <2>1, <2>4
    <3>3. RowTruncated(r, x.len) \in Row /\ RowTruncated(r, x.len).name = r.name
      BY <2>2, <3>1, RowTruncatedIs
    <3> HIDE DEF i, r
    <3>4. work' \in Db
      BY <2>2, <3>2, <3>3, RowChanged
    <3> QED
      BY <1>0, <2>1, <3>4
  <2> QED
    BY <2>1, <2>3, <2>4
<1> QED
  BY <1>1, <1>2, <1>3

LEMMA RunSound ==
  ASSUME work \in Db, item \in Item, DOMAIN ids \subseteq File, Zero(work), Owned(ids, work),
         item.op = "write" => ~item.base.live,
         Runs(item, Extent(work, item.file)), NEW F,
         RunCreate \/ RunDelete \/ RunChange
  PROVE  /\ Zero(work') /\ Owned(ids', work')
         /\ Turned(work, work', item.file, Leaves(item), Ran(work, item, F))
<1> DEFINE x == item
           f == x.file
           known == Resolved(x)
<1>0. f \in File /\ x.op \in Op
  BY ItemShape
<1>1. CASE RunCreate
  <2>1. work' = Added(work, EmptyRow(f)) /\ f \notin Names(work) /\ x.op = "create"
        /\ ids' = [g \in DOMAIN ids \cup {f} |-> IF g = f THEN work.next ELSE ids[g]]
    BY <1>1 DEF RunCreate, Added, EmptyRow
  <2> HIDE DEF x, f
  <2>2. /\ Zero(work') /\ Turned(work, work', f, 0, [c \in Cells |-> 0])
        /\ Of(work', f, work.next) /\ \A i \in DOMAIN work.rows : i \in DOMAIN work'.rows /\ work'.rows[i] = work.rows[i]
    BY <1>0, <2>1, RowAdded
  <2>3. Owned(ids', work')
    BY <2>1, <2>2 DEF Owned, Of
  <2>4. Leaves(x) = 0 /\ Ran(work, x, F) = [c \in Cells |-> 0]
    BY <2>1 DEF Leaves, Ran, Decides, Shown
  <2> QED
    BY <2>2, <2>3, <2>4 DEF x, f
<1>2. CASE RunDelete
  <2>1. /\ work' = WithoutRow(work, known[f]) /\ ids' = Restrict(ids, DOMAIN ids \ {f})
        /\ x.op = "delete" /\ f \in DOMAIN known
    BY <1>2 DEF RunDelete
  <2>2. Of(work, f, known[f])
    BY <2>1, ResolvedIs
  <2> HIDE DEF x, f, known
  <2>3. /\ Zero(work') /\ Turned(work, work', f, -1, [c \in Cells |-> 0])
        /\ DOMAIN work'.rows = DOMAIN work.rows \ {known[f]}
        /\ \A j \in DOMAIN work'.rows : work'.rows[j] = work.rows[j]
    BY <2>1, <2>2, RowGone
  <2>4. Owned(ids', work')
    <3>1. DOMAIN ids' = DOMAIN ids \ {f} /\ \A g \in DOMAIN ids' : ids'[g] = ids[g]
      BY <2>1 DEF Restrict
    <3>2. ASSUME NEW g \in DOMAIN ids' PROVE Of(work', g, ids'[g])
      <4>1. Of(work, g, ids[g]) /\ g # f
        BY <3>1, <3>2 DEF Owned
      <4>2. ids[g] # known[f]
        BY <2>2, <4>1 DEF Of
      <4> QED
        BY <2>3, <3>1, <4>1, <4>2 DEF Of
    <3> QED
      BY <3>2 DEF Owned
  <2>5. Leaves(x) = -1 /\ Ran(work, x, F) = [c \in Cells |-> 0]
    BY <2>1 DEF Leaves, Ran, Decides, Shown
  <2> QED
    BY <2>3, <2>4, <2>5 DEF x, f
<1>3. CASE RunChange
  <2> DEFINE i == known[f]
             r == work.rows[i]
             q == IF x.op = "write" THEN RowWritten(r, x) ELSE RowTruncated(r, x.len)
  <2>1. /\ x.op \in {"write", "truncate"} /\ f \in DOMAIN known /\ ids' = known
        /\ work' = WithRow(work, i, q)
    BY <1>3 DEF RunChange
  <2>2. Of(work, f, i) /\ Owned(known, work)
    BY <2>1, ResolvedIs
  <2>3. r \in Row /\ Ended(r) /\ r.name = f /\ Extent(work, f) = r.len
        /\ \A c : CellIn(work, f, c) = r.cells[c]
    BY <2>2, DbIs, OfIs DEF Of, Ended, Zero
  <2>4. /\ q \in Row /\ q.name = f /\ q.len = Leaves(x) /\ Ended(q)
        /\ \A c \in Cells : q.cells[c] = IF Decides(x, c) THEN Shown(x, F, c) ELSE r.cells[c]
    <3> HIDE DEF i, r
    <3>1. CASE x.op = "write"
      <4>1. x \in Writes /\ x \in WriteShape
        BY <3>1, ItemShape DEF Writes
      <4>2. r.len = x.base.len /\ ~x.base.live
        BY <2>3, <3>1 DEF Runs
      <4>3. q = RowWritten(r, x)
        BY <3>1
      <4>4. q \in Row /\ q.name = f
        BY <2>3, <4>1, <4>3, RowWrittenIs
      <4> HIDE DEF q, x
      <4> QED
        BY <2>3, <4>1, <4>2, <4>3, <4>4, WriteRuns
    <3>2. CASE x.op = "truncate"
      <4>1. x \in Cuts /\ x.len \in 0 .. MaxLen
        BY <3>2, ItemShape
      <4>2. q = RowTruncated(r, x.len)
        BY <3>2
      <4>3. q \in Row /\ q.name = f
        BY <2>3, <4>1, <4>2, RowTruncatedIs
      <4> HIDE DEF q, x
      <4> QED
        BY <2>3, <4>1, <4>2, <4>3, CutRuns
    <3> QED
      BY <2>1, <3>1, <3>2
  <2> HIDE DEF q, i, r
  <2>5. /\ Turned(work, work', f, q.len, q.cells) /\ Zero(work')
        /\ DOMAIN work'.rows = DOMAIN work.rows
        /\ \A j \in DOMAIN work.rows : work'.rows[j].name = work.rows[j].name
    BY <2>1, <2>2, <2>4, RowChanged DEF Ended
  <2>6. Owned(ids', work')
    BY <2>1, <2>2, <2>5 DEF Owned, Of
  <2>7. q.cells = Ran(work, x, F)
    BY <2>3, <2>4, RowIs DEF Ran
  <2> QED
    BY <2>4, <2>5, <2>6, <2>7
<1> QED
  BY <1>1, <1>2, <1>3

\* When the line tells what the files are, an item does not fail.
LEMMA NoFailure ==
  ASSUME work \in Db, item \in Item, Owned(ids, work), Runs(item, Extent(work, item.file)),
         ItemFails
  PROVE  FALSE
<1> DEFINE x == item
           f == x.file
           known == Resolved(x)
<1>1. Extent(work, f) \in -1 .. MaxLen /\ (f \in Names(work) <=> Extent(work, f) >= 0)
  BY ExtentIs
<1>2. x.op = "create" => f \notin Names(work)
  BY <1>1 DEF Runs
<1>3. x.op \in {"delete", "truncate"} => f \in Names(work)
  BY <1>1 DEF Runs
<1>4. x.op = "write" => f \in Names(work)
  BY <1>1, ItemShape, ShapeParts DEF Runs
<1>5. f \in Names(work) => f \in DOMAIN known /\ known[f] \in DOMAIN work.rows
  BY ResolvedIs DEF Of
<1> QED
  BY <1>2, <1>3, <1>4, <1>5 DEF ItemFails

-----------------------------------------------------------------------------
(* What an item shows while the memory changes.                            *)

Live(it) == it.op = "write" /\ it.base.live

\* y stands for x when the file f has been changed in the cells X.
Moves(x, y, F, F2, f, X) ==
    /\ x \in Item /\ y \in Item /\ Alike(x, y)
    /\ Live(y) => Live(x) /\ y.file \in DOMAIN F2
    /\ \A c \in Cells : Shown(y, F2, c) \in {Shown(x, F, c), Data(F2, x.file, c)}
    /\ \A c \in Cells : x.file # f \/ c \notin X \/ Covered(x, c) \/ x.op # "write"
                        => Shown(y, F2, c) = Shown(x, F, c)

LEMMA ShownEither ==
  ASSUME NEW x, NEW F, NEW F2, NEW c
  PROVE  /\ Shown(x, F2, c) \in {Shown(x, F, c), Data(F2, x.file, c)}
         /\ Covered(x, c) \/ ~Live(x) \/ Data(F2, x.file, c) = Data(F, x.file, c)
            => Shown(x, F2, c) = Shown(x, F, c)
BY DEF Shown, Viewed, Live

\* The item stays as it is, and its file is there before and after.
LEMMA MovesStill ==
  ASSUME NEW x \in Item, NEW F, NEW F2, NEW f, NEW X,
         Live(x) => x.file \in DOMAIN F2,
         x.file # f => \A c \in Cells : Data(F2, x.file, c) = Data(F, x.file, c),
         \A c \in Cells : c \notin X => Data(F2, f, c) = Data(F, f, c)
  PROVE  Moves(x, x, F, F2, f, X)
<1>1. Alike(x, x)
  BY DEF Alike
<1>2. \A c \in Cells : x.file # f \/ c \notin X => Data(F2, x.file, c) = Data(F, x.file, c)
  OBVIOUS
<1>3. x.op # "write" => ~Live(x)
  BY DEF Live
<1> QED
  BY <1>1, <1>2, <1>3, ShownEither DEF Moves

LEMMA TextIs ==
  ASSUME NEW d \in Text
  PROVE  d \in Seq(Nat) /\ Len(d) \in Nat /\ Len(d) <= MaxLen /\ \A i \in 1 .. Len(d) : d[i] \in Nat
BY DEF Text

LEMMA KeptViewIs ==
  ASSUME NEW d \in Text, NEW n \in 0 .. MaxLen
  PROVE  LET v == KeptView(Padded(d, n)) IN
         /\ v \in View /\ v.live = FALSE /\ v.len = n /\ Len(v.data) = n
         /\ \A c \in Cells : c < n => v.data[c + 1] = IF c < Len(d) THEN d[c + 1] ELSE 0
<1>1. n \in Nat /\ n <= MaxLen
  BY Constants
<1> DEFINE e == Padded(d, n)
<1>2. e \in Seq(Nat) /\ Len(e) = n /\ \A i \in 1 .. n : e[i] = IF i <= Len(d) THEN d[i] ELSE 0
  BY <1>1, TextIs, PaddedIs
<1> HIDE DEF e
<1>3. KeptView(e) = [live |-> FALSE, len |-> n, data |-> e]
  BY <1>2 DEF KeptView
<1>4. e \in Text
  BY <1>1, <1>2 DEF Text
<1>5. KeptView(e) \in View
  BY <1>1, <1>2, <1>3, <1>4 DEF View
<1>6. ASSUME NEW c \in Cells, c < n PROVE e[c + 1] = IF c < Len(d) THEN d[c + 1] ELSE 0
  <2>1. c \in Nat /\ c + 1 \in 1 .. n /\ Len(d) \in Nat
    BY <1>1, <1>6, Constants, TextIs
  <2> QED
    BY <1>2, <2>1
<1> QED
  BY <1>2, <1>3, <1>5, <1>6 DEF e

\* A write whose view is replaced.
LEMMA BaseReplaced ==
  ASSUME NEW x \in Writes, NEW v \in View, v.len = x.base.len
  PROVE  LET y == [x EXCEPT !.base = v] IN
         /\ y \in Writes /\ y.base = v /\ y.writes = x.writes /\ Alike(x, y) /\ y.op = "write" /\ y.file = x.file
         /\ \A c : Covered(y, c) <=> Covered(x, c)
         /\ \A c \in Cells : Covered(x, c) => CellWritten(y, c) = CellWritten(x, c)
<1> DEFINE y == [x EXCEPT !.base = v]
<1>1. x \in WriteShape /\ WholeBlocks(x)
  BY DEF Writes
<1>2. x.op = "write" /\ x.file \in File /\ x.writes \in Seq(Piece)
  BY <1>1, ShapeParts
<1>3. y = [op |-> "write", file |-> x.file, base |-> v, writes |-> x.writes]
  BY <1>1 DEF WriteShape
<1>4. y \in WriteShape
  BY <1>2, <1>3 DEF WriteShape
<1>5. y.base = v /\ y.writes = x.writes /\ y.op = "write" /\ y.file = x.file
  BY <1>3
<1> HIDE DEF y
<1>6. Alike(x, y)
  BY <1>2, <1>5 DEF Alike
<1>7. \A c : Covered(y, c) <=> Covered(x, c)
  BY <1>5 DEF Covered
<1>8. Touched(y) = Touched(x)
  BY <1>5 DEF Touched
<1>9. WholeBlocks(y)
  BY <1>1, <1>5, <1>7, <1>8 DEF WholeBlocks
<1>10. \A c \in Cells : Covered(x, c) => CellWritten(y, c) = CellWritten(x, c)
  <2> SUFFICES ASSUME NEW c \in Cells, Covered(x, c) PROVE CellWritten(y, c) = CellWritten(x, c)
    OBVIOUS
  <2>1. PICK k : Tops(x, c, k)
    BY <1>1, CellWrittenIs
  <2>2. Tops(y, c, k)
    BY <1>5, <2>1 DEF Tops
  <2> QED
    BY <1>1, <1>4, <1>5, <2>1, <2>2, CellWrittenIs
<1> QED
  BY <1>4, <1>5, <1>6, <1>7, <1>9, <1>10 DEF Writes, y

LEMMA KeptIs ==
  ASSUME NEW x \in Item, NEW f, NEW d \in Text
  PROVE  LET y == Kept(x, f, d) IN
         /\ y \in Item /\ Alike(x, y)
         /\ x.file = f => ~Live(y)
         /\ x.file # f \/ ~Live(x) => y = x
         /\ x.file = f => \A F, F2 : f \in DOMAIN F /\ F[f] = d =>
              \A c \in Cells : Shown(y, F2, c) = Shown(x, F, c)
<1>1. CASE x.op = "write" /\ x.file = f /\ x.base.live
  <2>1. x \in Writes /\ x \in WriteShape
    BY <1>1, ItemShape DEF Writes
  <2> DEFINE n == x.base.len
             v == KeptView(Padded(d, n))
             y == [x EXCEPT !.base = v]
  <2>2. n \in 0 .. MaxLen
    BY <2>1, ShapeParts
  <2>3. v \in View /\ v.live = FALSE /\ v.len = n /\ Len(v.data) = n
        /\ \A c \in Cells : c < n => v.data[c + 1] = IF c < Len(d) THEN d[c + 1] ELSE 0
    BY <2>2, KeptViewIs
  <2> HIDE DEF v
  <2>4. /\ y \in Writes /\ y.base = v /\ y.writes = x.writes /\ Alike(x, y) /\ y.op = "write" /\ y.file = x.file
        /\ \A c : Covered(y, c) <=> Covered(x, c)
        /\ \A c \in Cells : Covered(x, c) => CellWritten(y, c) = CellWritten(x, c)
    BY <2>1, <2>3, BaseReplaced
  <2>5. Kept(x, f, d) = y
    BY <1>1 DEF Kept, v
  <2> HIDE DEF y
  <2>6. ~Live(y)
    BY <2>3, <2>4 DEF Live
  <2>7. ASSUME NEW F, NEW F2, f \in DOMAIN F, F[f] = d, NEW c \in Cells
        PROVE  Shown(y, F2, c) = Shown(x, F, c)
    <3>1. CASE Covered(x, c)
      BY <1>1, <2>4, <3>1 DEF Shown
    <3>2. CASE ~Covered(x, c)
      <4>1. Shown(x, F, c) = IF c < n THEN Data(F, f, c) ELSE 0
        BY <1>1, <3>2 DEF Shown, Viewed
      <4>2. Shown(y, F2, c) = IF c < n THEN v.data[c + 1] ELSE 0
        BY <2>3, <2>4, <3>2 DEF Shown, Viewed
      <4>3. Data(F, f, c) = IF c < Len(d) THEN d[c + 1] ELSE 0
        BY <2>7 DEF Data
      <4> QED
        BY <2>3, <4>1, <4>2, <4>3
    <3> QED
      BY <3>1, <3>2
  <2> QED
    BY <1>1, <2>4, <2>5, <2>6, <2>7 DEF Item, Live
<1>2. CASE ~(x.op = "write" /\ x.file = f /\ x.base.live)
  <2>1. Kept(x, f, d) = x
    BY <1>2 DEF Kept
  <2>2. Alike(x, x)
    BY DEF Alike
  <2>3. x.file = f => ~Live(x)
    BY <1>2 DEF Live
  <2> QED
    BY <2>1, <2>2, <2>3, ShownEither
<1> QED
  BY <1>1, <1>2

\* The view is given up as the array goes.
LEMMA MovesKept ==
  ASSUME NEW x \in Item, NEW F, NEW F2, NEW f, NEW X, NEW d \in Text,
         Live(x) => x.file \in DOMAIN F,
         \A g : g # f => (g \in DOMAIN F <=> g \in DOMAIN F2) /\ \A c \in Cells : Data(F2, g, c) = Data(F, g, c),
         f \in DOMAIN F => F[f] = d
  PROVE  Moves(x, Kept(x, f, d), F, F2, f, X)
<1> DEFINE y == Kept(x, f, d)
<1>1. /\ y \in Item /\ Alike(x, y)
      /\ x.file = f => ~Live(y)
      /\ x.file # f \/ ~Live(x) => y = x
      /\ x.file = f => \A G, G2 : f \in DOMAIN G /\ G[f] = d =>
           \A c \in Cells : Shown(y, G2, c) = Shown(x, G, c)
  BY KeptIs
<1> HIDE DEF y
<1>2. y.file = x.file
  BY <1>1 DEF Alike
<1>3. Live(y) => Live(x) /\ y.file \in DOMAIN F2
  BY <1>1, <1>2
<1>4. ASSUME NEW c \in Cells PROVE Shown(y, F2, c) = Shown(x, F, c)
  <2>1. CASE x.file # f \/ ~Live(x)
    BY <1>1, <2>1, ShownEither
  <2>2. CASE x.file = f /\ Live(x)
    BY <1>1, <2>2
  <2> QED
    BY <2>1, <2>2
<1> QED
  BY <1>1, <1>3, <1>4 DEF Moves, y

-----------------------------------------------------------------------------
(* The line of all that waits, while the memory changes.                   *)

CellsIn(b, f) == [c \in Cells |-> CellIn(b, f, c)]
Has(F, f) == [c \in Cells |-> {Data(F, f, c)}]

\* The line makes of the store b the files F.
Told(L, F, b) ==
    \A g \in File : LineFor(L, F, Extent(b, g), CellsIn(b, g), g, Size(F, g), Has(F, g), TRUE)

Moved(L, K, F, F2, f, X) ==
    /\ Len(L) \in Nat /\ Len(K) = Len(L)
    /\ \A i \in 1 .. Len(L) : Moves(L[i], K[i], F, F2, f, X)

\* The cells of its file that x gives a value.
Sets(x) ==
    {c \in Cells : (x.op = "write" => Covered(x, c)) /\ (x.op = "truncate" => c >= x.len)}

Same(F, F2, g) ==
    /\ Size(F2, g) = Size(F, g) /\ (g \in DOMAIN F <=> g \in DOMAIN F2)
    /\ \A c \in Cells : Data(F2, g, c) = Data(F, g, c)

\* They are the same but for f.
SameBut(F, F2, f) == \A g : g # f => Same(F, F2, g)

\* Of the files F the item x is to make F2.
Alters(F, F2, x) ==
    /\ \A g : g # x.file => Same(F, F2, g)
    /\ Runs(x, Size(F, x.file)) /\ Size(F2, x.file) = Leaves(x)
    /\ \A c \in Cells : Tells(x, c) => Shown(x, F2, c) = Data(F2, x.file, c)
    /\ \A c \in Cells : c \notin Sets(x) => Data(F2, x.file, c) = Data(F, x.file, c)

LEMMA SetsDecides ==
  ASSUME NEW x \in Item, NEW c \in Sets(x)
  PROVE  Decides(x, c)
<1>1. c \in Cells /\ x.op \in Op
  BY ItemShape DEF Sets
<1>2. CASE x.op = "write"
  BY <1>1, <1>2, ItemShape, CoveredTouched DEF Sets, Decides
<1>3. CASE x.op # "write"
  BY <1>1, <1>3 DEF Sets, Decides, Op
<1> QED
  BY <1>2, <1>3

LEMMA MovesParts ==
  ASSUME NEW x, NEW y, NEW F, NEW F2, NEW f, NEW X, Moves(x, y, F, F2, f, X)
  PROVE  /\ x \in Item /\ y \in Item /\ Alike(x, y) /\ y.file = x.file /\ y.op = x.op /\ x.op \in Op
         /\ Live(y) => Live(x)
BY ItemShape DEF Moves, Alike

LEMMA MovedParts ==
  ASSUME NEW L, NEW K, NEW F, NEW F2, NEW f, NEW X, Moved(L, K, F, F2, f, X)
  PROVE  /\ Len(L) \in Nat /\ Len(K) = Len(L)
         /\ \A i \in 1 .. Len(L) : /\ L[i] \in Item /\ K[i] \in Item /\ Alike(L[i], K[i])
                                   /\ K[i].file = L[i].file /\ K[i].op = L[i].op /\ L[i].op \in Op
         /\ \A g, k : k \in 0 .. Len(L) => Prefix(L, K, g, k)
<1>1. /\ Len(L) \in Nat /\ Len(K) = Len(L)
      /\ \A i \in 1 .. Len(L) : Moves(L[i], K[i], F, F2, f, X)
  BY DEF Moved
<1>2. \A i \in 1 .. Len(L) : /\ L[i] \in Item /\ K[i] \in Item /\ Alike(L[i], K[i])
                             /\ K[i].file = L[i].file /\ K[i].op = L[i].op /\ L[i].op \in Op
  BY <1>1, MovesParts
<1>3. \A g, k : k \in 0 .. Len(L) => Prefix(L, K, g, k)
  BY <1>1, <1>2 DEF Prefix
<1> QED
  BY <1>1, <1>2, <1>3

\* The lines of the other files.
LEMMA OthersTold ==
  ASSUME NEW L, NEW K, NEW F, NEW F2, NEW f, NEW X, Moved(L, K, F, F2, f, X),
         NEW b, Told(L, F, b), NEW g \in File, g # f, Same(F, F2, g)
  PROVE  LineFor(K, F2, Extent(b, g), CellsIn(b, g), g, Size(F2, g), Has(F2, g), TRUE)
<1> DEFINE P == {<<i, i>> : i \in 1 .. Len(L)}
<1>1. /\ Len(L) \in Nat /\ Len(K) = Len(L)
      /\ \A i \in 1 .. Len(L) : /\ Alike(L[i], K[i]) /\ K[i].file = L[i].file /\ L[i].op \in Op
  BY MovedParts
<1>2. Paired(L, K, P, g)
  BY <1>1, PairedSame
<1>3. LineFor(L, F, Extent(b, g), CellsIn(b, g), g, Size(F2, g), Has(F, g), TRUE)
  BY DEF Told, Same
<1>4. \A c \in Cells : Has(F, g)[c] \subseteq Has(F2, g)[c]
  BY DEF Has, Same
<1>5. ASSUME NEW p \in P, NEW c \in Cells, L[p[1]].file = g
      PROVE  Shown(K[p[2]], F2, c) \in {Shown(L[p[1]], F, c)} \cup Has(F2, g)[c]
  <2>1. PICK i \in 1 .. Len(L) : p = <<i, i>>
    OBVIOUS
  <2>2. Moves(L[i], K[i], F, F2, f, X)
    BY <2>1 DEF Moved
  <2>3. Shown(K[i], F2, c) = Shown(L[i], F, c)
    BY <1>5, <2>1, <2>2 DEF Moves
  <2> QED
    BY <2>1, <2>3
<1> HIDE DEF P
<1> QED
  BY <1>1, <1>2, <1>3, <1>4, <1>5, PairedLine

\* The item joins the end.
LEMMA AppendTold ==
  ASSUME NEW L, NEW K, NEW F, NEW F2, NEW x \in Item, Moved(L, K, F, F2, x.file, Sets(x)),
         Alters(F, F2, x), NEW b, Told(L, F, b),
         NEW K2, Len(K2) = Len(K) + 1, \A i \in 1 .. Len(K) : K2[i] = K[i], K2[Len(K) + 1] = x
  PROVE  Told(K2, F2, b)
<1> DEFINE f == x.file
<1>0. f \in File /\ x.op \in Op
  BY ItemShape
<1>1. /\ Len(L) \in Nat /\ Len(K) = Len(L)
      /\ \A i \in 1 .. Len(L) : /\ L[i] \in Item /\ K[i] \in Item /\ Alike(L[i], K[i])
                                /\ K[i].file = L[i].file /\ K[i].op = L[i].op /\ L[i].op \in Op
  BY MovedParts
<1>2. ASSUME NEW g \in File, g # f
      PROVE  LineFor(K2, F2, Extent(b, g), CellsIn(b, g), g, Size(F2, g), Has(F2, g), TRUE)
  <2> DEFINE P == {<<i, i>> : i \in 1 .. Len(K)}
  <2>1. LineFor(K, F2, Extent(b, g), CellsIn(b, g), g, Size(F2, g), Has(F2, g), TRUE)
    BY <1>2, OthersTold DEF Alters
  <2>2. Paired(K, K2, P, g)
    <3>1. P \subseteq (1 .. Len(K)) \X (1 .. Len(K2)) /\ \A p, q \in P : p[1] < q[1] <=> p[2] < q[2]
      BY <1>1
    <3>2. \A i \in 1 .. Len(K) : Alike(K[i], K2[i]) /\ K2[i].file = K[i].file
      BY DEF Alike
    <3>3. \A j \in 1 .. Len(K2) : K2[j].file = g => j \in 1 .. Len(K)
      BY <1>1, <1>2
    <3> QED
      BY <3>1, <3>2, <3>3 DEF Paired
  <2>3. \A p \in P, c \in Cells : K[p[1]].file = g => Shown(K2[p[2]], F2, c) \in {Shown(K[p[1]], F2, c)} \cup Has(F2, g)[c]
    OBVIOUS
  <2>4. Len(K) \in Nat /\ Len(K2) \in Nat /\ \A i \in 1 .. Len(K) : K[i].op \in Op
    BY <1>1
  <2>5. \A c \in Cells : Has(F2, g)[c] \subseteq Has(F2, g)[c]
    OBVIOUS
  <2> HIDE DEF P
  <2> QED
    BY <2>1, <2>2, <2>3, <2>4, <2>5, PairedLine
<1>3. LineFor(K2, F2, Extent(b, f), CellsIn(b, f), f, Size(F2, f), Has(F2, f), TRUE)
  <2>1. Prefix(L, K2, f, Len(L))
    BY <1>1 DEF Prefix
  <2>2. LineFor(L, F, Extent(b, f), CellsIn(b, f), f, Size(F, f), Has(F, f), TRUE)
    BY <1>0 DEF Told
  <2>3. Runs(x, Size(F, f)) /\ Size(F2, f) = Leaves(x)
    BY DEF Alters
  <2>4. \A c \in Cells : Tells(x, c) => Shown(x, F2, c) \in Has(F2, f)[c]
    BY DEF Alters, Has
  <2>5. ASSUME NEW c \in Cells, ~Decides(x, c)
        PROVE  /\ Has(F, f)[c] \subseteq Has(F2, f)[c]
               /\ \A i \in 1 .. Len(L) : L[i].file = f /\ Tells(L[i], c) => Shown(K2[i], F2, c) = Shown(L[i], F, c)
    <3>1. c \notin Sets(x)
      BY <2>5, SetsDecides
    <3>2. Data(F2, f, c) = Data(F, f, c)
      BY <3>1 DEF Alters
    <3>3. \A i \in 1 .. Len(L) : Shown(K2[i], F2, c) = Shown(L[i], F, c)
      BY <1>1, <3>1 DEF Moved, Moves
    <3> QED
      BY <3>2, <3>3 DEF Has
  <2>6. Len(L) \in Nat /\ Len(K2) = Len(L) + 1 /\ K2[Len(L) + 1] = x /\ x.file = f
    BY <1>1
  <2>7. Outside(L, K2, f, F, F2, Has(F, f), Has(F2, f), x)
    BY <2>5 DEF Outside
  <2> HIDE DEF f
  <2> QED
    BY <2>1, <2>2, <2>3, <2>4, <2>5, <2>6, <2>7, LineAppend
<1> QED
  BY <1>2, <1>3 DEF Told

-----------------------------------------------------------------------------
\* A write takes in the writes of another.
JoinedItem(y, x) == [y EXCEPT !.writes = @ \o x.writes]

\* z writes what y writes and over it what x writes.
Both(y, x, z) ==
    /\ z \in Writes /\ z.file = y.file /\ z.op = "write" /\ z.base = y.base
    /\ \A c \in Cells : Covered(z, c) <=> Covered(y, c) \/ Covered(x, c)
    /\ \A c \in Cells : Covered(x, c) => CellWritten(z, c) = CellWritten(x, c)
    /\ \A c \in Cells : ~Covered(x, c) /\ Covered(y, c) => CellWritten(z, c) = CellWritten(y, c)
    /\ Touched(z) = Touched(y) \cup Touched(x)
    /\ x.base.len = LenWritten(y) => LenWritten(z) = LenWritten(x)

LEMMA JoinedIs ==
  ASSUME NEW y \in Writes, NEW x \in Writes, y.file = x.file
  PROVE  Both(y, x, JoinedItem(y, x))
<1> DEFINE z == JoinedItem(y, x)
           m == Len(y.writes)
           n == Len(x.writes)
<1>1. /\ x \in WriteShape /\ y \in WriteShape /\ WholeBlocks(x) /\ WholeBlocks(y)
      /\ x.writes \in Seq(Piece) /\ y.writes \in Seq(Piece) /\ y.base \in View /\ y.file \in File /\ y.op = "write"
      /\ m \in Nat /\ n \in Nat /\ DOMAIN x.writes = 1 .. n /\ DOMAIN y.writes = 1 .. m
  BY ShapeParts DEF Writes
<1>2. z = [op |-> "write", file |-> y.file, base |-> y.base, writes |-> y.writes \o x.writes]
  <2> DEFINE s == y.writes \o x.writes
  <2>1. z = [y EXCEPT !.writes = s]
    BY DEF JoinedItem
  <2> HIDE DEF z, s
  <2>2. z = [op |-> "write", file |-> y.file, base |-> y.base, writes |-> s]
    BY <1>1, <2>1 DEF WriteShape
  <2> QED
    BY <2>2 DEF s
<1> HIDE DEF z
<1>3. z.writes = y.writes \o x.writes /\ z.base = y.base /\ z.file = y.file /\ z.op = "write"
  BY <1>2
<1>4. /\ z.writes \in Seq(Piece) /\ Len(z.writes) = m + n /\ DOMAIN z.writes = 1 .. m + n
      /\ \A i \in 1 .. m : z.writes[i] = y.writes[i]
      /\ \A i \in 1 .. n : z.writes[m + i] = x.writes[i]
  <2>1. z.writes \in Seq(Piece) /\ Len(z.writes) = m + n /\ DOMAIN z.writes = 1 .. m + n
    BY <1>1, <1>3, ConcatIs DEF m, n
  <2> DEFINE p == y.writes
             q == x.writes
  <2>2. p \in Seq(Piece) /\ q \in Seq(Piece) /\ m = Len(p) /\ n = Len(q) /\ z.writes = p \o q
    BY <1>1, <1>3 DEF m, n
  <2> HIDE DEF p, q
  <2>3. (\A i \in 1 .. m : (p \o q)[i] = p[i]) /\ \A i \in 1 .. n : (p \o q)[m + i] = q[i]
    BY <2>2, ConcatIs
  <2> QED
    BY <2>1, <2>2, <2>3 DEF p, q
<1>5. z \in WriteShape
  BY <1>1, <1>2, <1>4 DEF WriteShape
<1> HIDE DEF m, n
<1>6. \A i \in 1 .. m + n : i \in 1 .. m \/ \E j \in 1 .. n : i = m + j
  <2> SUFFICES ASSUME NEW i \in 1 .. m + n, i \notin 1 .. m PROVE \E j \in 1 .. n : i = m + j
    OBVIOUS
  <2>1. i - m \in 1 .. n /\ i = m + (i - m)
    BY <1>1
  <2> QED
    BY <2>1
<1>7. \A c : Covered(z, c) <=> Covered(y, c) \/ Covered(x, c)
  <2> SUFFICES ASSUME NEW c PROVE Covered(z, c) <=> Covered(y, c) \/ Covered(x, c)
    OBVIOUS
  <2>1. ASSUME Covered(z, c) PROVE Covered(y, c) \/ Covered(x, c)
    <3>1. PICK i \in 1 .. m + n : Covers(z.writes[i], c)
      BY <1>4, <2>1 DEF Covered
    <3>2. i \in 1 .. m => Covered(y, c)
      BY <1>1, <1>4, <3>1 DEF Covered
    <3>3. ASSUME NEW j \in 1 .. n, i = m + j PROVE Covered(x, c)
      <4>1. Covers(x.writes[j], c)
        BY <1>4, <3>1, <3>3
      <4> QED
        BY <1>1, <4>1 DEF Covered
    <3> QED
      BY <1>6, <3>2, <3>3
  <2>2. Covered(y, c) => Covered(z, c)
    BY <1>1, <1>4 DEF Covered
  <2>3. ASSUME Covered(x, c) PROVE Covered(z, c)
    <3>1. PICK i \in 1 .. n : Covers(x.writes[i], c)
      BY <1>1, <2>3 DEF Covered
    <3>2. m + i \in 1 .. m + n
      BY <1>1
    <3> QED
      BY <1>4, <3>1, <3>2 DEF Covered
  <2> QED
    BY <2>1, <2>2, <2>3
<1>8. ASSUME NEW c \in Cells, Covered(x, c) PROVE CellWritten(z, c) = CellWritten(x, c)
  <2>1. PICK k : Tops(x, c, k)
    BY <1>1, <1>8, CellWrittenIs
  <2>2. k \in 1 .. n /\ Covers(x.writes[k], c) /\ \A i \in 1 .. n : Covers(x.writes[i], c) => i <= k
    BY <1>1, <2>1 DEF Tops
  <2>3. Covers(z.writes[m + k], c) /\ m + k \in 1 .. m + n
    BY <1>1, <1>4, <2>2
  <2>4. ASSUME NEW i \in 1 .. m + n, Covers(z.writes[i], c) PROVE i <= m + k
    <3>1. CASE i \in 1 .. m
      BY <1>1, <2>2, <3>1
    <3>2. ASSUME NEW j \in 1 .. n, i = m + j PROVE i <= m + k
      <4>1. z.writes[i] = x.writes[j]
        BY <1>4, <3>2
      <4>2. j <= k
        BY <2>2, <2>4, <4>1
      <4> QED
        BY <1>1, <2>2, <3>2, <4>2
    <3> QED
      BY <1>6, <3>1, <3>2
  <2>5. Tops(z, c, m + k)
    BY <1>4, <2>3, <2>4 DEF Tops
  <2>6. z.writes[m + k].val = x.writes[k].val
    BY <1>4, <2>2
  <2> QED
    BY <1>1, <1>5, <2>1, <2>5, <2>6, CellWrittenIs
<1>9. ASSUME NEW c \in Cells, ~Covered(x, c), Covered(y, c) PROVE CellWritten(z, c) = CellWritten(y, c)
  <2>1. PICK k : Tops(y, c, k)
    BY <1>1, <1>9, CellWrittenIs
  <2>2. k \in 1 .. m /\ Covers(y.writes[k], c) /\ \A i \in 1 .. m : Covers(y.writes[i], c) => i <= k
    BY <1>1, <2>1 DEF Tops
  <2>3. \A i \in 1 .. n : ~Covers(x.writes[i], c)
    BY <1>1, <1>9 DEF Covered
  <2>4. \A i \in 1 .. m + n : Covers(z.writes[i], c) => i <= k
    <3> SUFFICES ASSUME NEW i \in 1 .. m + n, Covers(z.writes[i], c) PROVE i <= k
      OBVIOUS
    <3>1. \A j \in 1 .. n : i # m + j
      BY <1>4, <2>3
    <3> QED
      BY <1>4, <1>6, <2>2, <3>1
  <2>5. Tops(z, c, k) /\ z.writes[k] = y.writes[k]
    BY <1>1, <1>4, <2>2, <2>4 DEF Tops
  <2> QED
    BY <1>1, <1>5, <2>1, <2>5, CellWrittenIs
<1>10. Touched(z) = Touched(y) \cup Touched(x)
  <2>1. \A w, q : q \in Writes => (Touched(q) = {Block(c) : c \in {d \in Cells : Covered(q, d)}})
    BY DEF Touched, Covered, ToSet
  <2>2. Touched(z) = {Block(c) : c \in {d \in Cells : Covered(z, d)}}
    BY DEF Touched, Covered, ToSet
  <2> QED
    BY <1>7, <2>1, <2>2
<1>11. WholeBlocks(z)
  BY <1>1, <1>3, <1>7, <1>10 DEF WholeBlocks
<1>12. ASSUME x.base.len = LenWritten(y) PROVE LenWritten(z) = LenWritten(x)
  <2> DEFINE a == LenWritten(y)
             e == LenWritten(x)
  <2>1. a \in Nat /\ e \in Nat /\ Ends(y, a) /\ Ends(x, e)
    BY <1>1, LenWrittenIs, Constants
  <2>2. \A i \in 1 .. n : x.writes[i].at + x.writes[i].len \in Int
    BY <1>1, ShapeParts
  <2>3. \A i \in 1 .. m : y.writes[i].at + y.writes[i].len \in Int
    BY <1>1, ShapeParts
  <2>4. y.base.len \in Nat
    BY <1>1, ShapeParts
  <2> HIDE DEF a, e
  <2>5. a <= e /\ y.base.len <= a
    BY <1>12, <2>1 DEF Ends, a
  <2>6. \A i \in 1 .. m + n : z.writes[i].at + z.writes[i].len <= e
    <3> SUFFICES ASSUME NEW i \in 1 .. m + n PROVE z.writes[i].at + z.writes[i].len <= e
      OBVIOUS
    <3>1. CASE i \in 1 .. m
      <4>1. y.writes[i].at + y.writes[i].len <= a
        BY <1>1, <2>1, <3>1 DEF Ends
      <4> QED
        BY <1>4, <2>1, <2>3, <2>5, <3>1, <4>1
    <3>2. ASSUME NEW j \in 1 .. n, i = m + j PROVE z.writes[i].at + z.writes[i].len <= e
      BY <1>1, <1>4, <2>1, <3>2 DEF Ends
    <3> QED
      BY <1>6, <3>1, <3>2
  <2>7. y.base.len = e \/ \E i \in 1 .. m + n : z.writes[i].at + z.writes[i].len = e
    <3>1. CASE x.base.len = e
      <4>1. y.base.len = e \/ \E i \in 1 .. m : y.writes[i].at + y.writes[i].len = e
        BY <1>1, <1>12, <2>1, <3>1 DEF Ends, a
      <4>2. \A i \in 1 .. m : i \in 1 .. m + n
        BY <1>1
      <4> QED
        BY <1>4, <4>1, <4>2
    <3>2. ASSUME NEW i \in 1 .. n, x.writes[i].at + x.writes[i].len = e
          PROVE  \E j \in 1 .. m + n : z.writes[j].at + z.writes[j].len = e
      <4>1. m + i \in 1 .. m + n
        BY <1>1
      <4> QED
        BY <1>4, <3>2, <4>1
    <3> QED
      BY <1>1, <2>1, <3>1, <3>2 DEF Ends
  <2>8. Ends(z, e)
    <3>1. z.base.len = y.base.len /\ y.base.len <= e
      BY <1>3, <2>1, <2>4, <2>5
    <3> QED
      BY <1>4, <2>6, <2>7, <3>1 DEF Ends
  <2> QED
    BY <1>5, <2>1, <2>8, LenWrittenIs DEF e
<1> QED
  BY <1>3, <1>5, <1>7, <1>8, <1>9, <1>10, <1>11, <1>12 DEF Writes, z, Both

\* A write is joined to the last item of its file, which stands at p.
LEMMA JoinTold ==
  ASSUME NEW L, NEW K, NEW F, NEW F2, NEW x \in Item, x.op = "write",
         Moved(L, K, F, F2, x.file, Sets(x)), Alters(F, F2, x), NEW b, Told(L, F, b),
         NEW p \in 1 .. Len(K), IsLast(K, x.file, Len(K), p), K[p].op = "write",
         NEW K2, Len(K2) = Len(K), K2[p] = JoinedItem(K[p], x), \A i \in 1 .. Len(K) : i # p => K2[i] = K[i]
  PROVE  /\ Told(K2, F2, b) /\ K2[p] \in Item
         /\ Live(K2[p]) <=> Live(K[p])
         /\ K2[p].file = x.file
<1> DEFINE f == x.file
           y == K[p]
           z == K2[p]
<1>0. f \in File /\ x \in Writes /\ x \in WriteShape /\ p \in 1 .. Len(L)
  BY ItemShape, MovedParts DEF Writes
<1>1. /\ Len(L) \in Nat /\ Len(K) = Len(L)
      /\ \A i \in 1 .. Len(L) : /\ L[i] \in Item /\ K[i] \in Item /\ Alike(L[i], K[i])
                                /\ K[i].file = L[i].file /\ K[i].op = L[i].op /\ L[i].op \in Op
  BY MovedParts
<1>2. y.file = f /\ y.op = "write" /\ y \in Writes /\ y \in WriteShape
  BY <1>0, <1>1, ItemShape DEF IsLast, Writes
<1>3. z = JoinedItem(y, x)
  OBVIOUS
<1> HIDE DEF f, y, z
<1>4. /\ z \in Writes /\ z.file = y.file /\ z.op = "write" /\ z.base = y.base
      /\ \A c \in Cells : Covered(z, c) <=> Covered(y, c) \/ Covered(x, c)
      /\ \A c \in Cells : Covered(x, c) => CellWritten(z, c) = CellWritten(x, c)
      /\ \A c \in Cells : ~Covered(x, c) /\ Covered(y, c) => CellWritten(z, c) = CellWritten(y, c)
      /\ Touched(z) = Touched(y) \cup Touched(x)
      /\ x.base.len = LenWritten(y) => LenWritten(z) = LenWritten(x)
  <2>1. Both(y, x, z)
    BY <1>0, <1>2, <1>3, JoinedIs DEF f
  <2> QED
    BY <2>1 DEF Both
<1>5. z \in Item /\ (Live(z) <=> Live(y))
  BY <1>2, <1>4 DEF Item, Live
<1>6. IsLast(L, f, Len(L), p) /\ L[p].op = "write" /\ L[p].file = f
  <2>1. IsLast(K, f, Len(K), p)
    BY DEF f
  <2> QED
    BY <1>0, <1>1, <2>1 DEF IsLast
<1>7. Moves(L[p], y, F, F2, f, Sets(x))
  BY <1>0 DEF Moved, y, f
<1>8. ASSUME NEW c \in Cells, c \notin Sets(x) PROVE Shown(z, F2, c) = Shown(L[p], F, c)
  <2>1. ~Covered(x, c)
    BY <1>0, <1>8, ShapeParts DEF Sets
  <2>2. Shown(z, F2, c) = Shown(y, F2, c)
    BY <1>2, <1>4, <2>1 DEF Shown, Viewed
  <2>3. Shown(y, F2, c) = Shown(L[p], F, c)
    BY <1>7, <1>8 DEF Moves
  <2> QED
    BY <2>2, <2>3
<1>9. LineFor(L, F, Extent(b, f), CellsIn(b, f), f, Size(F, f), Has(F, f), TRUE)
  BY <1>0 DEF Told
<1>10. Size(F2, f) = Leaves(z)
  <2>1. Size(F2, f) = LenWritten(x) /\ x.base.len = Size(F, f)
    BY <1>0, ShapeParts DEF Alters, f, Leaves, Runs
  <2>2. Size(F, f) = Leaves(L[p])
    BY <1>1, <1>6, <1>9, AfterLast DEF LineFor
  <2>3. Leaves(L[p]) = Leaves(y)
    BY <1>0, <1>1, AlikeSame DEF Op, y
  <2>4. Leaves(y) = LenWritten(y) /\ Leaves(z) = LenWritten(z)
    BY <1>2, <1>4 DEF Leaves
  <2> QED
    BY <1>4, <2>1, <2>2, <2>3, <2>4
<1>11. ASSUME NEW c \in Cells, Decides(L[p], c) PROVE Decides(z, c)
  <2>1. Decides(y, c)
    BY <1>0, <1>1, <1>11, AlikeSame DEF Op, y
  <2> QED
    BY <1>2, <1>4, <2>1 DEF Decides
<1>12. ASSUME NEW c \in Cells, ~Later(L, p, f, c) PROVE Shown(z, F2, c) \in Has(F2, f)[c]
  <2>1. CASE c \in Sets(x)
    <3>1. Covered(x, c)
      BY <1>0, <2>1, ShapeParts DEF Sets
    <3>2. Shown(z, F2, c) = Shown(x, F2, c)
      BY <1>0, <1>4, <3>1, ShapeParts DEF Shown
    <3>3. Tells(x, c)
      BY <1>0, ShapeParts DEF Tells
    <3>4. Shown(x, F2, c) = Data(F2, f, c)
      BY <3>3 DEF Alters, f
    <3> QED
      BY <3>2, <3>4 DEF Has
  <2>2. CASE c \notin Sets(x)
    <3>1. Tells(L[p], c)
      BY <1>6 DEF Tells
    <3>2. Shown(L[p], F, c) = Data(F, f, c)
      BY <1>0, <1>6, <1>9, <1>12, <3>1 DEF LineFor, Has
    <3>3. Data(F2, f, c) = Data(F, f, c)
      BY <2>2 DEF Alters, f
    <3> QED
      BY <1>8, <2>2, <3>2, <3>3 DEF Has
  <2> QED
    BY <2>1, <2>2
<1>13. Outside(L, K2, f, F, F2, Has(F, f), Has(F2, f), z)
  <2> SUFFICES ASSUME NEW c \in Cells, ~Decides(z, c)
               PROVE  /\ Has(F, f)[c] \subseteq Has(F2, f)[c]
                      /\ \A i \in 1 .. Len(L) : Shown(K2[i], F2, c) = Shown(L[i], F, c)
    BY DEF Outside
  <2>1. c \notin Sets(x)
    <3>1. c \in Sets(x) => Block(c) \in Touched(x)
      BY <1>0, SetsDecides, ShapeParts DEF Decides
    <3> QED
      BY <1>4, <3>1 DEF Decides
  <2>2. Data(F2, f, c) = Data(F, f, c)
    BY <2>1 DEF Alters, f
  <2>3. ASSUME NEW i \in 1 .. Len(L) PROVE Shown(K2[i], F2, c) = Shown(L[i], F, c)
    <3>1. CASE i = p
      BY <1>8, <2>1, <3>1 DEF z
    <3>2. CASE i # p
      BY <1>1, <2>1, <3>2 DEF Moved, Moves
    <3> QED
      BY <3>1, <3>2
  <2> QED
    BY <2>2, <2>3 DEF Has
<1>14. /\ \A i \in 1 .. Len(L) : L[i].file = f <=> K2[i].file = f
       /\ \A i \in 1 .. Len(L) : L[i].file = f /\ i # p => Alike(L[i], K2[i]) /\ L[i].op \in Op
       /\ L[p].base.len = z.base.len
  <2>1. K2[p].file = f /\ L[p].file = f
    BY <1>2, <1>4, <1>6 DEF z
  <2>2. L[p].base.len = z.base.len
    BY <1>0, <1>1, <1>4, <1>6 DEF Alike, y
  <2> QED
    BY <1>1, <2>1, <2>2
<1>15. LineFor(K2, F2, Extent(b, f), CellsIn(b, f), f, Size(F2, f), Has(F2, f), TRUE)
  <2>1. z = K2[p] /\ Len(K2) = Len(L) /\ Len(L) \in Nat /\ p \in 1 .. Len(L)
    BY <1>0, <1>1 DEF z
  <2>2. L[p].op = "write" /\ K2[p].op = "write" /\ IsLast(L, f, Len(L), p) /\ L[p].base.len = K2[p].base.len
    BY <1>4, <1>6, <1>14, <2>1
  <2>3. \A i \in 1 .. Len(L) : L[i].file = f <=> K2[i].file = f
    BY <1>14
  <2>4. \A i \in 1 .. Len(L) : L[i].file = f /\ i # p => Alike(L[i], K2[i]) /\ L[i].op \in Op
    BY <1>14
  <2>5. Size(F2, f) = Leaves(K2[p])
    BY <1>10, <2>1
  <2>6. \A c \in Cells : Decides(L[p], c) => Decides(K2[p], c)
    BY <1>11, <2>1
  <2>7. \A c \in Cells : ~Later(L, p, f, c) => Shown(K2[p], F2, c) \in Has(F2, f)[c]
    BY <1>12, <2>1
  <2>8. Outside(L, K2, f, F, F2, Has(F, f), Has(F2, f), K2[p])
    BY <1>13, <2>1
  <2> QED
    BY <1>9, <2>1, <2>2, <2>3, <2>4, <2>5, <2>6, <2>7, <2>8, LineJoin
<1>16. ASSUME NEW g \in File, g # f
       PROVE  LineFor(K2, F2, Extent(b, g), CellsIn(b, g), g, Size(F2, g), Has(F2, g), TRUE)
  <2> DEFINE P == {<<i, i>> : i \in 1 .. Len(K)}
  <2>1. LineFor(K, F2, Extent(b, g), CellsIn(b, g), g, Size(F2, g), Has(F2, g), TRUE)
    BY <1>16, OthersTold DEF Alters, f
  <2>2. Paired(K, K2, P, g)
    <3>1. \A i \in 1 .. Len(K) : K[i].file = g => Alike(K[i], K2[i])
      BY <1>2, <1>16 DEF Alike, y
    <3>2. \A i \in 1 .. Len(K) : K[i].file = g <=> K2[i].file = g
      BY <1>2, <1>4, <1>16 DEF y, z
    <3> QED
      BY <1>1, <3>1, <3>2, PairedSame
  <2>3. \A q \in P, c \in Cells : K[q[1]].file = g => Shown(K2[q[2]], F2, c) \in {Shown(K[q[1]], F2, c)} \cup Has(F2, g)[c]
    BY <1>2, <1>16 DEF y
  <2>4. Len(K) \in Nat /\ Len(K2) \in Nat /\ \A i \in 1 .. Len(K) : K[i].op \in Op
    BY <1>1
  <2>5. \A c \in Cells : Has(F2, g)[c] \subseteq Has(F2, g)[c]
    OBVIOUS
  <2> HIDE DEF P
  <2> QED
    BY <2>1, <2>2, <2>3, <2>4, <2>5, PairedLine
<1> QED
  BY <1>2, <1>4, <1>5, <1>15, <1>16 DEF Told, y, z, f

-----------------------------------------------------------------------------
(* Deletions.                                                              *)

\* The first m items of K2 are those of K at the places e: all of the first p,
\* and behind them all that are not of f.
Skips(K, K2, f, p, m, e) ==
    /\ p \in Nat /\ m \in Nat /\ p <= m /\ p <= Len(K) /\ m <= Len(K2)
    /\ e \in [1 .. m -> 1 .. Len(K)]
    /\ \A k, l \in 1 .. m : k < l => e[k] < e[l]
    /\ \A k \in 1 .. m : K2[k] = K[e[k]]
    /\ \A k \in 1 .. p : e[k] = k
    /\ \A k \in p + 1 .. m : K2[k].file # f
    /\ \A i \in 1 .. Len(K) : K[i].file # f => \E k \in 1 .. m : e[k] = i

\* The other files do not see it.
LEMMA SkippedTold ==
  ASSUME NEW K, NEW K2, Len(K) \in Nat, Len(K2) \in Nat, \A i \in 1 .. Len(K) : K[i].op \in Op,
         NEW f, NEW p, NEW m, NEW e, Skips(K, K2, f, p, m, e),
         NEW g, g # f, \A k \in m + 1 .. Len(K2) : K2[k].file # g,
         NEW F2, NEW n, NEW cel, NEW size, NEW ok, LineFor(K, F2, n, cel, g, size, ok, TRUE)
  PROVE  LineFor(K2, F2, n, cel, g, size, ok, TRUE)
<1>1. /\ p \in Nat /\ m \in Nat /\ p <= m /\ m <= Len(K2)
      /\ e \in [1 .. m -> 1 .. Len(K)]
      /\ \A k, l \in 1 .. m : k < l => e[k] < e[l]
      /\ \A k \in 1 .. m : K2[k] = K[e[k]]
      /\ \A i \in 1 .. Len(K) : K[i].file # f => \E k \in 1 .. m : e[k] = i
  BY DEF Skips
<1> DEFINE P == {<<e[k], k>> : k \in 1 .. m}
<1>2. \A q \in P : \E k \in 1 .. m : q = <<e[k], k>>
  OBVIOUS
<1>3. P \subseteq (1 .. Len(K)) \X (1 .. Len(K2))
  BY <1>1
<1>4. \A q, r \in P : q[1] < r[1] <=> q[2] < r[2]
  <2> SUFFICES ASSUME NEW k \in 1 .. m, NEW l \in 1 .. m PROVE e[k] < e[l] <=> k < l
    BY <1>2
  <2>1. e[k] \in Nat /\ e[l] \in Nat
    BY <1>1
  <2>2. k < l => e[k] < e[l]
    BY <1>1
  <2>3. l < k => e[l] < e[k]
    BY <1>1
  <2>4. k = l => e[k] = e[l]
    OBVIOUS
  <2> QED
    BY <2>1, <2>2, <2>3, <2>4
<1>5. \A q \in P : K2[q[2]] = K[q[1]] /\ Alike(K[q[1]], K2[q[2]])
  BY <1>1, <1>2 DEF Alike
<1>6. \A i \in 1 .. Len(K) : K[i].file = g => \E j \in 1 .. Len(K2) : <<i, j>> \in P
  <2> SUFFICES ASSUME NEW i \in 1 .. Len(K), K[i].file = g PROVE \E j \in 1 .. Len(K2) : <<i, j>> \in P
    OBVIOUS
  <2>1. PICK k \in 1 .. m : e[k] = i
    BY <1>1
  <2> QED
    BY <1>1, <2>1
<1>7. \A j \in 1 .. Len(K2) : K2[j].file = g => \E i \in 1 .. Len(K) : <<i, j>> \in P
  <2> SUFFICES ASSUME NEW j \in 1 .. Len(K2), K2[j].file = g PROVE \E i \in 1 .. Len(K) : <<i, j>> \in P
    OBVIOUS
  <2>1. j \in 1 .. m
    BY <1>1
  <2> QED
    BY <1>1, <2>1
<1> HIDE DEF P
<1>8. Paired(K, K2, P, g)
  BY <1>3, <1>4, <1>5, <1>6, <1>7 DEF Paired
<1>9. \A q \in P, c \in Cells : K[q[1]].file = g => Shown(K2[q[2]], F2, c) \in {Shown(K[q[1]], F2, c)} \cup ok[c]
  BY <1>5
<1>10. \A c \in Cells : ok[c] \subseteq ok[c]
  OBVIOUS
<1> QED
  BY <1>8, <1>9, <1>10, PairedLine

\* The items of q between these places are of f.
AllOf(q, f, p, s) == \A i \in p + 1 .. s : q[i].file = f

\* The line makes of the store b the files F, but for f.
ToldBut(L, F, b, f) ==
    \A g \in File : g # f => LineFor(L, F, Extent(b, g), CellsIn(b, g), g, Size(F, g), Has(F, g), TRUE)

LEMMA SkippedOthers ==
  ASSUME NEW L, NEW K, NEW F, NEW F2, NEW f, NEW X, Moved(L, K, F, F2, f, X),
         SameBut(F, F2, f), NEW b, Told(L, F, b),
         NEW K2, Len(K2) \in Nat, NEW p, NEW m, NEW e, Skips(K, K2, f, p, m, e),
         AllOf(K2, f, m, Len(K2))
  PROVE  ToldBut(K2, F2, b, f)
<1> (\A g : g # f => Same(F, F2, g)) /\ \A k \in m + 1 .. Len(K2) : K2[k].file = f
  BY DEF SameBut, AllOf
<1> SUFFICES ASSUME NEW g \in File, g # f
             PROVE  LineFor(K2, F2, Extent(b, g), CellsIn(b, g), g, Size(F2, g), Has(F2, g), TRUE)
  BY DEF ToldBut
<1>1. LineFor(K, F2, Extent(b, g), CellsIn(b, g), g, Size(F2, g), Has(F2, g), TRUE)
  BY OthersTold
<1>2. \A k \in m + 1 .. Len(K2) : K2[k].file # g
  OBVIOUS
<1>3. Len(K) \in Nat /\ \A i \in 1 .. Len(K) : K[i].op \in Op
  BY MovedParts
<1> QED
  BY <1>1, <1>2, <1>3, SkippedTold

\* Behind the place p the items of f are writes.
WritesOnly(K, f, p) == \A i \in p + 1 .. Len(K) : K[i].file = f => K[i].op = "write"

\* A deletion is put behind the items that are left; s is the place of the
\* last item that it does not look past.
LEMMA DeleteTold ==
  ASSUME NEW L, NEW K, NEW F, NEW F2, NEW x \in Item, x.op = "delete",
         Moved(L, K, F, F2, x.file, Sets(x)), Alters(F, F2, x), NEW b, Told(L, F, b),
         NEW K2, Len(K2) \in Nat \ {0}, K2[Len(K2)] = x,
         NEW p, NEW n, n = Len(K2) - 1, NEW e, Skips(K, K2, x.file, p, n, e), WritesOnly(K, x.file, p)
  PROVE  Told(K2, F2, b)
<1> DEFINE f == x.file
<1> \A i \in p + 1 .. Len(K) : K[i].file = x.file => K[i].op = "write"
  BY DEF WritesOnly
<1>0. f \in File
  BY ItemShape
<1>1. /\ Len(L) \in Nat /\ Len(K) = Len(L)
      /\ \A i \in 1 .. Len(L) : /\ L[i] \in Item /\ K[i] \in Item /\ Alike(L[i], K[i])
                                /\ K[i].file = L[i].file /\ K[i].op = L[i].op /\ L[i].op \in Op
  BY MovedParts
<1>2. PICK m \in Nat : m = Len(K2) - 1
  OBVIOUS
<1>3. Skips(K, K2, f, p, m, e)
  BY <1>2
<1>4. /\ p \in Nat /\ p <= m /\ p <= Len(K)
      /\ \A k \in 1 .. m : K2[k] = K[e[k]]
      /\ \A k \in 1 .. p : e[k] = k
      /\ \A k \in p + 1 .. m : K2[k].file # f
  BY <1>3 DEF Skips
<1>5. \A g \in File : g # f => LineFor(K2, F2, Extent(b, g), CellsIn(b, g), g, Size(F2, g), Has(F2, g), TRUE)
  <2>1. AllOf(K2, f, m, Len(K2))
    <3>1. \A k \in m + 1 .. Len(K2) : k = Len(K2)
      BY <1>2
    <3> QED
      BY <3>1 DEF AllOf
  <2>2. SameBut(F, F2, f)
    BY DEF Alters, SameBut
  <2>3. ToldBut(K2, F2, b, f)
    BY <1>3, <2>1, <2>2, SkippedOthers
  <2> QED
    BY <2>3 DEF ToldBut
<1>6. LineFor(K2, F2, Extent(b, f), CellsIn(b, f), f, Size(F2, f), Has(F2, f), TRUE)
  <2>1. p \in 0 .. Len(L) /\ p < Len(K2) /\ Len(K2) \in Nat /\ Len(L) \in Nat
    BY <1>1, <1>2, <1>4
  <2>2. Prefix(L, K2, f, p)
    <3>1. \A k \in 1 .. p : k \in 1 .. Len(L) /\ K2[k] = K[k]
      BY <1>1, <1>4
    <3> QED
      BY <1>1, <3>1 DEF Prefix
  <2>3. \A j \in p + 1 .. Len(K2) - 1 : K2[j].file # f
    BY <1>2, <1>4
  <2>4. \A j \in p + 1 .. Len(L) : L[j].file = f => L[j].op = "write" /\ L[j].base.len >= 0
    <3> SUFFICES ASSUME NEW j \in p + 1 .. Len(L), L[j].file = f PROVE L[j].op = "write" /\ L[j].base.len >= 0
      OBVIOUS
    <3>1. j \in 1 .. Len(L) /\ j \in p + 1 .. Len(K)
      BY <1>1, <1>4
    <3>2. L[j].op = "write" /\ L[j] \in Item
      BY <1>1, <3>1
    <3> QED
      BY <3>2, ItemShape, ShapeParts
  <2>5. LineFor(L, F, Extent(b, f), CellsIn(b, f), f, Size(F, f), Has(F, f), TRUE)
    BY <1>0 DEF Told
  <2>6. Size(F, f) >= 0 /\ Size(F2, f) = -1
    BY DEF Alters, Runs, Leaves
  <2>7. \A c \in Cells : 0 \in Has(F2, f)[c]
    BY DEF Alters, Tells, Shown, Has
  <2>8. K2[Len(K2)].file = f /\ K2[Len(K2)].op = "delete"
    OBVIOUS
  <2> HIDE DEF f
  <2> QED
    <3>1. Cleared(L, K2, f, p)
      BY <2>1, <2>2, <2>3, <2>4, <2>8 DEF Cleared
    <3> QED
      BY <2>1, <2>5, <2>6, <2>7, <3>1, LineDelete
<1> QED
  BY <1>5, <1>6 DEF Told

\* A creation that waits is dropped.
LEMMA ForgetTold ==
  ASSUME NEW L, NEW K, NEW F, NEW F2, NEW x \in Item, x.op = "delete",
         Moved(L, K, F, F2, x.file, Sets(x)), Alters(F, F2, x), NEW b \in Db, Told(L, F, b),
         NEW K2, Len(K2) \in Nat, NEW s \in 1 .. Len(K), K[s].file = x.file, K[s].op = "create",
         NEW p, NEW e, Skips(K, K2, x.file, p, Len(K2), e), p = s - 1
  PROVE  Told(K2, F2, b)
<1> DEFINE f == x.file
<1>0. f \in File
  BY ItemShape
<1>2. PICK m \in Nat : m = Len(K2)
  OBVIOUS
<1>3. Skips(K, K2, f, p, m, e)
  BY <1>2
<1>1. /\ Len(L) \in Nat /\ Len(K) = Len(L)
      /\ \A i \in 1 .. Len(L) : /\ L[i] \in Item /\ K[i] \in Item /\ Alike(L[i], K[i])
                                /\ K[i].file = L[i].file /\ K[i].op = L[i].op /\ L[i].op \in Op
  BY MovedParts
<1>4. /\ p \in Nat /\ p <= m /\ p <= Len(K)
      /\ \A k \in 1 .. m : K2[k] = K[e[k]]
      /\ \A k \in 1 .. p : e[k] = k
      /\ \A k \in p + 1 .. m : K2[k].file # f
  BY <1>3 DEF Skips
<1>5. \A g \in File : g # f => LineFor(K2, F2, Extent(b, g), CellsIn(b, g), g, Size(F2, g), Has(F2, g), TRUE)
  <2>1. AllOf(K2, f, Len(K2), Len(K2))
    BY DEF AllOf
  <2>2. SameBut(F, F2, f)
    BY DEF Alters, SameBut
  <2>3. ToldBut(K2, F2, b, f)
    BY <2>1, <2>2, SkippedOthers
  <2> QED
    BY <2>3 DEF ToldBut
<1>6. LineFor(K2, F2, Extent(b, f), CellsIn(b, f), f, Size(F2, f), Has(F2, f), TRUE)
  <2>1. s \in 1 .. Len(L) /\ s - 1 <= Len(K2) /\ Len(L) \in Nat
    BY <1>1, <1>2, <1>4
  <2>2. Prefix(L, K2, f, s - 1)
    <3>1. \A k \in 1 .. p : k \in 1 .. Len(L) /\ k \in 1 .. m /\ e[k] = k
      BY <1>1, <1>4
    <3>3. \A k \in 1 .. p : K2[k] = K[k]
      BY <1>4, <3>1
    <3>2. Prefix(L, K2, f, p)
      BY <1>1, <3>1, <3>3 DEF Prefix
    <3> QED
      BY <3>2
  <2>3. \A j \in s .. Len(K2) : K2[j].file # f
    BY <1>2, <1>4
  <2>4. L[s].file = f /\ L[s].op = "create"
    BY <1>1
  <2>5. \A i \in 1 .. s - 1 : Leaves(L[i]) = -1 => L[i].op = "delete"
    BY <1>1, LeavesIs
  <2>6. LineFor(L, F, Extent(b, f), CellsIn(b, f), f, Size(F, f), Has(F, f), TRUE)
    BY <1>0 DEF Told
  <2>7. Size(F2, f) = -1 /\ \A c \in Cells : 0 \in Has(F2, f)[c]
    BY DEF Alters, Tells, Shown, Has, Leaves
  <2>8. \A c \in Cells : Extent(b, f) = -1 => CellsIn(b, f)[c] = 0
    BY ExtentIs, OfIs DEF CellsIn
  <2> HIDE DEF f
  <2> QED
    <3>1. Forgotten(L, K2, f, s)
      BY <2>1, <2>2, <2>3, <2>4, <2>5 DEF Forgotten
    <3> QED
      BY <2>1, <2>6, <2>7, <2>8, <3>1, LineForget
<1> QED
  BY <1>5, <1>6 DEF Told

\* A file that is there is not deleted by the last item that is more than a write.
LEMMA DeletedOnce ==
  ASSUME NEW L, NEW f, Len(L) \in Nat, \A i \in 1 .. Len(L) : L[i] \in Item,
         NEW F, NEW n, NEW cel, NEW ok, NEW size, size >= 0, LineFor(L, F, n, cel, f, size, ok, TRUE),
         NEW s \in 1 .. Len(L), L[s].file = f, L[s].op = "delete",
         WritesOnly(L, f, s)
  PROVE  FALSE
<1> \A i \in s + 1 .. Len(L) : L[i].file = f => L[i].op = "write"
  BY DEF WritesOnly
<1> DEFINE T == {j \in s + 1 .. Len(L) : L[j].file = f}
<1>1. Leaves(L[s]) = -1
  BY DEF Leaves
<1>2. CASE T = {}
  <2>1. IsLast(L, f, Len(L), s)
    BY <1>2 DEF IsLast
  <2>2. size = Leaves(L[s])
    BY <2>1, AfterLast DEF LineFor
  <2> QED
    BY <1>1, <2>2
<1>3. CASE T # {}
  <2>1. T \subseteq Nat
    OBVIOUS
  <2>2. PICK j \in T : \A i \in T : j <= i
    BY <1>3, <2>1, Least
  <2>3. j \in 1 .. Len(L) /\ j \in s + 1 .. Len(L) /\ L[j].file = f /\ L[j].op = "write" /\ L[j] \in Item
    OBVIOUS
  <2>4. PICK k \in Nat : k = j - 1
    BY <2>3
  <2>5. IsLast(L, f, k, s)
    <3>1. s \in 1 .. k
      BY <2>3, <2>4
    <3>2. ASSUME NEW i \in s + 1 .. k, L[i].file = f PROVE FALSE
      <4>1. i \in T /\ i < j
        BY <2>3, <2>4, <3>2
      <4> QED
        BY <2>2, <2>3, <4>1
    <3> QED
      BY <3>1, <3>2 DEF IsLast
  <2>6. After(L, n, f, k) = -1
    BY <1>1, <2>5, AfterLast
  <2>7. Runs(L[j], -1)
    BY <2>3, <2>4, <2>6 DEF LineFor
  <2>8. L[j].base.len \in 0 .. MaxLen
    BY <2>3, ItemShape, ShapeParts
  <2> QED
    BY <2>3, <2>7, <2>8 DEF Runs
<1> QED
  BY <1>2, <1>3

-----------------------------------------------------------------------------
(* What becomes of the queue.                                              *)

\* r is what the items behind the place s of q leave when those of f are taken out.
Rests(q, s, f, r, h) ==
    /\ r \in Seq(Item)
    /\ \E t \in Seq(Item) :
         /\ Len(t) = Len(q) - s /\ \A i \in 1 .. Len(t) : t[i] = q[s + i]
         /\ Rest(r, t, f, h)

Places(q, s, f, r, h) ==
    /\ h \in [1 .. Len(r) -> 1 .. Len(q) - s]
    /\ \A k, l \in 1 .. Len(r) : k < l => h[k] < h[l]
    /\ \A k \in 1 .. Len(r) : r[k] = q[s + h[k]] /\ r[k].file # f
    /\ \A i \in 1 .. Len(q) - s : q[s + i].file # f => \E k \in 1 .. Len(r) : h[k] = i

LEMMA RestsIs ==
  ASSUME NEW q \in Seq(Item), NEW s \in 0 .. Len(q), NEW f, NEW r, NEW h, Rests(q, s, f, r, h)
  PROVE  r \in Seq(Item) /\ Len(r) \in Nat /\ Places(q, s, f, r, h)
<1>1. PICK t \in Seq(Item) :
        /\ Len(t) = Len(q) - s /\ \A i \in 1 .. Len(t) : t[i] = q[s + i]
        /\ Rest(r, t, f, h)
  BY DEF Rests
<1>2. r \in Seq(Item) /\ Len(r) \in Nat
  BY DEF Rests
<1> QED
  BY <1>1, <1>2 DEF Rest, Picks, Places

\* K has the first n items of q behind the place a.
Copied(K, a, q, n) == \A i \in 1 .. n : K[a + i] = q[i]

LEMMA PlaceIn ==
  ASSUME NEW m \in Nat, NEW n \in Nat, NEW i \in 1 .. m + n, i > m
  PROVE  \E j \in 1 .. n : i = m + j
<1>1. i - m \in 1 .. n /\ i = m + (i - m)
  OBVIOUS
<1> QED
  BY <1>1

Rising(h, n) == \A k, l \in 1 .. n : k < l => h[k] < h[l]
Totals(m, a, n) == m = a + n
Shift(a, d, h, m) == [k \in 1 .. m |-> IF k <= a THEN k ELSE d + h[k - a]]

ShiftedBy(e, a, d, h, n, g, m) ==
    /\ e \in [1 .. m -> 1 .. d + g]
    /\ \A k, l \in 1 .. m : k < l => e[k] < e[l]
    /\ \A k \in 1 .. a : e[k] = k
    /\ \A j \in 1 .. n : a + j \in 1 .. m /\ e[a + j] = d + h[j]

\* The numbers: the first a places are kept, the others are moved by h.
LEMMA Shifted ==
  ASSUME NEW a \in Nat, NEW d \in Nat, a <= d, NEW n \in Nat, NEW g \in Nat,
         NEW h \in [1 .. n -> 1 .. g], Rising(h, n),
         NEW m, Totals(m, a, n)
  PROVE  ShiftedBy(Shift(a, d, h, m), a, d, h, n, g, m)
<1> DEFINE e == Shift(a, d, h, m)
<1>0. e = [k \in 1 .. m |-> IF k <= a THEN k ELSE d + h[k - a]]
  BY DEF Shift
<1> m \in Nat /\ m = a + n
  BY DEF Totals
<1> HIDE DEF e
<1>1. \A k \in 1 .. a : e[k] = k /\ k \in 1 .. m
  BY <1>0
<1>2. ASSUME NEW j \in 1 .. n PROVE a + j \in 1 .. m /\ e[a + j] = d + h[j]
  <2>1. a + j \in 1 .. m /\ ~(a + j <= a) /\ (a + j) - a = j
    OBVIOUS
  <2> QED
    BY <1>0, <2>1
<1>3. \A k \in 1 .. m : k \in 1 .. a \/ \E j \in 1 .. n : k = a + j
  <2> SUFFICES ASSUME NEW k \in 1 .. m, k \notin 1 .. a PROVE \E j \in 1 .. n : k = a + j
    OBVIOUS
  <2>1. k - a \in 1 .. n /\ k = a + (k - a)
    OBVIOUS
  <2> QED
    BY <2>1
<1>4. DOMAIN e = 1 .. m /\ e = [k \in 1 .. m |-> e[k]]
  BY <1>0
<1>5. ASSUME NEW k \in 1 .. m PROVE e[k] \in 1 .. d + g
  <2>1. CASE k \in 1 .. a
    BY <1>1, <2>1
  <2>2. ASSUME NEW j \in 1 .. n, k = a + j PROVE e[k] \in 1 .. d + g
    <3>1. e[k] = d + h[j] /\ h[j] \in 1 .. g
      BY <1>2, <2>2
    <3> QED
      BY <3>1
  <2> QED
    BY <1>3, <2>1, <2>2
<1>6. ASSUME NEW k \in 1 .. m, NEW l \in 1 .. m, k < l PROVE e[k] < e[l]
  <2>1. CASE k \in 1 .. a /\ l \in 1 .. a
    BY <1>1, <1>6, <2>1
  <2>2. ASSUME k \in 1 .. a, NEW j \in 1 .. n, l = a + j PROVE e[k] < e[l]
    <3>1. e[k] = k /\ e[l] = d + h[j] /\ h[j] \in 1 .. g
      BY <1>1, <1>2, <2>2
    <3> QED
      BY <2>2, <3>1
  <2>3. ASSUME NEW j \in 1 .. n, l = a + j, NEW i \in 1 .. n, k = a + i PROVE e[k] < e[l]
    <3>1. i < j
      BY <1>6, <2>3
    <3>2. h[i] < h[j] /\ h[i] \in 1 .. g /\ h[j] \in 1 .. g
      BY <3>1 DEF Rising
    <3>3. e[k] = d + h[i] /\ e[l] = d + h[j]
      BY <1>2, <2>3
    <3> QED
      BY <3>2, <3>3
  <2>4. ~(l \in 1 .. a /\ k \notin 1 .. a)
    BY <1>6
  <2> QED
    BY <1>3, <2>1, <2>2, <2>3, <2>4
<1>7. e \in [1 .. m -> 1 .. d + g]
  BY <1>4, <1>5
<1>8. ShiftedBy(e, a, d, h, n, g, m)
  BY <1>1, <1>2, <1>6, <1>7 DEF ShiftedBy
<1> QED
  BY <1>8 DEF e

LEMMA Before ==
  ASSUME NEW n \in Nat, NEW p \in Nat, NEW a, a = n + p, NEW k \in 1 .. n
  PROVE  k \in 1 .. a /\ ~(k > a)
OBVIOUS

\* Behind B, the first p items of q and then r, where those from p to s are of f.
LEMMA PartSkips ==
  ASSUME NEW B \in Seq(Item), NEW q \in Seq(Item), NEW f, NEW s \in 0 .. Len(q), NEW p \in 0 .. s,
         AllOf(q, f, p, s), NEW r, NEW h, Rests(q, s, f, r, h),
         NEW K2, NEW a, a = Len(B) + p, NEW m, m = a + Len(r), Len(K2) \in Nat, m <= Len(K2),
         \A i \in 1 .. Len(B) : K2[i] = B[i], Copied(K2, Len(B), q, p), Copied(K2, a, r, Len(r))
  PROVE  \E e : Skips(B \o q, K2, f, a, m, e)
<1>0. /\ \A i \in p + 1 .. s : q[i].file = f
      /\ \A i \in 1 .. p : K2[Len(B) + i] = q[i]
      /\ \A i \in 1 .. Len(r) : K2[a + i] = r[i]
  BY DEF AllOf, Copied
<1> DEFINE K == B \o q
           e == Shift(a, Len(B) + s, h, m)
<1>1. PICK nb \in Nat, lq \in Nat, lr \in Nat, d \in Nat, g \in Nat :
        nb = Len(B) /\ lq = Len(q) /\ lr = Len(r) /\ d = nb + s /\ g = lq - s
  <2>1. Len(B) \in Nat /\ Len(q) \in Nat /\ Len(r) \in Nat
    BY RestsIs
  <2>2. Len(B) + s \in Nat /\ Len(q) - s \in Nat
    BY <2>1
  <2> QED
    BY <2>1, <2>2
<1>2. s \in Nat /\ p \in Nat /\ p <= s /\ a \in Nat /\ a = nb + p /\ m \in Nat /\ m = a + lr /\ a <= d
      /\ d + g = nb + lq
  BY <1>1
<1>3. /\ h \in [1 .. lr -> 1 .. g]
      /\ \A k, l \in 1 .. lr : k < l => h[k] < h[l]
      /\ \A k \in 1 .. lr : r[k] = q[s + h[k]] /\ r[k].file # f
      /\ \A i \in 1 .. g : q[s + i].file # f => \E k \in 1 .. lr : h[k] = i
  <2>1. Places(q, s, f, r, h)
    BY RestsIs
  <2> QED
    BY <1>1, <2>1 DEF Places
<1>4. /\ Len(K) = nb + lq
      /\ \A i \in 1 .. nb : K[i] = B[i]
      /\ \A i \in 1 .. lq : K[nb + i] = q[i]
  BY <1>1, ConcatIs
<1> HIDE DEF K
<1>5. e = Shift(a, d, h, m) /\ Rising(h, lr) /\ Totals(m, a, lr)
  BY <1>1, <1>2, <1>3 DEF Rising, Totals
<1> HIDE DEF e
<1>6. /\ e \in [1 .. m -> 1 .. d + g]
      /\ \A k, l \in 1 .. m : k < l => e[k] < e[l]
      /\ \A k \in 1 .. a : e[k] = k
      /\ \A j \in 1 .. lr : a + j \in 1 .. m /\ e[a + j] = d + h[j]
  <2>1. ShiftedBy(Shift(a, d, h, m), a, d, h, lr, g, m)
    BY <1>2, <1>3, <1>5, Shifted
  <2> QED
    BY <1>5, <2>1 DEF ShiftedBy
<1>7. /\ \A i \in p + 1 .. s : q[i].file = f
      /\ \A i \in 1 .. nb : K2[i] = B[i]
      /\ \A i \in 1 .. p : K2[nb + i] = q[i]
      /\ \A i \in 1 .. lr : K2[a + i] = r[i]
  BY <1>0, <1>1
<1>8. ASSUME NEW k \in 1 .. m PROVE K2[k] = K[e[k]] /\ (k > a => K2[k].file # f)
  <2>1. CASE k \in 1 .. nb
    <3>1. k \in 1 .. a /\ ~(k > a)
      BY <1>2, <2>1, Before
    <3>2. e[k] = k
      BY <1>6, <3>1
    <3> QED
      BY <1>4, <1>7, <2>1, <3>1, <3>2
  <2>2. CASE k > nb /\ k <= a
    <3>1. PICK i \in 1 .. p : k = nb + i
      <4>1. k \in 1 .. nb + p
        BY <1>2, <2>2
      <4> QED
        BY <1>2, <2>2, <4>1, PlaceIn
    <3>2. i \in 1 .. lq /\ k \in 1 .. a
      BY <1>1, <1>2, <2>2
    <3>3. K2[k] = q[i] /\ K[k] = q[i]
      BY <1>4, <1>7, <3>1, <3>2
    <3>4. e[k] = k
      BY <1>6, <3>2
    <3> QED
      BY <1>2, <2>2, <3>3, <3>4
  <2>3. CASE k > a
    <3>1. PICK j \in 1 .. lr : k = a + j
      <4>1. k \in 1 .. a + lr
        BY <1>2
      <4> QED
        BY <1>2, <2>3, <4>1, PlaceIn
    <3>2. K2[k] = r[j] /\ r[j] = q[s + h[j]] /\ r[j].file # f
      BY <1>3, <1>7, <3>1
    <3>3. e[k] = d + h[j] /\ h[j] \in 1 .. g
      BY <1>3, <1>6, <3>1
    <3>4. s + h[j] \in 1 .. lq /\ nb + (s + h[j]) = d + h[j]
      <4>1. PICK t \in 1 .. g : t = h[j]
        BY <3>3
      <4>2. s + t \in 1 .. lq /\ nb + (s + t) = d + t
        BY <1>1, <1>2
      <4> QED
        BY <4>1, <4>2
    <3>5. K[nb + (s + h[j])] = q[s + h[j]]
      BY <1>4, <3>4
    <3>6. K[e[k]] = q[s + h[j]]
      BY <3>3, <3>4, <3>5
    <3> QED
      BY <3>2, <3>6
  <2>4. k \in 1 .. nb \/ (k > nb /\ k <= a) \/ k > a
    <3>1. k \in Int /\ 1 <= k /\ nb \in Int /\ a \in Int
      BY <1>2
    <3> QED
      BY <3>1
  <2> QED
    BY <2>1, <2>2, <2>3, <2>4
<1>9. ASSUME NEW i \in 1 .. nb + lq, K[i].file # f PROVE \E k \in 1 .. m : e[k] = i
  <2>1. CASE i <= a
    <3>1. i \in 1 .. a /\ i \in 1 .. m
      BY <1>2, <2>1
    <3> QED
      BY <1>6, <3>1
  <2>2. CASE a < i /\ i <= d
    <3>1. PICK j \in 1 .. lq : i = nb + j
      <4>1. i > nb
        BY <1>2, <2>2
      <4> QED
        BY <4>1, PlaceIn
    <3>2. j \in p + 1 .. s
      BY <1>1, <1>2, <2>2, <3>1
    <3> QED
      BY <1>4, <1>7, <1>9, <3>1, <3>2
  <2>3. CASE d < i
    <3>1. PICK j \in 1 .. g : i = d + j
      <4>1. i \in 1 .. d + g
        BY <1>2
      <4> QED
        BY <2>3, <4>1, PlaceIn
    <3>2. s + j \in 1 .. lq /\ i = nb + (s + j)
      BY <1>1, <1>2, <3>1
    <3>3. K[nb + (s + j)] = q[s + j]
      BY <1>4, <3>2
    <3>4. PICK k \in 1 .. lr : h[k] = j
      BY <1>3, <1>9, <3>2, <3>3
    <3>5. a + k \in 1 .. m /\ e[a + k] = i
      BY <1>6, <3>1, <3>4
    <3> QED
      BY <3>5
  <2>4. i <= a \/ (a < i /\ i <= d) \/ d < i
    BY <1>2
  <2> QED
    BY <2>1, <2>2, <2>3, <2>4
<1>10. /\ a <= m /\ a <= Len(K) /\ Len(K) = nb + lq /\ Len(K) = d + g
       /\ \A k \in a + 1 .. m : k \in 1 .. m /\ k > a
  BY <1>2, <1>4, SMTT(60)
<1>11. Skips(K, K2, f, a, m, e)
  <2>1. e \in [1 .. m -> 1 .. Len(K)]
    BY <1>6, <1>10
  <2>2. \A k \in 1 .. m : K2[k] = K[e[k]]
    BY <1>8
  <2>3. \A k \in a + 1 .. m : K2[k].file # f
    BY <1>8, <1>10
  <2>4. \A i \in 1 .. Len(K) : K[i].file # f => \E k \in 1 .. m : e[k] = i
    BY <1>9, <1>10
  <2> QED
    BY <1>2, <1>6, <1>10, <2>1, <2>2, <2>3, <2>4 DEF Skips
<1> QED
  BY <1>11 DEF K

-----------------------------------------------------------------------------
(* Deletions and writes that wait.                                         *)

LEMMA SubSeqIs ==
  ASSUME NEW T, NEW q \in Seq(T), NEW m \in 1 .. Len(q) + 1, NEW n \in m - 1 .. Len(q)
  PROVE  /\ SubSeq(q, m, n) \in Seq(T) /\ Len(SubSeq(q, m, n)) = n - m + 1
         /\ \A i \in 1 .. n - m + 1 : SubSeq(q, m, n)[i] = q[m + i - 1]
OBVIOUS

\* A deletion of f: s is the place where it stops looking for writes.
Stops(q, f, s) ==
    \A i \in s + 1 .. Len(q) : q[i].op # "truncate" /\ (q[i].file = f => q[i].op = "write")

\* What it does with what is left behind s.
Deletes(q, f, s, r) ==
    \/ Deletion(q, f) = [added |-> TRUE, queue |-> SubSeq(q, 1, s) \o r \o <<Delete(f)>>]
    \/ /\ s # 0 /\ q[s].file = f /\ q[s].op = "create"
       /\ Deletion(q, f) = [added |-> FALSE, queue |-> SubSeq(q, 1, s - 1) \o r]
    \/ /\ s # 0 /\ q[s].file = f /\ q[s].op = "delete"
       /\ Deletion(q, f) = [added |-> FALSE, queue |-> SubSeq(q, 1, s) \o r]

LEMMA DeletionIs ==
  ASSUME NEW q \in Seq(Item), NEW f \in File
  PROVE  \E s \in 0 .. Len(q) : \E r, h : Stops(q, f, s) /\ Rests(q, s, f, r, h) /\ Deletes(q, f, s, r)
<1> DEFINE T == {i \in DOMAIN q : \/ q[i].op = "truncate"
                                  \/ q[i].file = f /\ q[i].op \in {"delete", "create"}}
           s == LastOf(T)
           t == SubSeq(q, s + 1, Len(q))
           r == Without(t, f)
           before == SubSeq(q, 1, s)
<1>1. Len(q) \in Nat /\ DOMAIN q = 1 .. Len(q) /\ \A i \in 1 .. Len(q) : q[i] \in Item /\ q[i].op \in Op
  BY ItemShape
<1>2. T \subseteq 1 .. Len(q)
  BY <1>1
<1>3. \A i : i \in T <=> i \in 1 .. Len(q) /\ (\/ q[i].op = "truncate"
                                               \/ q[i].file = f /\ q[i].op \in {"delete", "create"})
  BY <1>1
<1>4. Deletion(q, f) = IF s = 0 \/ q[s].op = "truncate"
                       THEN [added |-> TRUE, queue |-> before \o r \o <<Delete(f)>>]
                       ELSE [added |-> FALSE,
                             queue |-> (IF q[s].op = "create" THEN Front(before) ELSE before) \o r]
  BY DEF Deletion
<1> HIDE DEF T
<1>5. /\ s \in 0 .. Len(q) /\ (s # 0 => s \in T)
      /\ \A k \in T : k <= s
  BY <1>1, <1>2, LastOfIs
<1> HIDE DEF s
<1>6. Stops(q, f, s)
  <2> SUFFICES ASSUME NEW i \in s + 1 .. Len(q) PROVE q[i].op # "truncate" /\ (q[i].file = f => q[i].op = "write")
    BY DEF Stops
  <2>1. i \in 1 .. Len(q) /\ i \notin T
    BY <1>1, <1>5
  <2> QED
    BY <1>1, <1>3, <2>1 DEF Op
<1>7. t \in Seq(Item) /\ Len(t) = Len(q) - s /\ \A i \in 1 .. Len(t) : t[i] = q[s + i]
  <2>1. s + 1 \in 1 .. Len(q) + 1 /\ Len(q) \in s + 1 - 1 .. Len(q)
    BY <1>1, <1>5
  <2>2. t \in Seq(Item) /\ Len(t) = Len(q) - (s + 1) + 1
        /\ \A i \in 1 .. Len(q) - (s + 1) + 1 : t[i] = q[s + 1 + i - 1]
    BY <2>1, SubSeqIs
  <2>3. Len(q) - (s + 1) + 1 = Len(q) - s /\ \A i \in Int : s + 1 + i - 1 = s + i
    BY <1>1, <1>5
  <2> HIDE DEF t
  <2>4. Len(t) = Len(q) - s
    BY <2>2, <2>3
  <2>5. ASSUME NEW i \in 1 .. Len(t) PROVE t[i] = q[s + i]
    <3>1. i \in 1 .. Len(q) - (s + 1) + 1 /\ i \in Int
      BY <2>2, <2>5
    <3>2. t[i] = q[s + 1 + i - 1]
      BY <2>2, <3>1
    <3>3. s + 1 + i - 1 = s + i
      BY <2>3, <3>1
    <3> QED
      BY <3>2, <3>3
  <2> QED
    BY <2>2, <2>4, <2>5
<1> HIDE DEF t
<1>8. r \in Seq(Item) /\ \E h : Rest(r, t, f, h)
  BY <1>7, WithoutPicks
<1> HIDE DEF r
<1>9. PICK h : Rests(q, s, f, r, h)
  BY <1>7, <1>8 DEF Rests
<1>10. CASE s = 0 \/ q[s].op = "truncate"
  <2>1. Deletion(q, f) = [added |-> TRUE, queue |-> SubSeq(q, 1, s) \o r \o <<Delete(f)>>]
    BY <1>4, <1>10
  <2>2. Deletes(q, f, s, r)
    BY <2>1 DEF Deletes
  <2> QED
    BY <1>5, <1>6, <1>9, <2>2
<1>11. CASE s # 0 /\ q[s].op # "truncate"
  <2>1. q[s].file = f /\ q[s].op \in {"delete", "create"} /\ s \in 1 .. Len(q)
    BY <1>3, <1>5, <1>11
  <2>2. CASE q[s].op = "create"
    <3>1. Deletion(q, f) = [added |-> FALSE, queue |-> Front(before) \o r]
      BY <1>4, <1>11, <2>2
    <3>2. Front(before) = SubSeq(q, 1, s - 1)
      <4>1. 1 \in 1 .. Len(q) + 1 /\ s \in 1 - 1 .. Len(q) /\ s - 1 \in 1 - 1 .. Len(q) /\ s - 1 + 1 = s
        BY <1>1, <2>1
      <4>2. before \in Seq(Item) /\ Len(before) = s /\ \A i \in 1 .. s : before[i] = q[i]
        BY <1>1, <2>1, <4>1, SubSeqIs
      <4>3. Front(before) = SubSeq(before, 1, s - 1)
        BY <4>2 DEF Front
      <4> HIDE DEF before
      <4> QED
        BY <1>1, <2>1, <4>2, <4>3
    <3>3. Deletes(q, f, s, r)
      BY <1>11, <2>1, <2>2, <3>1, <3>2 DEF Deletes
    <3> QED
      BY <1>5, <1>6, <1>9, <3>3
  <2>3. CASE q[s].op = "delete"
    <3>1. Deletion(q, f) = [added |-> FALSE, queue |-> SubSeq(q, 1, s) \o r]
      BY <1>4, <1>11, <2>3
    <3>2. Deletes(q, f, s, r)
      BY <1>11, <2>1, <2>3, <3>1 DEF Deletes
    <3> QED
      BY <1>5, <1>6, <1>9, <3>2
  <2> QED
    BY <2>1, <2>2, <2>3
<1> QED
  BY <1>10, <1>11

LEMMA JoiningIs ==
  ASSUME NEW q \in Seq(Item), NEW x \in Item, x.op = "write"
  PROVE  \/ Joining(q, x) = [added |-> TRUE, queue |-> Append(q, x)]
         \/ \E s \in 1 .. Len(q) :
              /\ q[s].op = "write" /\ IsLast(q, x.file, Len(q), s)
              /\ Joining(q, x) = [added |-> FALSE, queue |-> [q EXCEPT ![s] = JoinedItem(q[s], x)]]
<1> DEFINE T == {i \in DOMAIN q : q[i].op \in {"delete", "truncate"} \/ q[i].file = x.file}
           s == LastOf(T)
<1>1. Len(q) \in Nat /\ DOMAIN q = 1 .. Len(q)
  OBVIOUS
<1>2. T \subseteq 1 .. Len(q)
  BY <1>1
<1>3. \A i : i \in T <=> i \in 1 .. Len(q) /\ (q[i].op \in {"delete", "truncate"} \/ q[i].file = x.file)
  BY <1>1
<1>4. Joining(q, x) = IF s # 0 /\ q[s].op = "write"
                      THEN [added |-> FALSE, queue |-> [q EXCEPT ![s].writes = @ \o x.writes]]
                      ELSE [added |-> TRUE, queue |-> Append(q, x)]
  BY DEF Joining
<1> HIDE DEF T
<1>5. /\ s \in 0 .. Len(q) /\ (s # 0 => s \in T)
      /\ \A k \in T : k <= s
  BY <1>1, <1>2, LastOfIs
<1> HIDE DEF s
<1>6. CASE s # 0 /\ q[s].op = "write"
  <2>1. s \in 1 .. Len(q) /\ q[s].file = x.file
    BY <1>3, <1>5, <1>6
  <2>2. ASSUME NEW i \in s + 1 .. Len(q) PROVE q[i].file # x.file
    <3>1. i \in 1 .. Len(q) /\ i \notin T
      BY <1>1, <1>5
    <3> QED
      BY <1>3, <3>1
  <2>3. Joining(q, x) = [added |-> FALSE, queue |-> [q EXCEPT ![s].writes = @ \o x.writes]]
    BY <1>4, <1>6
  <2>4. [q EXCEPT ![s].writes = @ \o x.writes] = [q EXCEPT ![s] = JoinedItem(q[s], x)]
    BY DEF JoinedItem
  <2> QED
    BY <1>6, <2>1, <2>2, <2>3, <2>4 DEF IsLast
<1>7. CASE ~(s # 0 /\ q[s].op = "write")
  BY <1>4, <1>7
<1> QED
  BY <1>6, <1>7

Queued(c, q) ==
    /\ c.queue \in Seq(Item) /\ c.added \in BOOLEAN
    /\ q = <<>> => c.added

LEMMA CoalescedTyped ==
  ASSUME NEW q \in Seq(Item), NEW x \in Item
  PROVE  Queued(Coalesced(q, x), q)
<1>0. x.file \in File /\ Len(q) \in Nat /\ (q = <<>> => Len(q) = 0)
  BY ItemShape
<1>1. CASE x.op = "delete"
  <2> DEFINE f == x.file
  <2>0. PICK s \in 0 .. Len(q) : \E r, h : Stops(q, f, s) /\ Rests(q, s, f, r, h) /\ Deletes(q, f, s, r)
    BY <1>0, DeletionIs
  <2>1. PICK r, h : Stops(q, f, s) /\ Rests(q, s, f, r, h) /\ Deletes(q, f, s, r)
    BY <2>0
  <2>2. r \in Seq(Item)
    BY <2>1, RestsIs
  <2>3. SubSeq(q, 1, s) \in Seq(Item)
    <3>1. 1 \in 1 .. Len(q) + 1 /\ s \in 1 - 1 .. Len(q)
      BY <1>0
    <3> QED
      BY <3>1, SubSeqIs
  <2>4. s # 0 => SubSeq(q, 1, s - 1) \in Seq(Item)
    <3>1. s # 0 => 1 \in 1 .. Len(q) + 1 /\ s - 1 \in 1 - 1 .. Len(q)
      BY <1>0
    <3> QED
      BY <3>1, SubSeqIs
  <2>5. <<Delete(f)>> \in Seq(Item)
    BY <1>0 DEF Delete, Item, Marks
  <2>6. Coalesced(q, x) = Deletion(q, f)
    BY <1>1 DEF Coalesced
  <2> HIDE DEF f
  <2>7. q = <<>> => s = 0
    BY <1>0
  <2>8. SubSeq(q, 1, s) \o r \in Seq(Item) /\ SubSeq(q, 1, s) \o r \o <<Delete(f)>> \in Seq(Item)
        /\ (s # 0 => SubSeq(q, 1, s - 1) \o r \in Seq(Item))
    BY <2>2, <2>3, <2>4, <2>5
  <2>9. \/ Coalesced(q, x) = [added |-> TRUE, queue |-> SubSeq(q, 1, s) \o r \o <<Delete(f)>>]
        \/ s # 0 /\ Coalesced(q, x) = [added |-> FALSE, queue |-> SubSeq(q, 1, s - 1) \o r]
        \/ s # 0 /\ Coalesced(q, x) = [added |-> FALSE, queue |-> SubSeq(q, 1, s) \o r]
    BY <2>1, <2>6 DEF Deletes
  <2>10. CASE Coalesced(q, x) = [added |-> TRUE, queue |-> SubSeq(q, 1, s) \o r \o <<Delete(f)>>]
    BY <2>8, <2>10 DEF Queued
  <2>11. CASE s # 0 /\ Coalesced(q, x) = [added |-> FALSE, queue |-> SubSeq(q, 1, s - 1) \o r]
    BY <2>7, <2>8, <2>11 DEF Queued
  <2>12. CASE s # 0 /\ Coalesced(q, x) = [added |-> FALSE, queue |-> SubSeq(q, 1, s) \o r]
    BY <2>7, <2>8, <2>12 DEF Queued
  <2> QED
    BY <2>9, <2>10, <2>11, <2>12
<1>2. CASE x.op = "write"
  <2>1. Coalesced(q, x) = Joining(q, x)
    BY <1>2 DEF Coalesced
  <2>2. CASE Joining(q, x) = [added |-> TRUE, queue |-> Append(q, x)]
    BY <2>1, <2>2 DEF Queued
  <2>3. ASSUME NEW s \in 1 .. Len(q), q[s].op = "write", IsLast(q, x.file, Len(q), s),
               Joining(q, x) = [added |-> FALSE, queue |-> [q EXCEPT ![s] = JoinedItem(q[s], x)]]
        PROVE  Queued(Coalesced(q, x), q)
    <3>0. q[s].file = x.file
      BY <2>3 DEF IsLast
    <3>1. q[s] \in Item /\ q[s] \in Writes /\ x \in Writes
      BY <1>2, <2>3, ItemShape DEF Writes
    <3>2. JoinedItem(q[s], x) \in Item
      BY <3>0, <3>1, JoinedIs DEF Item, Both
    <3>3. [q EXCEPT ![s] = JoinedItem(q[s], x)] \in Seq(Item)
      BY <3>2
    <3> QED
      BY <1>0, <2>1, <2>3, <3>3 DEF Queued
  <2> QED
    BY <1>2, <2>2, <2>3, JoiningIs
<1>3. CASE x.op \notin {"delete", "write"}
  <2>1. Coalesced(q, x) = [added |-> TRUE, queue |-> Append(q, x)]
    BY <1>3 DEF Coalesced
  <2> QED
    BY <2>1 DEF Queued
<1> QED
  BY <1>1, <1>2, <1>3

LiveIn(q, F) == \A i \in 1 .. Len(q) : Live(q[i]) => q[i].file \in DOMAIN F

\* The line that L has become is told of the files F2 by the queue c behind B.
Becomes(L, B, q, F, F2, x, b) ==
    /\ Moved(L, B \o q, F, F2, x.file, Sets(x)) /\ Alters(F, F2, x) /\ Told(L, F, b)

LEMMA Behind ==
  ASSUME NEW B \in Seq(Item), NEW c \in Seq(Item)
  PROVE  /\ B \o c \in Seq(Item) /\ Len(B \o c) = Len(B) + Len(c)
         /\ \A i \in 1 .. Len(B) : (B \o c)[i] = B[i]
         /\ \A i \in 1 .. Len(c) : (B \o c)[Len(B) + i] = c[i]
BY ConcatIs

LEMMA AddedTold ==
  ASSUME NEW B \in Seq(Item), NEW q \in Seq(Item), NEW x \in Item,
         NEW L, NEW F, NEW F2, NEW b, Becomes(L, B, q, F, F2, x, b)
  PROVE  Told(B \o Append(q, x), F2, b)
<1> DEFINE K == B \o q
           c == Append(q, x)
           K2 == B \o c
<1>1. /\ K \in Seq(Item) /\ Len(K) = Len(B) + Len(q)
      /\ \A i \in 1 .. Len(B) : K[i] = B[i]
      /\ \A i \in 1 .. Len(q) : K[Len(B) + i] = q[i]
  BY Behind
<1>2. c \in Seq(Item) /\ Len(c) = Len(q) + 1 /\ c[Len(q) + 1] = x /\ \A i \in 1 .. Len(q) : c[i] = q[i]
  OBVIOUS
<1> HIDE DEF c
<1>3. /\ K2 \in Seq(Item) /\ Len(K2) = Len(B) + Len(c)
      /\ \A i \in 1 .. Len(B) : K2[i] = B[i]
      /\ \A i \in 1 .. Len(c) : K2[Len(B) + i] = c[i]
  BY <1>2, Behind
<1>4. Moved(L, K, F, F2, x.file, Sets(x)) /\ Alters(F, F2, x) /\ Told(L, F, b)
  BY DEF Becomes
<1> HIDE DEF K, K2
<1>5. Len(B) \in Nat /\ Len(q) \in Nat
  OBVIOUS
<1>6. Len(K2) = Len(K) + 1 /\ K2[Len(K) + 1] = x
  <2>1. Len(q) + 1 \in 1 .. Len(c)
    BY <1>2, <1>5
  <2>2. K2[Len(B) + (Len(q) + 1)] = x
    BY <1>2, <1>3, <2>1
  <2>3. Len(K) + 1 = Len(B) + (Len(q) + 1)
    BY <1>1, <1>5
  <2>4. K2[Len(K) + 1] = x
    BY <2>2, <2>3
  <2> QED
    BY <1>1, <1>2, <1>3, <1>5, <2>4
<1>7. ASSUME NEW i \in 1 .. Len(K) PROVE K2[i] = K[i]
  <2>1. CASE i <= Len(B)
    BY <1>1, <1>3, <1>5, <1>7, <2>1
  <2>2. CASE i > Len(B)
    <3>1. PICK j \in 1 .. Len(q) : i = Len(B) + j
      <4>1. i - Len(B) \in 1 .. Len(q) /\ i = Len(B) + (i - Len(B))
        BY <1>1, <1>5, <1>7, <2>2
      <4> QED
        BY <4>1
    <3>2. j \in 1 .. Len(c)
      BY <1>2, <1>5
    <3> QED
      BY <1>1, <1>2, <1>3, <3>1, <3>2
  <2> QED
    BY <1>5, <1>7, <2>1, <2>2
<1> QED
  <2>1. Told(K2, F2, b)
    BY <1>4, <1>6, <1>7, AppendTold
  <2> QED
    BY <2>1 DEF K2, c

LEMMA JoinedTold ==
  ASSUME NEW B \in Seq(Item), NEW q \in Seq(Item), NEW x \in Item, x.op = "write",
         NEW L, NEW F, NEW F2, NEW b, Becomes(L, B, q, F, F2, x, b),
         NEW s \in 1 .. Len(q), q[s].op = "write", IsLast(q, x.file, Len(q), s)
  PROVE  LET c == [q EXCEPT ![s] = JoinedItem(q[s], x)] IN
         /\ Told(B \o c, F2, b)
         /\ LiveIn(q, F2) => LiveIn(c, F2)
<1> q[s].file = x.file /\ \A i \in s + 1 .. Len(q) : q[i].file # x.file
  BY DEF IsLast
<1> DEFINE K == B \o q
           z == JoinedItem(q[s], x)
           c == [q EXCEPT ![s] = z]
           K2 == B \o c
<1>1. /\ K \in Seq(Item) /\ Len(K) = Len(B) + Len(q)
      /\ \A i \in 1 .. Len(B) : K[i] = B[i]
      /\ \A i \in 1 .. Len(q) : K[Len(B) + i] = q[i]
  BY Behind
<1>2. z \in Item /\ z.file = x.file /\ (Live(z) <=> Live(q[s]))
  <2>1. q[s] \in Item /\ q[s] \in Writes /\ x \in Writes
    BY ItemShape DEF Writes
  <2>2. z \in Writes /\ z.file = q[s].file /\ z.op = "write" /\ z.base = q[s].base
    BY <2>1, JoinedIs DEF Both
  <2> QED
    BY <2>2 DEF Item, Live
<1> HIDE DEF z
<1>3. c \in Seq(Item) /\ Len(c) = Len(q) /\ c[s] = z /\ \A i \in 1 .. Len(q) : i # s => c[i] = q[i]
  BY <1>2
<1> HIDE DEF c
<1>4. /\ K2 \in Seq(Item) /\ Len(K2) = Len(B) + Len(c)
      /\ \A i \in 1 .. Len(B) : K2[i] = B[i]
      /\ \A i \in 1 .. Len(c) : K2[Len(B) + i] = c[i]
  BY <1>3, Behind
<1>5. Moved(L, K, F, F2, x.file, Sets(x)) /\ Alters(F, F2, x) /\ Told(L, F, b)
  BY DEF Becomes
<1> HIDE DEF K, K2
<1>6. Len(B) \in Nat /\ Len(q) \in Nat /\ s \in Int
  OBVIOUS
<1>7. PICK p \in 1 .. Len(K) : p = Len(B) + s
  <2>1. Len(B) + s \in 1 .. Len(K)
    BY <1>1, <1>6
  <2> QED
    BY <2>1
<1>8. K[p] = q[s] /\ K2[p] = z
  BY <1>1, <1>3, <1>4, <1>7
<1>9. IsLast(K, x.file, Len(K), p)
  <2>1. ASSUME NEW j \in p + 1 .. Len(K) PROVE K[j].file # x.file
    <3>1. j \in 1 .. Len(B) + Len(q) /\ j > Len(B)
      BY <1>1, <1>6, <1>7
    <3>2. PICK i \in 1 .. Len(q) : j = Len(B) + i
      BY <1>6, <3>1, PlaceIn
    <3>3. i \in s + 1 .. Len(q)
      BY <1>6, <1>7, <2>1, <3>2
    <3> QED
      BY <1>1, <3>2, <3>3
  <2> QED
    BY <1>7, <1>8, <2>1 DEF IsLast
<1>10. ASSUME NEW i \in 1 .. Len(K), i # p PROVE K2[i] = K[i]
  <2>1. CASE i <= Len(B)
    BY <1>1, <1>4, <1>6, <1>10, <2>1
  <2>2. CASE i > Len(B)
    <3>1. PICK j \in 1 .. Len(q) : i = Len(B) + j
      <4>1. i \in 1 .. Len(B) + Len(q)
        BY <1>1, <1>10
      <4> QED
        BY <1>6, <2>2, <4>1, PlaceIn
    <3>2. j \in 1 .. Len(c) /\ j # s
      BY <1>3, <1>7, <1>10, <3>1
    <3> QED
      BY <1>1, <1>3, <1>4, <3>1, <3>2
  <2> QED
    BY <1>6, <1>10, <2>1, <2>2
<1>11. Told(K2, F2, b)
  <2>1. Len(K2) = Len(K) /\ K2[p] = JoinedItem(K[p], x)
    BY <1>1, <1>3, <1>4, <1>8 DEF z
  <2> QED
    BY <1>5, <1>8, <1>9, <1>10, <2>1, JoinTold
<1>12. LiveIn(q, F2) => LiveIn(c, F2)
  BY <1>2, <1>3 DEF LiveIn
<1> QED
  BY <1>11, <1>12 DEF K2, c, z

LEMMA DroppedTold ==
  ASSUME NEW B \in Seq(Item), NEW q \in Seq(Item), NEW x \in Item, x.op = "delete",
         NEW L, NEW F, NEW F2, NEW b \in Db, Becomes(L, B, q, F, F2, x, b)
  PROVE  LET c == Deletion(q, x.file).queue IN
         /\ Told(B \o c, F2, b)
         /\ LiveIn(q, F2) => LiveIn(c, F2)
<1> DEFINE f == x.file
           K == B \o q
           c == Deletion(q, f).queue
           K2 == B \o c
<1>1. /\ K \in Seq(Item) /\ Len(K) = Len(B) + Len(q)
      /\ \A i \in 1 .. Len(B) : K[i] = B[i]
      /\ \A i \in 1 .. Len(q) : K[Len(B) + i] = q[i]
  BY Behind
<1>2. Moved(L, K, F, F2, f, Sets(x)) /\ Alters(F, F2, x) /\ Told(L, F, b) /\ f \in File
  BY ItemShape DEF Becomes
<1>3. x = Delete(f)
  BY DEF Item, Marks, Cuts, Writes, WriteShape, Delete
<1> HIDE DEF f, K
<1>40. PICK s \in 0 .. Len(q) : \E r, h : Stops(q, f, s) /\ Rests(q, s, f, r, h) /\ Deletes(q, f, s, r)
  BY <1>2, DeletionIs
<1>4. PICK r, h : Stops(q, f, s) /\ Rests(q, s, f, r, h) /\ Deletes(q, f, s, r)
  BY <1>40
<1>5. Len(B) \in Nat /\ Len(q) \in Nat /\ s \in Nat /\ Len(K) \in Nat
  BY <1>1
<1>6. r \in Seq(Item) /\ Len(r) \in Nat /\ Places(q, s, f, r, h)
  BY <1>4, RestsIs
<1>7. ASSUME NEW k \in 1 .. Len(r) PROVE \E i \in 1 .. Len(q) : r[k] = q[i]
  <2>1. h[k] \in 1 .. Len(q) - s /\ r[k] = q[s + h[k]]
    BY <1>6 DEF Places
  <2>2. s + h[k] \in 1 .. Len(q)
    BY <1>5, <2>1
  <2> QED
    BY <2>1, <2>2
<1>8. ASSUME NEW n \in 0 .. s
      PROVE  LET d == SubSeq(q, 1, n) \o r IN
             /\ d \in Seq(Item) /\ Len(d) = n + Len(r)
             /\ \A i \in 1 .. n : d[i] = q[i]
             /\ \A i \in 1 .. Len(r) : d[n + i] = r[i]
             /\ \A i \in 1 .. Len(d) : \E j \in 1 .. Len(q) : d[i] = q[j]
  <2> DEFINE a == SubSeq(q, 1, n)
             d == a \o r
  <2>1. n \in Nat /\ 1 \in 1 .. Len(q) + 1 /\ n \in 1 - 1 .. Len(q)
    BY <1>5
  <2>2. a \in Seq(Item) /\ Len(a) = n - 1 + 1 /\ \A i \in 1 .. n - 1 + 1 : a[i] = q[1 + i - 1]
    BY <2>1, SubSeqIs
  <2>3. Len(a) = n /\ \A i \in 1 .. n : a[i] = q[i]
    BY <2>1, <2>2
  <2> HIDE DEF a
  <2>4. /\ d \in Seq(Item) /\ Len(d) = Len(a) + Len(r)
        /\ \A i \in 1 .. Len(a) : d[i] = a[i]
        /\ \A i \in 1 .. Len(r) : d[Len(a) + i] = r[i]
    BY <1>6, <2>2, Behind
  <2> HIDE DEF d
  <2>5. ASSUME NEW i \in 1 .. Len(d) PROVE \E j \in 1 .. Len(q) : d[i] = q[j]
    <3>1. CASE i <= n
      BY <1>5, <2>1, <2>3, <2>4, <2>5, <3>1
    <3>2. CASE i > n
      <4>1. PICK k \in 1 .. Len(r) : i = n + k
        <5>1. i \in 1 .. n + Len(r)
          BY <2>3, <2>4, <2>5
        <5> QED
          BY <1>6, <2>1, <3>2, <5>1, PlaceIn
      <4> QED
        BY <1>7, <2>3, <2>4, <4>1
    <3> QED
      BY <2>1, <2>5, <3>1, <3>2
  <2>6. d \in Seq(Item) /\ Len(d) = n + Len(r)
        /\ (\A i \in 1 .. n : d[i] = q[i])
        /\ \A i \in 1 .. Len(r) : d[n + i] = r[i]
    BY <2>3, <2>4
  <2> QED
    BY <2>5, <2>6 DEF d, a
\* The items behind B with the places of those that are left.
<1>9. ASSUME NEW n \in 0 .. s, AllOf(q, f, n, s),
             NEW d \in Seq(Item), NEW m \in Nat, m = Len(B) + n + Len(r), NEW v, v = B \o d,
             n + Len(r) <= Len(d),
             \A i \in 1 .. n : d[i] = q[i], Copied(d, n, r, Len(r))
      PROVE  \E a \in Nat : \E e : a = Len(B) + n /\ Skips(K, v, f, a, m, e)
  <2>1. /\ v \in Seq(Item) /\ Len(v) = Len(B) + Len(d)
        /\ \A i \in 1 .. Len(B) : v[i] = B[i]
        /\ \A i \in 1 .. Len(d) : v[Len(B) + i] = d[i]
    BY <1>9, Behind
  <2>2. PICK a \in Nat : a = Len(B) + n
    <3>1. Len(B) + n \in Nat
      BY <1>5
    <3> QED
      BY <3>1
  <2>3. Len(d) \in Nat /\ Len(v) \in Nat /\ m <= Len(v) /\ m = a + Len(r) /\ n \in Nat
    BY <1>5, <1>6, <1>9, <2>1, <2>2
  <2>4. \A i \in 1 .. n : v[Len(B) + i] = q[i]
    <3>1. ASSUME NEW i \in 1 .. n PROVE v[Len(B) + i] = q[i]
      <4>1. i \in 1 .. Len(d)
        BY <1>5, <1>6, <1>9, <2>3
      <4> QED
        BY <1>9, <2>1, <4>1
    <3> QED
      BY <3>1
  <2>5. ASSUME NEW i \in 1 .. Len(r) PROVE v[a + i] = r[i]
    <3>0. d[n + i] = r[i]
      BY <1>9 DEF Copied
    <3>1. n + i \in 1 .. Len(d) /\ a + i = Len(B) + (n + i)
      BY <1>5, <1>6, <1>9, <2>2, <2>3
    <3>2. v[Len(B) + (n + i)] = d[n + i]
      BY <2>1, <3>1
    <3> QED
      BY <3>0, <3>1, <3>2
  <2>6. \E e : Skips(B \o q, v, f, a, m, e)
    <3>1. Copied(v, Len(B), q, n) /\ Copied(v, a, r, Len(r))
      BY <2>4, <2>5 DEF Copied
    <3> QED
      BY <1>4, <1>9, <2>1, <2>2, <2>3, <3>1, PartSkips
  <2> QED
    BY <2>2, <2>6 DEF K
<1>10. CASE Deletion(q, f) = [added |-> TRUE, queue |-> SubSeq(q, 1, s) \o r \o <<Delete(f)>>]
  <2> DEFINE d == SubSeq(q, 1, s) \o r
  <2>0. s \in 0 .. s /\ s \in Int
    BY <1>5
  <2>1. /\ d \in Seq(Item) /\ Len(d) = s + Len(r)
        /\ \A i \in 1 .. s : d[i] = q[i]
        /\ \A i \in 1 .. Len(r) : d[s + i] = r[i]
        /\ \A i \in 1 .. Len(d) : \E j \in 1 .. Len(q) : d[i] = q[j]
    BY <1>8, <2>0
  <2>2. c = d \o <<x>>
    BY <1>3, <1>10
  <2> HIDE DEF c, d
  <2>3. <<x>> \in Seq(Item) /\ Len(<<x>>) = 1 /\ <<x>>[1] = x
    OBVIOUS
  <2>4. /\ c \in Seq(Item) /\ Len(c) = Len(d) + 1
        /\ \A i \in 1 .. Len(d) : c[i] = d[i]
        /\ c[Len(d) + 1] = x
    <3>1. d \o <<x>> \in Seq(Item) /\ Len(d \o <<x>>) = Len(d) + Len(<<x>>)
          /\ (\A i \in 1 .. Len(d) : (d \o <<x>>)[i] = d[i])
          /\ \A i \in 1 .. Len(<<x>>) : (d \o <<x>>)[Len(d) + i] = <<x>>[i]
      BY <2>1, <2>3, Behind
    <3> QED
      BY <2>2, <2>3, <3>1
  <2>5. /\ K2 \in Seq(Item) /\ Len(K2) = Len(B) + Len(c)
        /\ \A i \in 1 .. Len(B) : K2[i] = B[i]
        /\ \A i \in 1 .. Len(c) : K2[Len(B) + i] = c[i]
    BY <2>4, Behind
  <2>6. /\ Len(K2) \in Nat \ {0} /\ Len(K2) - 1 \in Nat /\ K2[Len(K2)] = x
        /\ Len(K2) - 1 = Len(B) + s + Len(r)
    <3>1. Len(d) + 1 \in 1 .. Len(c) /\ Len(K2) = Len(B) + (Len(d) + 1)
      BY <1>5, <1>6, <2>1, <2>4, <2>5
    <3>2. K2[Len(B) + (Len(d) + 1)] = c[Len(d) + 1]
      BY <2>5, <3>1
    <3>3. K2[Len(K2)] = x
      BY <2>4, <3>1, <3>2
    <3> QED
      BY <1>5, <1>6, <2>1, <3>1, <3>3
  <2>70. PICK a \in Nat : \E e : a = Len(B) + s /\ Skips(K, K2, f, a, Len(K2) - 1, e)
    <3>1. ASSUME NEW i \in 1 .. s PROVE c[i] = q[i]
      <4>1. i \in 1 .. Len(d)
        BY <1>5, <1>6, <2>1
      <4> QED
        BY <2>1, <2>4, <4>1
    <3>2. ASSUME NEW i \in 1 .. Len(r) PROVE c[s + i] = r[i]
      <4>1. s + i \in 1 .. Len(d)
        BY <1>5, <1>6, <2>1
      <4> QED
        BY <2>1, <2>4, <4>1
    <3>3. s + Len(r) <= Len(c) /\ AllOf(q, f, s, s) /\ Copied(c, s, r, Len(r))
      BY <1>5, <1>6, <2>1, <2>4, <3>2 DEF AllOf, Copied
    <3> HIDE DEF K2
    <3>4. K2 = B \o c
      BY DEF K2
    <3> QED
      BY <1>9, <2>0, <2>4, <2>6, <3>1, <3>3, <3>4
  <2>7. PICK e : a = Len(B) + s /\ Skips(K, K2, f, a, Len(K2) - 1, e)
    BY <2>70
  <2>8. ASSUME NEW j \in a + 1 .. Len(K), K[j].file = f PROVE K[j].op = "write"
    <3>1. j \in 1 .. Len(B) + Len(q) /\ j > Len(B)
      BY <1>1, <1>5, <2>7
    <3>2. PICK i \in 1 .. Len(q) : j = Len(B) + i
      BY <1>5, <3>1, PlaceIn
    <3>3. i \in s + 1 .. Len(q)
      BY <1>5, <2>7, <3>2
    <3> QED
      BY <1>1, <1>4, <2>8, <3>2, <3>3 DEF Stops
  <2>9. Told(K2, F2, b)
    <3> HIDE DEF K2
    <3>1. Skips(K, K2, x.file, a, Len(K2) - 1, e) /\ Moved(L, K, F, F2, x.file, Sets(x))
          /\ WritesOnly(K, x.file, a)
      BY <1>2, <2>7, <2>8 DEF f, WritesOnly
    <3> QED
      BY <1>2, <2>6, <3>1, DeleteTold
  <2>10. LiveIn(q, F2) => LiveIn(c, F2)
    <3> SUFFICES ASSUME LiveIn(q, F2), NEW i \in 1 .. Len(c), Live(c[i]) PROVE c[i].file \in DOMAIN F2
      BY DEF LiveIn
    <3>1. CASE i \in 1 .. Len(d)
      <4>1. c[i] = d[i] /\ \E j \in 1 .. Len(q) : d[i] = q[j]
        BY <2>1, <2>4, <3>1
      <4> QED
        BY <4>1 DEF LiveIn
    <3>2. CASE i = Len(d) + 1
      BY <2>4, <3>2 DEF Live
    <3>3. Len(c) = Len(d) + 1 /\ Len(d) \in Nat
      BY <1>5, <1>6, <2>1, <2>4
    <3> QED
      BY <3>1, <3>2, <3>3
  <2> QED
    BY <2>9, <2>10 DEF c, f, K2
<1>11. CASE /\ s # 0 /\ q[s].file = f /\ q[s].op = "create"
            /\ Deletion(q, f) = [added |-> FALSE, queue |-> SubSeq(q, 1, s - 1) \o r]
  <2>1. PICK n \in 0 .. s : n = s - 1
    <3>1. s - 1 \in 0 .. s
      BY <1>5, <1>11
    <3> QED
      BY <3>1
  <2>2. c = SubSeq(q, 1, n) \o r
    BY <1>11, <2>1
  <2> HIDE DEF c
  <2>3. /\ c \in Seq(Item) /\ Len(c) = n + Len(r)
        /\ \A i \in 1 .. n : c[i] = q[i]
        /\ \A i \in 1 .. Len(r) : c[n + i] = r[i]
        /\ \A i \in 1 .. Len(c) : \E j \in 1 .. Len(q) : c[i] = q[j]
    BY <1>8, <2>2
  <2>4. /\ K2 \in Seq(Item) /\ Len(K2) = Len(B) + Len(c)
    BY <2>3, Behind
  <2>5. Len(K2) \in Nat /\ Len(K2) = Len(B) + n + Len(r) /\ n \in Nat
    BY <1>5, <1>6, <2>3, <2>4
  <2>6. AllOf(q, f, n, s)
    BY <1>5, <1>11, <2>1 DEF AllOf
  <2>7. n + Len(r) <= Len(c) /\ Copied(c, n, r, Len(r))
    <3>1. n + Len(r) <= Len(c)
      BY <1>6, <2>3, <2>5
    <3>2. Copied(c, n, r, Len(r))
      BY <2>3 DEF Copied
    <3> QED
      BY <3>1, <3>2
  <2>8. K2 = B \o c
    OBVIOUS
  <2> HIDE DEF K2
  <2>90. PICK a \in Nat : \E e : a = Len(B) + n /\ Skips(K, K2, f, a, Len(K2), e)
    BY <1>9, <2>3, <2>5, <2>6, <2>7, <2>8
  <2>9. PICK e : a = Len(B) + n /\ Skips(K, K2, f, a, Len(K2), e)
    BY <2>90
  <2>10. PICK p \in 1 .. Len(K) : p = Len(B) + s
    <3>1. Len(B) + s \in 1 .. Len(K)
      BY <1>1, <1>5, <1>11
    <3> QED
      BY <3>1
  <2>11. K[p] = q[s] /\ a = p - 1
    <3>1. s \in 1 .. Len(q)
      BY <1>5, <1>11
    <3> QED
      BY <1>1, <1>5, <2>1, <2>9, <2>10, <3>1
  <2>12. Told(K2, F2, b)
    <3>1. Skips(K, K2, x.file, a, Len(K2), e) /\ Moved(L, K, F, F2, x.file, Sets(x))
          /\ K[p].file = x.file /\ K[p].op = "create"
      BY <1>2, <1>11, <2>9, <2>11 DEF f
    <3> QED
      BY <1>2, <2>5, <2>11, <3>1, ForgetTold
  <2>13. LiveIn(q, F2) => LiveIn(c, F2)
    BY <2>3 DEF LiveIn
  <2> QED
    BY <2>12, <2>13 DEF c, f, K2
<1>12. CASE s # 0 /\ q[s].file = f /\ q[s].op = "delete"
  <2>1. PICK p \in 1 .. Len(K) : p = Len(B) + s
    <3>1. Len(B) + s \in 1 .. Len(K)
      BY <1>1, <1>5, <1>12
    <3> QED
      BY <3>1
  <2>2. /\ Len(L) \in Nat /\ Len(K) = Len(L)
        /\ \A i \in 1 .. Len(L) : L[i] \in Item /\ K[i].file = L[i].file /\ K[i].op = L[i].op
    BY <1>2, MovedParts
  <2>3. K[p] = q[s]
    <3>1. s \in 1 .. Len(q)
      BY <1>5, <1>12
    <3> QED
      BY <1>1, <2>1, <3>1
  <2>4. p \in 1 .. Len(L) /\ L[p].file = f /\ L[p].op = "delete"
    BY <1>12, <2>2, <2>3
  <2>5. ASSUME NEW j \in p + 1 .. Len(L), L[j].file = f PROVE L[j].op = "write"
    <3>1. j \in 1 .. Len(B) + Len(q) /\ j > Len(B) /\ j \in 1 .. Len(L)
      BY <1>1, <1>5, <2>1, <2>2
    <3>2. PICK i \in 1 .. Len(q) : j = Len(B) + i
      BY <1>5, <3>1, PlaceIn
    <3>3. i \in s + 1 .. Len(q)
      BY <1>5, <2>1, <2>5, <3>2
    <3> QED
      BY <1>1, <1>4, <2>2, <2>5, <3>1, <3>2, <3>3 DEF Stops
  <2>6. Size(F, f) >= 0
    BY <1>2 DEF Alters, Runs, f
  <2>7. LineFor(L, F, Extent(b, f), CellsIn(b, f), f, Size(F, f), Has(F, f), TRUE)
    BY <1>2 DEF Told
  <2> QED
    <3>1. WritesOnly(L, f, p)
      BY <2>5 DEF WritesOnly
    <3> QED
      BY <2>2, <2>4, <2>6, <2>7, <3>1, DeletedOnce
<1> QED
  BY <1>4, <1>10, <1>11, <1>12 DEF Deletes

-----------------------------------------------------------------------------
\* The queue takes in an item that does to the files what the memory has seen.
LEMMA CoalescedTold ==
  ASSUME NEW B \in Seq(Item), NEW q \in Seq(Item), NEW x \in Item,
         NEW L, NEW F, NEW F2, NEW b \in Db, Becomes(L, B, q, F, F2, x, b)
  PROVE  LET c == Coalesced(q, x).queue IN
         /\ Told(B \o c, F2, b)
         /\ LiveIn(q, F2) /\ (Live(x) => x.file \in DOMAIN F2) => LiveIn(c, F2)
<1> DEFINE c == Coalesced(q, x).queue
<1>1. LiveIn(q, F2) /\ (Live(x) => x.file \in DOMAIN F2) => LiveIn(Append(q, x), F2)
  <2> SUFFICES ASSUME LiveIn(q, F2), Live(x) => x.file \in DOMAIN F2,
                      NEW i \in 1 .. Len(q) + 1, Live(Append(q, x)[i])
               PROVE  Append(q, x)[i].file \in DOMAIN F2
    BY DEF LiveIn
  <2>1. CASE i = Len(q) + 1
    <3>1. Append(q, x)[i] = x
      BY <2>1
    <3> QED
      BY <3>1
  <2>2. CASE i \in 1 .. Len(q)
    <3>1. Append(q, x)[i] = q[i]
      BY <2>2
    <3> QED
      BY <2>2, <3>1 DEF LiveIn
  <2> QED
    BY <2>1, <2>2
<1>2. CASE x.op = "delete"
  <2>1. c = Deletion(q, x.file).queue
    BY <1>2 DEF Coalesced
  <2> QED
    BY <1>2, <2>1, DroppedTold
<1>3. CASE c = Append(q, x)
  BY <1>1, <1>3, AddedTold
<1>4. CASE x.op = "write"
  <2>1. Coalesced(q, x) = Joining(q, x)
    BY <1>4 DEF Coalesced
  <2>2. CASE Joining(q, x) = [added |-> TRUE, queue |-> Append(q, x)]
    BY <1>3, <2>1, <2>2
  <2>3. ASSUME NEW s \in 1 .. Len(q), q[s].op = "write", IsLast(q, x.file, Len(q), s),
               Joining(q, x) = [added |-> FALSE, queue |-> [q EXCEPT ![s] = JoinedItem(q[s], x)]]
        PROVE  Told(B \o c, F2, b) /\ (LiveIn(q, F2) => LiveIn(c, F2))
    <3>1. c = [q EXCEPT ![s] = JoinedItem(q[s], x)]
      BY <2>1, <2>3
    <3>2. Told(B \o [q EXCEPT ![s] = JoinedItem(q[s], x)], F2, b)
          /\ (LiveIn(q, F2) => LiveIn([q EXCEPT ![s] = JoinedItem(q[s], x)], F2))
      BY <1>4, <2>3, JoinedTold
    <3> QED
      BY <3>1, <3>2
  <2> QED
    BY <1>4, <2>2, <2>3, JoiningIs
<1>5. CASE x.op \notin {"delete", "write"}
  <2>1. c = Append(q, x)
    BY <1>5 DEF Coalesced
  <2> QED
    BY <1>3, <2>1
<1> QED
  BY <1>2, <1>4, <1>5

-----------------------------------------------------------------------------
(* The worker.                                                             *)

Texts == UNION {[D -> Text] : D \in SUBSET File}
Buffers == UNION {[D -> Buffer] : D \in SUBSET File}
State == [mem : Buffers, temp : SUBSET File, queue : Seq(Item), batch : Seq(Item),
          running : BOOLEAN, seen : Seq(Texts), taken : Nat]
Worker == {s \in State : /\ s.temp \subseteq DOMAIN s.mem /\ s.taken <= Len(s.seen)
                         /\ ~s.running => s.batch = <<>>}
Wakes(s) == s.queue # <<>> => s.running

\* The files after the first j changes the disk does not have; what the disk may
\* have of f when the running transaction is stored.
Moment(s, old, j) == IF j = 0 THEN old ELSE s.seen[j]
Can(s, old, f) ==
    [c \in Cells |-> IF f \in Paged THEN {Data(Moment(s, old, s.taken), f, c)}
                     ELSE {Data(Moment(s, old, j), f, c) : j \in s.taken .. Len(s.seen)}]

\* The transaction makes of the store b what the files were as it started.
Stores(s, b, old) ==
    \A f \in File : LineFor(s.batch, Files(s), Extent(b, f), CellsIn(b, f), f,
                            Size(Moment(s, old, s.taken), f), Can(s, old, f), FALSE)

\* The views that are live are of files that are there, and none is of the item that runs.
Looks(s) ==
    /\ LiveIn(s.batch, Files(s)) /\ LiveIn(s.queue, Files(s))
    /\ s.batch # <<>> => ~Live(s.batch[1])

Good(s, b, old) ==
    /\ Files(s) = Moment(s, old, Len(s.seen))
    /\ Looks(s)
    /\ Told(s.batch \o s.queue, Files(s), b)
    /\ s.running => Stores(s, b, old)

LEMMA WorkerIs ==
  ASSUME NEW s \in Worker
  PROVE  /\ s \in State
         /\ s = [mem |-> s.mem, temp |-> s.temp, queue |-> s.queue, batch |-> s.batch,
                 running |-> s.running, seen |-> s.seen, taken |-> s.taken]
         /\ s.mem \in Buffers /\ s.temp \subseteq File /\ s.queue \in Seq(Item) /\ s.batch \in Seq(Item)
         /\ s.running \in BOOLEAN /\ s.seen \in Seq(Texts) /\ s.taken \in Nat /\ Len(s.seen) \in Nat
         /\ s.temp \subseteq DOMAIN s.mem /\ s.taken <= Len(s.seen)
         /\ ~s.running => s.batch = <<>>
<1>1. s \in State
  BY DEF Worker
<1>2. s = [mem |-> s.mem, temp |-> s.temp, queue |-> s.queue, batch |-> s.batch,
           running |-> s.running, seen |-> s.seen, taken |-> s.taken]
  BY <1>1 DEF State
<1> QED
  BY <1>1, <1>2 DEF Worker, State

LEMMA MemIs ==
  ASSUME NEW m \in Buffers
  PROVE  /\ DOMAIN m \subseteq File /\ m = [f \in DOMAIN m |-> m[f]]
         /\ \A f \in DOMAIN m : /\ m[f] \in Buffer /\ m[f].data \in Text /\ m[f].cap \in Nat
                                /\ Len(m[f].data) <= m[f].cap
BY DEF Buffers, Buffer

LEMMA MemMade ==
  ASSUME NEW D \in SUBSET File, NEW m \in [D -> Buffer]
  PROVE  m \in Buffers
BY DEF Buffers

LEMMA FilesIs ==
  ASSUME NEW s \in Worker
  PROVE  /\ Files(s) \in Texts /\ DOMAIN Files(s) = DOMAIN s.mem \ s.temp
         /\ DOMAIN Files(s) \subseteq File
         /\ \A f \in DOMAIN Files(s) : Files(s)[f] = s.mem[f].data /\ Files(s)[f] \in Text
<1>1. s.mem \in Buffers
  BY WorkerIs
<1>2. DOMAIN s.mem \subseteq File /\ \A f \in DOMAIN s.mem : s.mem[f].data \in Text
  BY <1>1, MemIs
<1> DEFINE D == DOMAIN s.mem \ s.temp
<1>3. Files(s) = [f \in D |-> s.mem[f].data] /\ D \subseteq File /\ D \subseteq DOMAIN s.mem
  BY <1>2 DEF Files
<1> HIDE DEF D
<1>4. Files(s) \in [D -> Text]
  BY <1>2, <1>3
<1>5. Files(s) \in Texts
  BY <1>3, <1>4 DEF Texts
<1> QED
  BY <1>2, <1>3, <1>4, <1>5 DEF D

-----------------------------------------------------------------------------
\* K is L with views kept that show what they showed.
Restarted(L, K, F) ==
    /\ Len(L) \in Nat /\ Len(K) = Len(L)
    /\ \A i \in 1 .. Len(L) : /\ L[i] \in Item /\ K[i] \in Item /\ Alike(L[i], K[i])
                              /\ \A c \in Cells : Shown(K[i], F, c) = Shown(L[i], F, c)

LEMMA LineSame ==
  ASSUME NEW L, NEW K, NEW F, Restarted(L, K, F), NEW n, NEW cel, NEW g, NEW size, NEW ok,
         NEW strong \in BOOLEAN, LineFor(L, F, n, cel, g, size, ok, strong)
  PROVE  LineFor(K, F, n, cel, g, size, ok, strong)
<1>1. /\ Len(L) \in Nat /\ Len(K) = Len(L)
      /\ \A i \in 1 .. Len(L) : L[i].op \in Op /\ Alike(L[i], K[i]) /\ L[i].file = K[i].file
  BY ItemShape DEF Restarted, Alike
<1> DEFINE P == {<<i, i>> : i \in 1 .. Len(L)}
<1>2. Paired(L, K, P, g)
  BY <1>1, PairedSame
<1>3. ASSUME NEW p \in P, NEW c \in Cells
      PROVE  Shown(K[p[2]], F, c) \in {Shown(L[p[1]], F, c)} \cup ok[c]
  <2>1. PICK i \in 1 .. Len(L) : p = <<i, i>>
    OBVIOUS
  <2> QED
    BY <2>1 DEF Restarted
<1> HIDE DEF P
<1>4. \A c \in Cells : ok[c] \subseteq ok[c]
  OBVIOUS
<1> QED
  BY <1>1, <1>2, <1>3, <1>4, PairedLine

LEMMA RestartedTold ==
  ASSUME NEW L, NEW K, NEW F, Restarted(L, K, F), NEW b, Told(L, F, b)
  PROVE  Told(K, F, b)
<1> SUFFICES ASSUME NEW g \in File
             PROVE  LineFor(K, F, Extent(b, g), CellsIn(b, g), g, Size(F, g), Has(F, g), TRUE)
  BY DEF Told
<1>1. LineFor(L, F, Extent(b, g), CellsIn(b, g), g, Size(F, g), Has(F, g), TRUE)
  BY DEF Told
<1> QED
  BY <1>1, LineSame

LEMMA StartedIs ==
  ASSUME NEW q \in Seq(Item), NEW s \in Worker, LiveIn(q, Files(s))
  PROVE  LET d == Started(s.mem, q) IN
         /\ d \in Seq(Item) /\ Len(d) = Len(q) /\ Restarted(q, d, Files(s))
         /\ LiveIn(d, Files(s)) /\ (d # <<>> => ~Live(d[1]))
         /\ \A i \in 1 .. Len(q) : i # 1 => d[i] = q[i]
<1> DEFINE F == Files(s)
           d == Started(s.mem, q)
           f == q[1].file
           y == IF f \in DOMAIN s.mem THEN Kept(q[1], f, s.mem[f].data) ELSE q[1]
<1>0. Len(q) \in Nat /\ s.mem \in Buffers
  BY WorkerIs
<1>1. CASE q = <<>>
  <2>1. d = q /\ Len(q) = 0
    BY <1>1 DEF Started
  <2>2. LiveIn(q, F) /\ Restarted(q, q, F)
    BY <2>1 DEF Restarted, LiveIn
  <2>3. q \in Seq(Item) /\ ~(q # <<>>) /\ \A i \in 1 .. Len(q) : i # 1 => q[i] = q[i]
    BY <1>1
  <2> HIDE DEF d
  <2>4. d = q
    BY <2>1
  <2>5. /\ d \in Seq(Item) /\ Len(d) = Len(q) /\ Restarted(q, d, F)
        /\ LiveIn(d, F) /\ ~(d # <<>>)
        /\ \A i \in 1 .. Len(q) : i # 1 => d[i] = q[i]
    BY <2>2, <2>3, <2>4
  <2> QED
    BY <2>5 DEF d
<1>2. CASE q # <<>>
  <2>1. 1 \in 1 .. Len(q) /\ q[1] \in Item
    BY <1>0, <1>2
  <2>2. d = [q EXCEPT ![1] = y]
    BY <1>2 DEF Started
  <2>3. /\ y \in Item /\ Alike(q[1], y) /\ ~Live(y)
        /\ \A c \in Cells : Shown(y, F, c) = Shown(q[1], F, c)
    <3>1. CASE f \in DOMAIN s.mem
      <4>1. s.mem[f].data \in Text
        BY <1>0, <3>1, MemIs
      <4>2. /\ y \in Item /\ Alike(q[1], y) /\ ~Live(y)
            /\ (~Live(q[1]) => y = q[1])
            /\ \A G, G2 : f \in DOMAIN G /\ G[f] = s.mem[f].data =>
                 \A c \in Cells : Shown(y, G2, c) = Shown(q[1], G, c)
        BY <2>1, <3>1, <4>1, KeptIs
      <4>3. Live(q[1]) => f \in DOMAIN F /\ F[f] = s.mem[f].data
        BY <2>1, FilesIs DEF LiveIn
      <4> HIDE DEF y, F
      <4> QED
        BY <4>2, <4>3
    <3>2. CASE f \notin DOMAIN s.mem
      <4>1. y = q[1] /\ ~Live(q[1])
        BY <2>1, <3>2, FilesIs DEF LiveIn
      <4> QED
        BY <2>1, <4>1 DEF Alike
    <3> QED
      BY <3>1, <3>2
  <2> HIDE DEF y
  <2>4. d \in Seq(Item) /\ Len(d) = Len(q) /\ d[1] = y /\ \A i \in 1 .. Len(q) : i # 1 => d[i] = q[i]
    BY <2>1, <2>2, <2>3
  <2> HIDE DEF d
  <2>5. LiveIn(d, F)
    BY <2>3, <2>4 DEF LiveIn
  <2>6. Restarted(q, d, F)
    <3> SUFFICES ASSUME NEW i \in 1 .. Len(q)
                 PROVE  /\ q[i] \in Item /\ d[i] \in Item /\ Alike(q[i], d[i])
                        /\ \A c \in Cells : Shown(d[i], F, c) = Shown(q[i], F, c)
      BY <1>0, <2>4 DEF Restarted
    <3>1. q[i] \in Item /\ d[i] \in Item
      BY <2>4
    <3>2. CASE i = 1
      BY <2>3, <2>4, <3>1, <3>2
    <3>3. CASE i # 1
      BY <2>4, <3>1, <3>3 DEF Alike
    <3> QED
      BY <3>2, <3>3
  <2> QED
    BY <2>3, <2>4, <2>5, <2>6 DEF d
<1> QED
  BY <1>1, <1>2

LEMMA LineWeaken ==
  ASSUME NEW L, NEW F, NEW n, NEW cel, NEW g, NEW size, NEW ok,
         LineFor(L, F, n, cel, g, size, ok, TRUE), NEW ok2, \A c \in Cells : ok[c] \subseteq ok2[c]
  PROVE  LineFor(L, F, n, cel, g, size, ok2, FALSE)
BY DEF LineFor

-----------------------------------------------------------------------------
(* A transaction is started.                                               *)

LEMMA StartedTyped ==
  ASSUME NEW q \in Seq(Item), NEW s \in Worker
  PROVE  Started(s.mem, q) \in Seq(Item)
<1>1. CASE q = <<>>
  BY <1>1 DEF Started
<1>2. CASE q # <<>>
  <2> DEFINE f == q[1].file
             y == IF f \in DOMAIN s.mem THEN Kept(q[1], f, s.mem[f].data) ELSE q[1]
  <2>1. 1 \in 1 .. Len(q) /\ q[1] \in Item /\ s.mem \in Buffers
    BY <1>2, WorkerIs
  <2>2. Started(s.mem, q) = [q EXCEPT ![1] = y]
    BY <1>2 DEF Started
  <2>3. y \in Item
    <3>1. CASE f \in DOMAIN s.mem
      <4>1. s.mem[f].data \in Text
        BY <2>1, <3>1, MemIs
      <4> QED
        BY <2>1, <3>1, <4>1, KeptIs
    <3> QED
      BY <2>1, <3>1
  <2> HIDE DEF y
  <2> QED
    BY <2>1, <2>2, <2>3
<1> QED
  BY <1>1, <1>2

\* t differs from s in these fields.
SameFiles(s, t) == t.mem = s.mem /\ t.temp = s.temp /\ t.seen = s.seen

\* A transaction is started, or nothing happens.
Starts(s, d) ==
    /\ SameFiles(s, d)
    /\ \/ (s.running \/ s.queue = <<>>) /\ d = s
       \/ /\ ~s.running /\ s.batch = <<>> /\ d.running = TRUE /\ d.queue = <<>>
          /\ d.batch = Started(s.mem, s.queue) /\ d.taken = Len(s.seen)

LEMMA DrainedIs ==
  ASSUME NEW s \in Worker
  PROVE  Drained(s) \in Worker /\ Wakes(Drained(s)) /\ Starts(s, Drained(s))
<1>1. CASE s.running \/ s.queue = <<>>
  BY <1>1 DEF Drained, Wakes, Starts, SameFiles
<1>2. CASE ~(s.running \/ s.queue = <<>>)
  <2> DEFINE bt == Started(s.mem, s.queue)
             n == Len(s.seen)
             d == [s EXCEPT !.running = TRUE, !.queue = <<>>, !.batch = bt, !.taken = n]
  <2>1. Drained(s) = d
    BY <1>2 DEF Drained
  <2>2. bt \in Seq(Item) /\ s.batch = <<>> /\ n \in Nat
    BY <1>2, StartedTyped, WorkerIs
  <2> HIDE DEF bt, n
  <2>3. s \in State /\ s.seen \in Seq(Texts) /\ s.temp \subseteq DOMAIN s.mem
    BY WorkerIs
  <2>4. /\ d \in State /\ d.mem = s.mem /\ d.temp = s.temp /\ d.queue = <<>> /\ d.batch = bt
        /\ d.running = TRUE /\ d.seen = s.seen /\ d.taken = n
    BY <2>2, <2>3 DEF State
  <2> HIDE DEF d
  <2>5. d \in Worker
    BY <2>2, <2>3, <2>4 DEF Worker, n
  <2>6. Wakes(d) /\ Starts(s, d)
    BY <1>2, <2>2, <2>4 DEF Wakes, Starts, SameFiles, bt, n
  <2> QED
    BY <2>1, <2>5, <2>6
<1> QED
  BY <1>1, <1>2

LEMMA FilesSame ==
  ASSUME NEW s, NEW d, SameFiles(s, d)
  PROVE  Files(d) = Files(s) /\ \A old, j : Moment(d, old, j) = Moment(s, old, j)
BY DEF SameFiles, Files, Moment

\* Nothing in front of a line, nothing behind it.
LEMMA NothingBeside ==
  ASSUME NEW q \in Seq(Item)
  PROVE  <<>> \o q = q /\ q \o <<>> = q /\ LiveIn(<<>>, {})
<1>1. <<>> \o q = q /\ q \o <<>> = q
  OBVIOUS
<1>2. Len(<<>>) = 0
  OBVIOUS
<1> QED
  BY <1>1, <1>2 DEF LiveIn

LEMMA DrainedGood ==
  ASSUME NEW s \in Worker, NEW b, NEW old, Good(s, b, old)
  PROVE  Good(Drained(s), b, old)
<1> DEFINE d == Drained(s)
           F == Files(s)
<1>1. d \in Worker /\ Starts(s, d)
  BY DrainedIs
<1> HIDE DEF d
<1>2. CASE d = s
  BY <1>2 DEF d
<1>3. CASE d # s
  <2>1. /\ SameFiles(s, d) /\ ~s.running /\ s.batch = <<>> /\ d.running = TRUE /\ d.queue = <<>>
        /\ d.batch = Started(s.mem, s.queue) /\ d.taken = Len(s.seen)
    BY <1>1, <1>3 DEF Starts
  <2>2. Files(d) = F /\ (\A j : Moment(d, old, j) = Moment(s, old, j)) /\ d.seen = s.seen
    BY <2>1, FilesSame DEF SameFiles
  <2>3. /\ F = Moment(s, old, Len(s.seen)) /\ LiveIn(s.queue, F)
        /\ Told(s.batch \o s.queue, F, b)
    BY DEF Good, Looks
  <2>4. s.queue \in Seq(Item) /\ d.batch \in Seq(Item)
    BY <1>1, WorkerIs
  <2>5. s.batch \o s.queue = s.queue /\ d.batch \o d.queue = d.batch /\ LiveIn(<<>>, F)
    <3>1. <<>> \o s.queue = s.queue /\ d.batch \o <<>> = d.batch
      BY <2>4, NothingBeside
    <3>2. Len(<<>>) = 0
      OBVIOUS
    <3>3. LiveIn(<<>>, F)
      BY <3>2 DEF LiveIn
    <3> QED
      BY <2>1, <3>1, <3>3
  <2>6. Restarted(s.queue, d.batch, F) /\ LiveIn(d.batch, F) /\ (d.batch # <<>> => ~Live(d.batch[1]))
    BY <2>1, <2>3, <2>4, StartedIs
  <2>7. Told(d.batch, F, b)
    BY <2>3, <2>5, <2>6, RestartedTold
  <2>8. Stores(d, b, old)
    <3> SUFFICES ASSUME NEW g \in File
                 PROVE  LineFor(d.batch, F, Extent(b, g), CellsIn(b, g), g,
                                Size(Moment(d, old, d.taken), g), Can(d, old, g), FALSE)
      BY <2>2 DEF Stores
    <3>1. Moment(d, old, d.taken) = F /\ Moment(d, old, Len(d.seen)) = F /\ d.taken = Len(d.seen)
      BY <2>1, <2>2, <2>3
    <3>2. LineFor(d.batch, F, Extent(b, g), CellsIn(b, g), g, Size(F, g), Has(F, g), TRUE)
      BY <2>7 DEF Told
    <3>3. ASSUME NEW c \in Cells PROVE Has(F, g)[c] \subseteq Can(d, old, g)[c]
      <4>1. Has(F, g)[c] = {Data(F, g, c)}
        BY DEF Has
      <4>2. Len(d.seen) \in d.taken .. Len(d.seen)
        BY <1>1, <3>1, WorkerIs
      <4>3. Data(F, g, c) \in Can(d, old, g)[c]
        BY <3>1, <4>2 DEF Can
      <4> QED
        BY <4>1, <4>3
    <3>4. LineFor(d.batch, F, Extent(b, g), CellsIn(b, g), g, Size(F, g), Can(d, old, g), FALSE)
      BY <3>2, <3>3, LineWeaken
    <3> QED
      BY <3>1, <3>4
  <2>9. Looks(d)
    BY <2>1, <2>2, <2>5, <2>6 DEF Looks
  <2>10. Good(d, b, old)
    BY <2>2, <2>3, <2>5, <2>7, <2>8, <2>9 DEF Good
  <2> QED
    BY <2>10 DEF d
<1> QED
  BY <1>2, <1>3

-----------------------------------------------------------------------------
(* The queue takes an item in.                                             *)

LEMMA MovedJoin ==
  ASSUME NEW L \in Seq(Item), NEW K \in Seq(Item), NEW L2 \in Seq(Item), NEW K2 \in Seq(Item),
         NEW F, NEW F2, NEW f, NEW X, Moved(L, K, F, F2, f, X), Moved(L2, K2, F, F2, f, X)
  PROVE  Moved(L \o L2, K \o K2, F, F2, f, X)
<1>1. PICK m \in Nat, n \in Nat : m = Len(L) /\ n = Len(L2) /\ Len(K) = m /\ Len(K2) = n
  <2>1. Len(L) \in Nat /\ Len(L2) \in Nat /\ Len(K) = Len(L) /\ Len(K2) = Len(L2)
    BY DEF Moved
  <2> QED
    BY <2>1
<1> DEFINE A == L \o L2
           B == K \o K2
<1>2. /\ Len(A) = m + n
      /\ \A i \in 1 .. m : A[i] = L[i]
      /\ \A i \in 1 .. n : A[m + i] = L2[i]
  BY <1>1, Behind
<1>3. /\ Len(B) = m + n
      /\ \A i \in 1 .. m : B[i] = K[i]
      /\ \A i \in 1 .. n : B[m + i] = K2[i]
  <2>1. /\ Len(K \o K2) = Len(K) + Len(K2)
        /\ \A i \in 1 .. Len(K) : (K \o K2)[i] = K[i]
        /\ \A i \in 1 .. Len(K2) : (K \o K2)[Len(K) + i] = K2[i]
    BY Behind
  <2> QED
    BY <1>1, <2>1
<1> HIDE DEF A, B
<1>4. ASSUME NEW i \in 1 .. m + n PROVE Moves(A[i], B[i], F, F2, f, X)
  <2>1. CASE i <= m
    <3>1. i \in 1 .. m
      BY <2>1
    <3> QED
      BY <1>1, <1>2, <1>3, <3>1 DEF Moved
  <2>2. CASE i > m
    <3>1. PICK j \in 1 .. n : i = m + j
      BY <2>2, PlaceIn
    <3> QED
      BY <1>1, <1>2, <1>3, <3>1 DEF Moved
  <2> QED
    BY <2>1, <2>2
<1>5. Moved(A, B, F, F2, f, X)
  BY <1>2, <1>3, <1>4 DEF Moved
<1> QED
  BY <1>5 DEF A, B

\* t is s with what the item x is to say done to the files in memory.
Does(s, t, x) ==
    /\ t.running = s.running /\ t.seen = s.seen /\ t.taken = s.taken
    /\ Moved(s.batch, t.batch, Files(s), Files(t), x.file, Sets(x))
    /\ Moved(s.queue, t.queue, Files(s), Files(t), x.file, Sets(x))
    /\ Alters(Files(s), Files(t), x)
    /\ Live(x) => x.file \in DOMAIN Files(t)

\* The moment is noted and the item is in the queue.
Joins(t, w, x) ==
    /\ w.mem = t.mem /\ w.temp = t.temp /\ w.batch = t.batch /\ w.running = t.running
    /\ w.taken = t.taken /\ w.seen = Append(t.seen, Files(t))
    /\ w.queue = Coalesced(t.queue, x).queue

LEMMA NotedIs ==
  ASSUME NEW t \in Worker
  PROVE  LET u == Noted(t) IN
         /\ u \in Worker /\ u.mem = t.mem /\ u.temp = t.temp /\ u.queue = t.queue /\ u.batch = t.batch
         /\ u.running = t.running /\ u.taken = t.taken /\ u.seen = Append(t.seen, Files(t))
<1> DEFINE se == Append(t.seen, Files(t))
           u == [t EXCEPT !.seen = se]
<1>1. t \in State /\ t.seen \in Seq(Texts) /\ Files(t) \in Texts /\ t.taken <= Len(t.seen)
      /\ t.taken \in Nat /\ t.temp \subseteq DOMAIN t.mem /\ (~t.running => t.batch = <<>>)
  BY WorkerIs, FilesIs
<1>2. se \in Seq(Texts) /\ Len(se) = Len(t.seen) + 1 /\ Len(t.seen) \in Nat
  BY <1>1
<1>3. Noted(t) = u
  BY DEF Noted
<1> HIDE DEF se
<1>4. /\ u \in State /\ u.mem = t.mem /\ u.temp = t.temp /\ u.queue = t.queue /\ u.batch = t.batch
      /\ u.running = t.running /\ u.taken = t.taken /\ u.seen = se
  BY <1>1, <1>2 DEF State
<1> HIDE DEF u
<1>5. t.taken <= Len(se)
  BY <1>1, <1>2
<1>6. u \in Worker
  BY <1>1, <1>4, <1>5 DEF Worker
<1> QED
  BY <1>3, <1>4, <1>6 DEF se

LEMMA EnqueuedIs ==
  ASSUME NEW t \in Worker, Wakes(t), NEW x \in Item
  PROVE  LET v == Enqueued(Noted(t), x) IN
         /\ v \in Worker /\ Wakes(v)
         /\ \E w \in Worker : /\ Joins(t, w, x) /\ SameFiles(w, v)
                              /\ v = w \/ v = Drained(w)
<1> DEFINE u == Noted(t)
           c == Coalesced(u.queue, x)
           q == c.queue
           w == [u EXCEPT !.queue = q]
           v == Enqueued(u, x)
<1>1. /\ u \in Worker /\ u.mem = t.mem /\ u.temp = t.temp /\ u.queue = t.queue /\ u.batch = t.batch
      /\ u.running = t.running /\ u.taken = t.taken /\ u.seen = Append(t.seen, Files(t))
  BY NotedIs
<1>2. v = IF c.added THEN Drained(w) ELSE w
  BY DEF Enqueued
<1> HIDE DEF u, v
<1>3. u \in State /\ u.queue \in Seq(Item)
      /\ u.taken <= Len(u.seen) /\ u.temp \subseteq DOMAIN u.mem /\ (~u.running => u.batch = <<>>)
  BY <1>1, WorkerIs
<1>4. q \in Seq(Item) /\ c.added \in BOOLEAN /\ (u.queue = <<>> => c.added)
  BY <1>3, CoalescedTyped DEF Queued
<1>40. q = Coalesced(t.queue, x).queue
  BY <1>1
<1> HIDE DEF q
<1>5. /\ w \in State /\ w.mem = u.mem /\ w.temp = u.temp /\ w.queue = q /\ w.batch = u.batch
      /\ w.running = u.running /\ w.taken = u.taken /\ w.seen = u.seen
  BY <1>3, <1>4 DEF State
<1> HIDE DEF w, c
<1>6. w \in Worker
  BY <1>3, <1>5 DEF Worker
<1>7. Joins(t, w, x)
  BY <1>1, <1>40, <1>5 DEF Joins
<1>8. CASE c.added
  <2>1. v = Drained(w)
    BY <1>2, <1>8
  <2>2. v \in Worker /\ Wakes(v) /\ SameFiles(w, v)
    BY <1>6, <2>1, DrainedIs DEF Starts
  <2> QED
    BY <1>6, <1>7, <2>1, <2>2 DEF v, u
<1>9. CASE ~c.added
  <2>1. v = w
    BY <1>2, <1>9
  <2>2. SameFiles(w, v)
    BY <2>1 DEF SameFiles
  <2>3. Wakes(v)
    BY <1>1, <1>4, <1>5, <1>9, <2>1 DEF Wakes
  <2> QED
    BY <1>6, <1>7, <2>1, <2>2, <2>3 DEF v, u
<1> QED
  BY <1>8, <1>9

\* The running transaction still makes what it was to make.
LEMMA StoresStill ==
  ASSUME NEW s \in Worker, NEW t \in Worker, NEW w \in Worker, NEW x \in Item,
         Does(s, t, x), Joins(t, w, x), NEW b, NEW old, Stores(s, b, old)
  PROVE  Stores(w, b, old)
<1> DEFINE F == Files(s)
           F2 == Files(w)
           n == Len(s.seen)
           L == s.batch
           K == w.batch
<1>1. /\ F2 = Files(t) /\ K = t.batch /\ w.taken = s.taken /\ w.seen = Append(s.seen, F2)
      /\ Moved(L, K, F, F2, x.file, Sets(x))
  <2>1. F2 = Files(t)
    BY DEF Joins, Files
  <2> QED
    BY <2>1 DEF Joins, Does
<1>2. n \in Nat /\ Len(w.seen) = n + 1 /\ w.seen[n + 1] = F2 /\ (\A j \in 1 .. n : w.seen[j] = s.seen[j])
      /\ s.taken \in Nat /\ s.taken <= n
  BY <1>1, WorkerIs
<1>3. \A j \in 0 .. n : Moment(w, old, j) = Moment(s, old, j)
  BY <1>2 DEF Moment
<1>4. Moment(w, old, s.taken) = Moment(s, old, s.taken) /\ Moment(w, old, n + 1) = F2
      /\ n + 1 \in w.taken .. Len(w.seen) /\ \A j \in s.taken .. n : j \in 0 .. n /\ j \in w.taken .. Len(w.seen)
  BY <1>1, <1>2, <1>3 DEF Moment
<1> HIDE DEF F, F2, n, L, K
<1> SUFFICES ASSUME NEW g \in File
             PROVE  LineFor(K, F2, Extent(b, g), CellsIn(b, g), g,
                            Size(Moment(w, old, w.taken), g), Can(w, old, g), FALSE)
  BY DEF Stores, F2, K
<1>5. LineFor(L, F, Extent(b, g), CellsIn(b, g), g, Size(Moment(s, old, s.taken), g), Can(s, old, g), FALSE)
  BY DEF Stores, F, L
<1>6. ASSUME NEW c \in Cells PROVE Can(s, old, g)[c] \subseteq Can(w, old, g)[c]
  <2>1. CASE g \in Paged
    BY <1>1, <1>4, <2>1 DEF Can
  <2>2. CASE g \notin Paged
    <3>1. ASSUME NEW v \in Can(s, old, g)[c] PROVE v \in Can(w, old, g)[c]
      <4>1. PICK j \in s.taken .. n : v = Data(Moment(s, old, j), g, c)
        BY <2>2, <3>1 DEF Can, n
      <4>2. j \in w.taken .. Len(w.seen) /\ v = Data(Moment(w, old, j), g, c)
        BY <1>3, <1>4, <4>1
      <4> QED
        BY <2>2, <4>2 DEF Can
    <3> QED
      BY <3>1
  <2> QED
    BY <2>1, <2>2
<1>7. ASSUME g \notin Paged, NEW c \in Cells PROVE Data(F2, g, c) \in Can(w, old, g)[c]
  BY <1>4, <1>7 DEF Can
<1>8. /\ Len(L) \in Nat /\ Len(K) = Len(L)
      /\ \A i \in 1 .. Len(L) : /\ L[i] \in Item /\ K[i] \in Item /\ Alike(L[i], K[i])
                                /\ K[i].file = L[i].file /\ L[i].op \in Op
  BY <1>1, MovedParts
<1> DEFINE P == {<<i, i>> : i \in 1 .. Len(L)}
<1>9. Paired(L, K, P, g)
  BY <1>8, PairedSame
<1>10. ASSUME NEW p \in P, NEW c \in Cells, L[p[1]].file = g, Decides(L[p[1]], c)
       PROVE  Shown(K[p[2]], F2, c) \in {Shown(L[p[1]], F, c)} \cup Can(w, old, g)[c]
  <2>1. PICK i \in 1 .. Len(L) : p = <<i, i>>
    OBVIOUS
  <2>2. Moves(L[i], K[i], F, F2, x.file, Sets(x))
    BY <1>1 DEF Moved
  <2>3. L[i].file = g /\ Decides(L[i], c)
    BY <1>10, <2>1
  <2>4. CASE g \in Paged
    <3>1. Covered(L[i], c) \/ L[i].op # "write"
      <4>1. CASE L[i].op = "write"
        <5>1. WholeBlocks(L[i])
          BY <1>8, <4>1, ItemShape
        <5>2. Block(c) \in Touched(L[i])
          BY <2>3, <4>1 DEF Decides
        <5> QED
          BY <2>3, <2>4, <5>1, <5>2 DEF WholeBlocks
      <4> QED
        BY <4>1
    <3>2. Shown(K[i], F2, c) = Shown(L[i], F, c)
      BY <2>2, <3>1 DEF Moves
    <3> QED
      BY <2>1, <3>2
  <2>5. CASE g \notin Paged
    <3>1. Shown(K[i], F2, c) \in {Shown(L[i], F, c), Data(F2, L[i].file, c)}
      BY <2>2 DEF Moves
    <3>2. Data(F2, g, c) \in Can(w, old, g)[c]
      BY <1>7, <2>5
    <3> QED
      BY <2>1, <2>3, <3>1, <3>2
  <2> QED
    BY <2>4, <2>5
<1> HIDE DEF P
<1>11. LineFor(K, F2, Extent(b, g), CellsIn(b, g), g, Size(Moment(s, old, s.taken), g), Can(w, old, g), FALSE)
  BY <1>5, <1>6, <1>8, <1>9, <1>10, PairedLine
<1> QED
  BY <1>1, <1>4, <1>11

LEMMA JoinsGood ==
  ASSUME NEW s \in Worker, NEW t \in Worker, NEW w \in Worker, NEW x \in Item,
         Does(s, t, x), Joins(t, w, x), NEW b \in Db, NEW old, Good(s, b, old)
  PROVE  Good(w, b, old)
<1> DEFINE F == Files(s)
           F2 == Files(w)
           L == s.batch \o s.queue
<1>1. F2 = Files(t) /\ w.batch = t.batch /\ w.queue = Coalesced(t.queue, x).queue /\ w.running = t.running
      /\ w.seen = Append(t.seen, F2)
  BY DEF Joins, Files
<1>2. /\ Moved(s.batch, t.batch, F, F2, x.file, Sets(x)) /\ Moved(s.queue, t.queue, F, F2, x.file, Sets(x))
      /\ Alters(F, F2, x) /\ (Live(x) => x.file \in DOMAIN F2) /\ t.running = s.running
  BY <1>1 DEF Does
<1>3. Told(L, F, b) /\ Looks(s) /\ (s.running => Stores(s, b, old))
  BY DEF Good
<1>4. s.batch \in Seq(Item) /\ s.queue \in Seq(Item) /\ t.batch \in Seq(Item) /\ t.queue \in Seq(Item)
  BY WorkerIs
<1> HIDE DEF F, F2, L
<1>5. LiveIn(t.batch, F2) /\ LiveIn(t.queue, F2)
  BY <1>2 DEF Moved, Moves, LiveIn
<1>6. Moved(L, t.batch \o t.queue, F, F2, x.file, Sets(x))
  BY <1>2, <1>4, MovedJoin DEF L
<1>7. Becomes(L, t.batch, t.queue, F, F2, x, b)
  BY <1>2, <1>3, <1>6 DEF Becomes
<1>8. Told(t.batch \o w.queue, F2, b) /\ LiveIn(w.queue, F2)
  BY <1>1, <1>2, <1>4, <1>5, <1>7, CoalescedTold
<1>9. t.batch # <<>> => ~Live(t.batch[1])
  <2>1. SUFFICES ASSUME t.batch # <<>> PROVE ~Live(t.batch[1])
    OBVIOUS
  <2>2. Len(t.batch) = Len(s.batch) /\ \A i \in 1 .. Len(s.batch) : Live(t.batch[i]) => Live(s.batch[i])
    BY <1>2 DEF Moved, Moves
  <2>3. 1 \in 1 .. Len(s.batch) /\ s.batch # <<>>
    BY <1>4, <2>1, <2>2
  <2> QED
    BY <1>3, <2>2, <2>3 DEF Looks
<1>10. Looks(w)
  BY <1>1, <1>5, <1>8, <1>9 DEF Looks, F2
<1>11. F2 = Moment(w, old, Len(w.seen))
  <2>1. w.seen = Append(t.seen, F2) /\ t.seen \in Seq(Texts)
    BY <1>1, WorkerIs
  <2>2. Len(w.seen) # 0 /\ w.seen[Len(w.seen)] = F2
    BY <2>1
  <2> QED
    BY <2>2 DEF Moment
<1>12. w.running => Stores(w, b, old)
  BY <1>1, <1>2, <1>3, StoresStill
<1> QED
  BY <1>1, <1>8, <1>10, <1>11, <1>12 DEF Good, F2

LEMMA EnqueuedGood ==
  ASSUME NEW s \in Worker, NEW t \in Worker, Wakes(t), NEW x \in Item,
         Does(s, t, x), NEW b \in Db, NEW old, Good(s, b, old)
  PROVE  LET v == Enqueued(Noted(t), x) IN
         /\ Good(v, b, old)
         /\ v.mem = t.mem /\ v.temp = t.temp /\ v.seen = Append(s.seen, Files(t))
<1> DEFINE v == Enqueued(Noted(t), x)
<1>1. PICK w \in Worker : Joins(t, w, x) /\ SameFiles(w, v) /\ (v = w \/ v = Drained(w))
  BY EnqueuedIs
<1> HIDE DEF v
<1>2. Good(w, b, old)
  BY <1>1, JoinsGood
<1>3. Good(v, b, old)
  BY <1>1, <1>2, DrainedGood
<1>4. v.mem = t.mem /\ v.temp = t.temp /\ v.seen = Append(s.seen, Files(t))
  BY <1>1 DEF Joins, SameFiles, Does
<1> QED
  BY <1>3, <1>4 DEF v

-----------------------------------------------------------------------------
\* What a call of SQLite may do.

\* Nothing of what the memory has been is lost.
Grew(s, v) ==
    \/ v.seen = s.seen
    \/ Len(s.seen) < Len(v.seen) /\ \A i \in 1 .. Len(s.seen) : v.seen[i] = s.seen[i]

Called(s, v) ==
    /\ v \in Worker /\ Wakes(v)
    /\ \A b \in Db : \A old : Good(s, b, old) => Good(v, b, old) /\ Grew(s, v)

LEMMA CalledTwice ==
  ASSUME NEW s \in Worker, NEW t, NEW v, Called(s, t), Called(t, v)
  PROVE  Called(s, v)
<1>1. ASSUME NEW b \in Db, NEW old, Good(s, b, old) PROVE Good(v, b, old) /\ Grew(s, v)
  <2>1. Good(t, b, old) /\ Grew(s, t) /\ Grew(t, v) /\ Good(v, b, old)
    BY <1>1 DEF Called
  <2>2. Len(s.seen) \in Nat /\ Len(t.seen) \in Nat /\ Len(v.seen) \in Nat
    BY WorkerIs DEF Called
  <2>3. CASE v.seen = t.seen \/ t.seen = s.seen
    BY <2>1, <2>3 DEF Grew
  <2>4. CASE ~(v.seen = t.seen \/ t.seen = s.seen)
    <3>1. /\ Len(s.seen) < Len(t.seen) /\ Len(t.seen) < Len(v.seen)
          /\ \A i \in 1 .. Len(s.seen) : t.seen[i] = s.seen[i]
          /\ \A i \in 1 .. Len(t.seen) : v.seen[i] = t.seen[i]
      BY <2>1, <2>4 DEF Grew
    <3>2. ASSUME NEW i \in 1 .. Len(s.seen) PROVE v.seen[i] = s.seen[i]
      <4>1. i \in 1 .. Len(t.seen)
        BY <2>2, <3>1
      <4> QED
        BY <3>1, <4>1
    <3> QED
      BY <2>1, <2>2, <3>1, <3>2 DEF Grew
  <2> QED
    BY <2>1, <2>3, <2>4
<1> QED
  BY <1>1 DEF Called

LEMMA CalledNot ==
  ASSUME NEW s \in Worker, Wakes(s)
  PROVE  Called(s, s)
BY DEF Called, Grew

\* A call that has something to store.
LEMMA CalledNoted ==
  ASSUME NEW s \in Worker, NEW t \in Worker, Wakes(t), NEW x \in Item,
         \A b \in Db : \A old : Good(s, b, old) => Does(s, t, x)
  PROVE  LET v == Enqueued(Noted(t), x) IN Called(s, v) /\ v.mem = t.mem /\ v.temp = t.temp
<1> DEFINE v == Enqueued(Noted(t), x)
<1>1. v \in Worker /\ Wakes(v) /\ v.mem = t.mem /\ v.temp = t.temp
  BY EnqueuedIs DEF Joins, SameFiles
<1>2. ASSUME NEW b \in Db, NEW old, Good(s, b, old) PROVE Good(v, b, old) /\ Grew(s, v)
  <2>1. Does(s, t, x)
    BY <1>2
  <2>2. Good(v, b, old) /\ v.seen = Append(s.seen, Files(t))
    BY <1>2, <2>1, EnqueuedGood
  <2> HIDE DEF v
  <2>3. Grew(s, v)
    BY <2>2, WorkerIs DEF Grew
  <2> QED
    BY <2>2, <2>3
<1> HIDE DEF v
<1>3. Called(s, v)
  BY <1>1, <1>2 DEF Called
<1> QED
  BY <1>1, <1>3 DEF v

\* A call that changes a temporary file only.
LEMMA CalledAside ==
  ASSUME NEW s \in Worker, NEW t \in Worker, Wakes(t),
         \A b \in Db : \A old : Good(s, b, old) =>
           /\ Files(t) = Files(s) /\ t.queue = s.queue /\ t.batch = s.batch
           /\ t.running = s.running /\ t.seen = s.seen /\ t.taken = s.taken
  PROVE  Called(s, t)
<1>1. ASSUME NEW b \in Db, NEW old, Good(s, b, old) PROVE Good(t, b, old) /\ Grew(s, t)
  <2>1. /\ Files(t) = Files(s) /\ t.queue = s.queue /\ t.batch = s.batch
        /\ t.running = s.running /\ t.seen = s.seen /\ t.taken = s.taken
    BY <1>1
  <2>2. \A j : Moment(t, old, j) = Moment(s, old, j)
    BY <2>1 DEF Moment
  <2>3. ASSUME NEW f PROVE Can(t, old, f) = Can(s, old, f)
    <3>1. ASSUME NEW c \in Cells PROVE Can(t, old, f)[c] = Can(s, old, f)[c]
      <4>1. CASE f \in Paged
        BY <2>1, <2>2, <4>1 DEF Can
      <4>2. CASE f \notin Paged
        <5>1. Can(t, old, f)[c] = {Data(Moment(t, old, j), f, c) : j \in s.taken .. Len(s.seen)}
          BY <2>1, <4>2 DEF Can
        <5>2. Can(s, old, f)[c] = {Data(Moment(s, old, j), f, c) : j \in s.taken .. Len(s.seen)}
          BY <4>2 DEF Can
        <5> QED
          BY <2>2, <5>1, <5>2
      <4> QED
        BY <4>1, <4>2
    <3>2. Can(t, old, f) = [c \in Cells |-> Can(t, old, f)[c]] /\ Can(s, old, f) = [c \in Cells |-> Can(s, old, f)[c]]
      BY DEF Can
    <3> QED
      BY <3>1, <3>2
  <2>4. Stores(s, b, old) => Stores(t, b, old)
    BY <2>1, <2>2, <2>3 DEF Stores
  <2>5. Looks(s) => Looks(t)
    BY <2>1 DEF Looks
  <2> QED
    BY <1>1, <2>1, <2>2, <2>4, <2>5 DEF Good, Grew
<1> QED
  BY <1>1 DEF Called

-----------------------------------------------------------------------------
(* Files and buffers.                                                      *)

Put(F, f, d) == [g \in DOMAIN F \cup {f} |-> IF g = f THEN d ELSE F[g]]
Drop(F, f) == [g \in DOMAIN F \ {f} |-> F[g]]

LEMMA PutIs ==
  ASSUME NEW F, NEW f, NEW d
  PROVE  LET G == Put(F, f, d) IN
         /\ f \in DOMAIN G /\ G[f] = d /\ DOMAIN F \subseteq DOMAIN G
         /\ \A g : g # f => Same(F, G, g)
         /\ Size(G, f) = Len(d)
         /\ \A c : Data(G, f, c) = IF c < Len(d) THEN d[c + 1] ELSE 0
BY DEF Put, Same, Size, Data

LEMMA DropIs ==
  ASSUME NEW F, NEW f
  PROVE  LET G == Drop(F, f) IN
         /\ f \notin DOMAIN G
         /\ \A g : g # f => Same(F, G, g)
         /\ Size(G, f) = -1
         /\ \A c : Data(G, f, c) = 0
BY DEF Drop, Same, Size, Data

LEMMA DetachedIs ==
  ASSUME NEW q \in Seq(Item), NEW f, NEW d \in Text
  PROVE  LET e == Detached(q, f, d) IN
         /\ e \in Seq(Item) /\ Len(e) = Len(q) /\ (q = <<>> <=> e = <<>>)
         /\ \A i \in 1 .. Len(q) : e[i] = Kept(q[i], f, d)
<1> DEFINE e == Detached(q, f, d)
<1>1. Len(q) \in Nat /\ DOMAIN q = 1 .. Len(q) /\ \A i \in 1 .. Len(q) : q[i] \in Item
  OBVIOUS
<1>2. e = [i \in 1 .. Len(q) |-> Kept(q[i], f, d)]
  BY <1>1 DEF Detached
<1>3. \A i \in 1 .. Len(q) : Kept(q[i], f, d) \in Item
  BY <1>1, KeptIs
<1> HIDE DEF e
<1>4. e \in [1 .. Len(q) -> Item]
  BY <1>2, <1>3
<1>5. e \in Seq(Item) /\ Len(e) = Len(q)
  BY <1>1, <1>4, SequenceIs
<1>6. q = <<>> <=> e = <<>>
  BY <1>1, <1>5
<1> QED
  BY <1>2, <1>5, <1>6 DEF e

\* The array stays: the views show what is in it.
LEMMA Staying ==
  ASSUME NEW q \in Seq(Item), NEW F, LiveIn(q, F), NEW F2, NEW f, NEW X,
         \A g : g # f => Same(F, F2, g), f \in DOMAIN F => f \in DOMAIN F2,
         \A c \in Cells : c \notin X => Data(F2, f, c) = Data(F, f, c)
  PROVE  Moved(q, q, F, F2, f, X)
<1>1. Len(q) \in Nat /\ Len(q) = Len(q)
  OBVIOUS
<1>2. ASSUME NEW i \in 1 .. Len(q) PROVE Moves(q[i], q[i], F, F2, f, X)
  <2> DEFINE x == q[i]
  <2>1. x \in Item
    OBVIOUS
  <2>2. Live(x) => x.file \in DOMAIN F
    BY DEF LiveIn
  <2> HIDE DEF x
  <2>3. Live(x) => x.file \in DOMAIN F2
    BY <2>2 DEF Same
  <2>4. x.file # f => \A c \in Cells : Data(F2, x.file, c) = Data(F, x.file, c)
    BY DEF Same
  <2>5. Moves(x, x, F, F2, f, X)
    BY <2>1, <2>3, <2>4, MovesStill
  <2> QED
    BY <2>5 DEF x
<1> QED
  BY <1>1, <1>2 DEF Moved

\* The array goes: the views keep what they showed.
LEMMA Leaving ==
  ASSUME NEW q \in Seq(Item), NEW F, LiveIn(q, F), NEW F2, NEW f, NEW X, NEW d \in Text,
         \A g : g # f => Same(F, F2, g), f \in DOMAIN F => F[f] = d
  PROVE  Moved(q, Detached(q, f, d), F, F2, f, X)
<1> DEFINE e == Detached(q, f, d)
<1>1. e \in Seq(Item) /\ Len(e) = Len(q) /\ \A i \in 1 .. Len(q) : e[i] = Kept(q[i], f, d)
  BY DetachedIs
<1> HIDE DEF e
<1>2. ASSUME NEW i \in 1 .. Len(q) PROVE Moves(q[i], e[i], F, F2, f, X)
  <2> DEFINE x == q[i]
  <2>1. x \in Item
    OBVIOUS
  <2>2. Live(x) => x.file \in DOMAIN F
    BY DEF LiveIn
  <2>3. e[i] = Kept(x, f, d)
    BY <1>1
  <2> HIDE DEF x
  <2>4. \A g : g # f => (g \in DOMAIN F <=> g \in DOMAIN F2) /\ \A c \in Cells : Data(F2, g, c) = Data(F, g, c)
    BY DEF Same
  <2>5. Moves(x, Kept(x, f, d), F, F2, f, X)
    BY <2>1, <2>2, <2>4, MovesKept
  <2> QED
    BY <2>3, <2>5 DEF x
<1> QED
  BY <1>1, <1>2 DEF Moved, e

\* A file that is not among those that are stored has no views.
LEMMA NoViews ==
  ASSUME NEW q \in Seq(Item), NEW F, LiveIn(q, F), NEW f, f \notin DOMAIN F, NEW d \in Text
  PROVE  Detached(q, f, d) = q
<1> DEFINE e == Detached(q, f, d)
<1>1. e \in Seq(Item) /\ Len(e) = Len(q) /\ \A i \in 1 .. Len(q) : e[i] = Kept(q[i], f, d)
  BY DetachedIs
<1> HIDE DEF e
<1>2. ASSUME NEW i \in 1 .. Len(q) PROVE e[i] = q[i]
  <2>1. q[i] \in Item /\ (q[i].file # f \/ ~Live(q[i]))
    BY DEF LiveIn
  <2> QED
    BY <1>1, <2>1, KeptIs
<1>3. e = q
  BY <1>1, <1>2
<1> QED
  BY <1>3 DEF e

-----------------------------------------------------------------------------
LEMMA ResizedIs ==
  ASSUME NEW b \in Buffer, NEW n \in 0 .. MaxLen
  PROVE  LET r == Resized(b, n) IN
         /\ r \in Buffer /\ r.data = Padded(b.data, n) /\ Len(r.data) = n
         /\ \A i \in 1 .. n : r.data[i] = IF i <= Len(b.data) THEN b.data[i] ELSE 0
<1> DEFINE p == Padded(b.data, n)
           k == IF Replaced(b, n) THEN NewCap(b.cap, n) ELSE b.cap
<1>1. b.data \in Seq(Nat) /\ b.cap \in Nat /\ n \in Nat /\ n <= MaxLen /\ MinCap \in Nat
  BY Constants DEF Buffer, Text
<1>2. p \in Seq(Nat) /\ Len(p) = n /\ \A i \in 1 .. n : p[i] = IF i <= Len(b.data) THEN b.data[i] ELSE 0
  BY <1>1, PaddedIs
<1>3. k \in Nat /\ n <= k
  BY <1>1 DEF Replaced, NewCap, Doubled
<1>4. Resized(b, n) = [data |-> p, cap |-> k]
  BY DEF Resized
<1> HIDE DEF p, k
<1>5. p \in Text
  BY <1>1, <1>2 DEF Text
<1> QED
  BY <1>2, <1>3, <1>4, <1>5 DEF Buffer, p

LEMMA PatchedIs ==
  ASSUME NEW b \in Buffer, NEW c, NEW v \in Nat
  PROVE  LET r == Patched(b, c, v) IN
         /\ r \in Buffer /\ Len(r.data) = Len(b.data)
         /\ \A i \in 1 .. Len(b.data) : r.data[i] = IF i - 1 \in c.at .. c.at + c.len - 1 THEN v ELSE b.data[i]
<1> DEFINE p == [i \in DOMAIN b.data |-> IF i - 1 \in c.at .. c.at + c.len - 1 THEN v ELSE b.data[i]]
<1>1. b.data \in Seq(Nat) /\ b.cap \in Nat /\ Len(b.data) <= MaxLen /\ Len(b.data) <= b.cap /\ b.data \in Text
      /\ Len(b.data) \in Nat /\ DOMAIN b.data = 1 .. Len(b.data) /\ b \in [data : Text, cap : Nat]
  BY DEF Buffer, Text
<1>2. p \in [1 .. Len(b.data) -> Nat]
  BY <1>1
<1>3. p \in Seq(Nat) /\ Len(p) = Len(b.data)
  BY <1>1, <1>2, SequenceIs
<1>4. \A i \in 1 .. Len(b.data) : p[i] = IF i - 1 \in c.at .. c.at + c.len - 1 THEN v ELSE b.data[i]
  BY <1>1
<1>5. Patched(b, c, v) = [b EXCEPT !.data = p]
  BY DEF Patched
<1> HIDE DEF p
<1>6. p \in Text
  BY <1>1, <1>3 DEF Text
<1>7. [b EXCEPT !.data = p] = [data |-> p, cap |-> b.cap]
  BY <1>1
<1> QED
  BY <1>1, <1>3, <1>4, <1>5, <1>6, <1>7 DEF Buffer

-----------------------------------------------------------------------------
(* The worker's memory.                                                    *)

\* In t the buffer of f is buf; if its array has been replaced the views are kept.
Rebuilt(s, t, f, buf, away) ==
    /\ DOMAIN t.mem = DOMAIN s.mem \cup {f}
    /\ \A g \in DOMAIN t.mem : t.mem[g] = IF g = f THEN buf ELSE s.mem[g]
    /\ t.temp = s.temp /\ t.running = s.running /\ t.seen = s.seen /\ t.taken = s.taken
    /\ t.queue = IF away THEN Detached(s.queue, f, s.mem[f].data) ELSE s.queue
    /\ t.batch = IF away THEN Detached(s.batch, f, s.mem[f].data) ELSE s.batch

LEMMA SetBufferIs ==
  ASSUME NEW s \in Worker, NEW f \in File, NEW b \in Buffer
  PROVE  LET t == SetBuffer(s, f, b) IN
         /\ t \in Worker /\ Rebuilt(s, t, f, b, FALSE)
         /\ Wakes(s) => Wakes(t)
<1> DEFINE m == [g \in DOMAIN s.mem \cup {f} |-> IF g = f THEN b ELSE s.mem[g]]
           t == [s EXCEPT !.mem = m]
<1>1. s \in State /\ s.mem \in Buffers /\ s.temp \subseteq DOMAIN s.mem /\ s.taken <= Len(s.seen)
      /\ (~s.running => s.batch = <<>>)
  BY WorkerIs
<1>2. DOMAIN s.mem \subseteq File /\ \A g \in DOMAIN s.mem : s.mem[g] \in Buffer
  BY <1>1, MemIs
<1>3. m \in [DOMAIN s.mem \cup {f} -> Buffer] /\ DOMAIN s.mem \cup {f} \in SUBSET File
  BY <1>2
<1>4. m \in Buffers
  BY <1>3, MemMade
<1>5. DOMAIN m = DOMAIN s.mem \cup {f} /\ \A g \in DOMAIN m : m[g] = IF g = f THEN b ELSE s.mem[g]
  OBVIOUS
<1>6. SetBuffer(s, f, b) = t
  BY DEF SetBuffer
<1> HIDE DEF m
<1>7. /\ t \in State /\ t.mem = m /\ t.temp = s.temp /\ t.queue = s.queue /\ t.batch = s.batch
      /\ t.running = s.running /\ t.seen = s.seen /\ t.taken = s.taken
  BY <1>1, <1>4 DEF State
<1> HIDE DEF t
<1>8. t \in Worker
  BY <1>1, <1>5, <1>7 DEF Worker
<1>9. Rebuilt(s, t, f, b, FALSE)
  BY <1>5, <1>7 DEF Rebuilt
<1> QED
  BY <1>6, <1>7, <1>8, <1>9 DEF Wakes

\* The views of f are kept in the queue and in the batch.
Away(s, f, d) == [s EXCEPT !.queue = Detached(@, f, d), !.batch = Detached(@, f, d)]

LEMMA ViewsKept ==
  ASSUME NEW s \in Worker, NEW f, NEW d \in Text
  PROVE  LET t == Away(s, f, d) IN
         /\ t \in Worker /\ (Wakes(s) => Wakes(t))
         /\ t.mem = s.mem /\ t.temp = s.temp /\ t.running = s.running /\ t.seen = s.seen /\ t.taken = s.taken
         /\ t.queue = Detached(s.queue, f, d) /\ t.batch = Detached(s.batch, f, d)
<1> DEFINE q == Detached(s.queue, f, d)
           e == Detached(s.batch, f, d)
           t == [s EXCEPT !.queue = q, !.batch = e]
<1>1. s \in State /\ s.queue \in Seq(Item) /\ s.batch \in Seq(Item) /\ s.temp \subseteq DOMAIN s.mem
      /\ s.taken <= Len(s.seen) /\ (~s.running => s.batch = <<>>)
  BY WorkerIs
<1>2. q \in Seq(Item) /\ (s.queue = <<>> <=> q = <<>>) /\ e \in Seq(Item) /\ (s.batch = <<>> <=> e = <<>>)
  BY <1>1, DetachedIs
<1>3. t = Away(s, f, d)
  BY DEF Away
<1> HIDE DEF q, e
<1>4. /\ t \in State /\ t.mem = s.mem /\ t.temp = s.temp /\ t.queue = q /\ t.batch = e
      /\ t.running = s.running /\ t.seen = s.seen /\ t.taken = s.taken
  BY <1>1, <1>2 DEF State
<1> HIDE DEF t
<1>5. t \in Worker /\ (Wakes(s) => Wakes(t))
  BY <1>1, <1>2, <1>4 DEF Worker, Wakes
<1> QED
  BY <1>3, <1>4, <1>5 DEF q, e

LEMMA GrownIs ==
  ASSUME NEW s \in Worker, NEW f \in DOMAIN s.mem, NEW n \in 0 .. MaxLen
  PROVE  LET t == Grown(s, f, n)
             b == s.mem[f]
         IN /\ t \in Worker /\ (Wakes(s) => Wakes(t))
            /\ Rebuilt(s, t, f, Resized(b, n), Replaced(b, n))
<1> DEFINE b == s.mem[f]
           r == Resized(b, n)
           u == SetBuffer(s, f, r)
           t == Grown(s, f, n)
<1>1. f \in File /\ b \in Buffer /\ b.data \in Text
  BY WorkerIs, MemIs
<1>2. r \in Buffer
  BY <1>1, ResizedIs
<1> HIDE DEF r
<1>3. u \in Worker /\ Rebuilt(s, u, f, r, FALSE) /\ (Wakes(s) => Wakes(u))
  BY <1>1, <1>2, SetBufferIs
<1>4. t = IF Replaced(b, n)
          THEN [u EXCEPT !.queue = Detached(@, f, b.data), !.batch = Detached(@, f, b.data)]
          ELSE u
  BY DEF Grown, r
<1> HIDE DEF u, t
<1>5. CASE Replaced(b, n)
  <2> DEFINE v == Away(u, f, b.data)
  <2>1. t = v
    BY <1>4, <1>5 DEF Away
  <2>0. /\ v \in Worker /\ (Wakes(u) => Wakes(v))
        /\ v.mem = u.mem /\ v.temp = u.temp /\ v.running = u.running /\ v.seen = u.seen /\ v.taken = u.taken
        /\ v.queue = Detached(u.queue, f, b.data) /\ v.batch = Detached(u.batch, f, b.data)
    BY <1>1, <1>3, ViewsKept
  <2> HIDE DEF v
  <2>2. /\ t \in Worker /\ (Wakes(u) => Wakes(t))
        /\ t.mem = u.mem /\ t.temp = u.temp /\ t.running = u.running /\ t.seen = u.seen /\ t.taken = u.taken
        /\ t.queue = Detached(u.queue, f, b.data) /\ t.batch = Detached(u.batch, f, b.data)
    BY <2>0, <2>1
  <2>3. Rebuilt(s, t, f, r, Replaced(b, n))
    BY <1>3, <1>5, <2>2 DEF Rebuilt
  <2> QED
    BY <1>3, <1>5, <2>2, <2>3 DEF t, r
<1>6. CASE ~Replaced(b, n)
  <2>1. t = u
    BY <1>4, <1>6
  <2>2. Rebuilt(s, t, f, r, Replaced(b, n))
    BY <1>3, <1>6, <2>1 DEF Rebuilt
  <2> QED
    BY <1>3, <2>1, <2>2 DEF t, r
<1> QED
  BY <1>5, <1>6

\* What has been done to one buffer is done to one file.
LEMMA RebuiltFiles ==
  ASSUME NEW s \in Worker, NEW t, NEW f \in File, NEW buf, NEW away, Rebuilt(s, t, f, buf, away)
  PROVE  /\ f \notin s.temp => Files(t) = Put(Files(s), f, buf.data)
         /\ f \in s.temp => Files(t) = Files(s)
<1> DEFINE D == DOMAIN s.mem \ s.temp
           E == DOMAIN t.mem \ t.temp
<1>0. s.temp \subseteq DOMAIN s.mem
  BY WorkerIs
<1>1. Files(s) = [g \in D |-> s.mem[g].data] /\ Files(t) = [g \in E |-> t.mem[g].data]
  BY DEF Files
<1>2. \A g \in E : t.mem[g] = IF g = f THEN buf ELSE s.mem[g]
  BY DEF Rebuilt
<1>3. CASE f \notin s.temp
  <2>1. E = D \cup {f}
    BY <1>3 DEF Rebuilt
  <2>2. Put(Files(s), f, buf.data) = [g \in D \cup {f} |-> IF g = f THEN buf.data ELSE Files(s)[g]]
    BY <1>1 DEF Put
  <2> HIDE DEF D, E
  <2>3. \A g \in E : t.mem[g].data = IF g = f THEN buf.data ELSE Files(s)[g]
    BY <1>1, <1>2, <2>1
  <2> QED
    BY <1>1, <1>3, <2>1, <2>2, <2>3
<1>4. CASE f \in s.temp
  <2>1. E = D /\ f \notin D
    BY <1>0, <1>4 DEF Rebuilt
  <2> HIDE DEF D, E
  <2>2. \A g \in E : t.mem[g].data = s.mem[g].data
    BY <1>2, <2>1
  <2> QED
    BY <1>1, <1>4, <2>1, <2>2
<1> QED
  BY <1>3, <1>4

LEMMA RebuiltDoes ==
  ASSUME NEW s \in Worker, NEW x \in Item, x.file \notin s.temp,
         NEW t, NEW buf, NEW away \in BOOLEAN, Rebuilt(s, t, x.file, buf, away), away => x.file \in DOMAIN s.mem,
         Alters(Files(s), Put(Files(s), x.file, buf.data), x), NEW b, NEW old, Good(s, b, old)
  PROVE  Does(s, t, x)
<1> DEFINE f == x.file
           F == Files(s)
           F2 == Put(F, f, buf.data)
<1>1. Files(t) = F2 /\ f \in File
  BY ItemShape, RebuiltFiles
<1>2. s.batch \in Seq(Item) /\ s.queue \in Seq(Item) /\ LiveIn(s.batch, F) /\ LiveIn(s.queue, F)
  BY WorkerIs DEF Good, Looks
<1>3. Alters(F, F2, x)
  OBVIOUS
<1>4. (\A g : g # f => Same(F, F2, g)) /\ f \in DOMAIN F2
  BY PutIs
<1>5. \A c \in Cells : c \notin Sets(x) => Data(F2, f, c) = Data(F, f, c)
  BY <1>3 DEF Alters
<1>6. /\ t.running = s.running /\ t.seen = s.seen /\ t.taken = s.taken
      /\ t.queue = IF away THEN Detached(s.queue, f, s.mem[f].data) ELSE s.queue
      /\ t.batch = IF away THEN Detached(s.batch, f, s.mem[f].data) ELSE s.batch
  BY DEF Rebuilt
<1>70. f \in DOMAIN s.mem => s.mem[f].data \in Text
  BY WorkerIs, MemIs
<1>71. f \in DOMAIN F => F[f] = s.mem[f].data
  BY FilesIs
<1> HIDE DEF F, F2
<1>7. Moved(s.batch, t.batch, F, F2, f, Sets(x)) /\ Moved(s.queue, t.queue, F, F2, f, Sets(x))
  <2> HIDE DEF f
  <2>1. CASE away
    <3>1. /\ t.queue = Detached(s.queue, f, s.mem[f].data) /\ t.batch = Detached(s.batch, f, s.mem[f].data)
          /\ s.mem[f].data \in Text
      BY <1>6, <1>70, <2>1 DEF f
    <3>2. Moved(s.batch, Detached(s.batch, f, s.mem[f].data), F, F2, f, Sets(x))
      BY <1>2, <1>4, <1>71, <3>1, Leaving
    <3>3. Moved(s.queue, Detached(s.queue, f, s.mem[f].data), F, F2, f, Sets(x))
      BY <1>2, <1>4, <1>71, <3>1, Leaving
    <3> QED
      BY <3>1, <3>2, <3>3
  <2>2. CASE ~away
    <3>1. t.queue = s.queue /\ t.batch = s.batch
      BY <1>6, <2>2
    <3>2. Moved(s.batch, s.batch, F, F2, f, Sets(x))
      BY <1>2, <1>4, <1>5, Staying
    <3>3. Moved(s.queue, s.queue, F, F2, f, Sets(x))
      BY <1>2, <1>4, <1>5, Staying
    <3> QED
      BY <3>1, <3>2, <3>3
  <2> QED
    BY <2>1, <2>2
<1> QED
  BY <1>1, <1>3, <1>4, <1>6, <1>7 DEF Does, F

\* A temporary file is of no interest to what is stored.
LEMMA RebuiltAside ==
  ASSUME NEW s \in Worker, NEW t \in Worker, Wakes(t), NEW f \in File, f \in s.temp,
         NEW buf, NEW away \in BOOLEAN, Rebuilt(s, t, f, buf, away)
  PROVE  Called(s, t)
<1> SUFFICES ASSUME NEW b \in Db, NEW old, Good(s, b, old)
             PROVE  /\ Files(t) = Files(s) /\ t.queue = s.queue /\ t.batch = s.batch
                    /\ t.running = s.running /\ t.seen = s.seen /\ t.taken = s.taken
  BY CalledAside
<1>1. Files(t) = Files(s)
  BY RebuiltFiles
<1>2. s.batch \in Seq(Item) /\ s.queue \in Seq(Item)
      /\ LiveIn(s.batch, Files(s)) /\ LiveIn(s.queue, Files(s))
  BY WorkerIs DEF Good, Looks
<1>3. f \notin DOMAIN Files(s) /\ s.mem[f].data \in Text
  BY FilesIs, WorkerIs, MemIs
<1>4. Detached(s.queue, f, s.mem[f].data) = s.queue /\ Detached(s.batch, f, s.mem[f].data) = s.batch
  BY <1>2, <1>3, NoViews
<1> QED
  BY <1>1, <1>4 DEF Rebuilt

-----------------------------------------------------------------------------
(* The items and what they alter.                                          *)

LEMMA MarkIs ==
  ASSUME NEW f \in File
  PROVE  /\ Create(f) \in Item /\ Create(f).file = f /\ Create(f).op = "create" /\ ~Live(Create(f))
         /\ Delete(f) \in Item /\ Delete(f).file = f /\ Delete(f).op = "delete" /\ ~Live(Delete(f))
BY DEF Item, Marks, Create, Delete, Live

LEMMA CutIs ==
  ASSUME NEW f \in File, NEW n \in 0 .. MaxLen, n % BlockSize = 0
  PROVE  /\ Truncate(f, n) \in Item /\ Truncate(f, n).file = f /\ Truncate(f, n).op = "truncate"
         /\ Truncate(f, n).len = n /\ ~Live(Truncate(f, n))
BY DEF Item, Cuts, Lengths, Truncate, Live

LEMMA CreateAlters ==
  ASSUME NEW f \in File, NEW F, f \notin DOMAIN F
  PROVE  Alters(F, Put(F, f, <<>>), Create(f))
<1> DEFINE x == Create(f)
           G == Put(F, f, <<>>)
<1>1. x.file = f /\ x.op = "create"
  BY MarkIs
<1>2. /\ \A g : g # f => Same(F, G, g)
      /\ Size(G, f) = 0 /\ \A c \in Cells : Data(G, f, c) = 0
  <2>1. Len(<<>>) = 0 /\ \A c \in Cells : ~(c < 0)
    BY Constants
  <2> QED
    BY <2>1, PutIs
<1>3. Size(F, f) = -1
  BY DEF Size
<1> HIDE DEF x, G
<1>4. Runs(x, Size(F, f)) /\ Leaves(x) = 0 /\ (\A c \in Cells : Shown(x, G, c) = 0) /\ Sets(x) = Cells
  BY <1>1, <1>3 DEF Runs, Leaves, Shown, Sets
<1>5. Alters(F, G, x)
  BY <1>1, <1>2, <1>4 DEF Alters
<1> QED
  BY <1>5 DEF x, G

LEMMA DeleteAlters ==
  ASSUME NEW f \in File, NEW F \in Texts, f \in DOMAIN F
  PROVE  Alters(F, Drop(F, f), Delete(f))
<1> DEFINE x == Delete(f)
           G == Drop(F, f)
<1>1. x.file = f /\ x.op = "delete"
  BY MarkIs
<1>2. /\ \A g : g # f => Same(F, G, g)
      /\ Size(G, f) = -1 /\ \A c \in Cells : Data(G, f, c) = 0
  BY DropIs
<1>3. Size(F, f) >= 0
  BY DEF Size, Texts, Text
<1> HIDE DEF x, G
<1>4. Runs(x, Size(F, f)) /\ Leaves(x) = -1 /\ (\A c \in Cells : Shown(x, G, c) = 0) /\ Sets(x) = Cells
  BY <1>1, <1>3 DEF Runs, Leaves, Shown, Sets
<1>5. Alters(F, G, x)
  BY <1>1, <1>2, <1>4 DEF Alters
<1> QED
  BY <1>5 DEF x, G

\* d is e with the length n, with zeros where e has less.
Fitted(e, n, d) == Len(d) = n /\ \A i \in 1 .. n : d[i] = IF i <= Len(e) THEN e[i] ELSE 0

LEMMA CutAlters ==
  ASSUME NEW f \in File, NEW F \in Texts, f \in DOMAIN F, NEW n \in 0 .. MaxLen, n % BlockSize = 0,
         NEW d, Fitted(F[f], n, d)
  PROVE  Alters(F, Put(F, f, d), Truncate(f, n))
<1> DEFINE x == Truncate(f, n)
           G == Put(F, f, d)
<1>0. Len(d) = n /\ \A i \in 1 .. n : d[i] = IF i <= Len(F[f]) THEN F[f][i] ELSE 0
  BY DEF Fitted
<1>1. x.file = f /\ x.op = "truncate" /\ x.len = n
  BY CutIs
<1>2. /\ \A g : g # f => Same(F, G, g)
      /\ Size(G, f) = n /\ \A c \in Cells : Data(G, f, c) = IF c < n THEN d[c + 1] ELSE 0
  BY <1>0, PutIs
<1>3. Size(F, f) = Len(F[f]) /\ Len(F[f]) \in Nat /\ n \in Nat
  BY DEF Size, Texts, Text
<1> HIDE DEF x, G
<1>4. Runs(x, Size(F, f)) /\ Leaves(x) = n /\ \A c \in Cells : Shown(x, G, c) = 0
  BY <1>1, <1>3 DEF Runs, Leaves, Shown
<1>5. \A c \in Cells : Tells(x, c) => Data(G, f, c) = 0
  <2>1. \A c \in Cells : c \in Nat /\ (c >= n => ~(c < n))
    BY <1>3, Constants
  <2> QED
    BY <1>1, <1>2, <2>1 DEF Tells
<1>6. ASSUME NEW c \in Cells, c \notin Sets(x) PROVE Data(G, f, c) = Data(F, f, c)
  <2>1. c \in Nat /\ c < n
    BY <1>1, <1>3, <1>6, Constants DEF Sets
  <2>2. c + 1 \in 1 .. n /\ (c + 1 <= Len(F[f]) <=> c < Len(F[f]))
    BY <1>3, <2>1
  <2>3. d[c + 1] = IF c < Len(F[f]) THEN F[f][c + 1] ELSE 0
    BY <1>0, <2>2
  <2> QED
    BY <1>2, <2>1, <2>3 DEF Data
<1>7. Alters(F, G, x)
  BY <1>1, <1>2, <1>4, <1>5, <1>6 DEF Alters
<1> QED
  BY <1>7 DEF x, G

-----------------------------------------------------------------------------
\* A write that the file may be given.
Fits(f, c) ==
    /\ c.at \in Nat /\ c.len \in Nat /\ c.at + c.len <= MaxLen
    /\ f \in Paged => \A k, j \in Nat : j \in c.at .. c.at + c.len - 1 /\ Block(k) = Block(j)
                                        => k \in c.at .. c.at + c.len - 1

LEMMA WriteItemIs ==
  ASSUME NEW f \in File, NEW view \in View, NEW c, Fits(f, c), NEW v \in Nat
  PROVE  LET x == WriteItem(f, view, c, v) IN
         /\ x \in Item /\ x \in WriteShape /\ x.file = f /\ x.op = "write" /\ x.base = view
         /\ \A k \in Cells : Covered(x, k) <=> k \in c.at .. c.at + c.len - 1
         /\ \A k \in Cells : Covered(x, k) => CellWritten(x, k) = v
         /\ LenWritten(x) = IF view.len < c.at + c.len THEN c.at + c.len ELSE view.len
<1> DEFINE w == [at |-> c.at, len |-> c.len, val |-> v]
           ws == <<w>>
           x == WriteItem(f, view, c, v)
<1>1. c.at \in Nat /\ c.len \in Nat /\ c.at + c.len <= MaxLen /\ MaxLen \in Nat
  BY Constants DEF Fits
<1>2. w \in Piece /\ w.at = c.at /\ w.len = c.len /\ w.val = v
  BY <1>1 DEF Piece
<1> HIDE DEF w
<1>3. ws \in Seq(Piece) /\ Len(ws) = 1 /\ DOMAIN ws = {1} /\ ws[1] = w
  BY <1>2
<1> HIDE DEF ws
<1>4. x = [op |-> "write", file |-> f, base |-> view, writes |-> ws]
  BY DEF WriteItem, ws, w
<1>5. x \in WriteShape /\ x.file = f /\ x.op = "write" /\ x.base = view /\ x.writes = ws
  BY <1>3, <1>4 DEF WriteShape
<1> HIDE DEF x
<1>6. \A k : Covered(x, k) <=> k \in c.at .. c.at + c.len - 1
  BY <1>2, <1>3, <1>5 DEF Covered, Covers
<1>7. ASSUME NEW k \in Cells, Covered(x, k) PROVE CellWritten(x, k) = v
  <2>1. Tops(x, k, 1)
    <3>1. 1 \in DOMAIN x.writes /\ \A i \in DOMAIN x.writes : i <= 1
      BY <1>3, <1>5
    <3>2. Covers(x.writes[1], k)
      BY <1>3, <1>5, <1>7 DEF Covered
    <3> QED
      BY <3>1, <3>2 DEF Tops
  <2>2. CellWritten(x, k) = x.writes[1].val
    BY <1>5, <2>1, CellWrittenIs
  <2> QED
    BY <1>2, <1>3, <1>5, <2>2
<1>8. LenWritten(x) = IF view.len < c.at + c.len THEN c.at + c.len ELSE view.len
  <2> DEFINE m == IF view.len < c.at + c.len THEN c.at + c.len ELSE view.len
  <2>1. view.len \in Nat /\ m \in Nat
    BY <1>1 DEF View
  <2>2. view.len <= m /\ c.at + c.len <= m /\ (view.len = m \/ c.at + c.len = m)
    BY <1>1, <2>1
  <2> HIDE DEF m
  <2>3. Ends(x, m)
    BY <1>2, <1>3, <1>5, <2>2 DEF Ends
  <2>4. m = LenWritten(x)
    BY <1>5, <2>1, <2>3, LenWrittenIs
  <2> QED
    BY <2>4 DEF m
<1>9. WholeBlocks(x)
  <2> SUFFICES ASSUME f \in Paged, NEW k \in Cells, Block(k) \in Touched(x) PROVE Covered(x, k)
    BY <1>5 DEF WholeBlocks
  <2>1. PICK y \in Cells : Block(k) = Block(y) /\ \E u \in ToSet(x.writes) : Covers(u, y)
    BY DEF Touched
  <2>2. Covered(x, y)
    BY <2>1 DEF ToSet, Covered
  <2>3. y \in c.at .. c.at + c.len - 1 /\ k \in Nat /\ y \in Nat
    BY <1>6, <2>2, Constants
  <2>4. k \in c.at .. c.at + c.len - 1
    BY <2>1, <2>3 DEF Fits
  <2> QED
    BY <1>6, <2>4
<1>10. x \in Item
  BY <1>5, <1>9 DEF Item, Writes
<1> QED
  BY <1>5, <1>6, <1>7, <1>8, <1>10 DEF x

\* d is e, longer if need be, with v over the cells of c.
Overlaid(e, c, v, d) ==
    /\ Len(d) = IF Len(e) < c.at + c.len THEN c.at + c.len ELSE Len(e)
    /\ \A i \in 1 .. Len(d) : d[i] = IF i - 1 \in c.at .. c.at + c.len - 1 THEN v
                                  ELSE IF i <= Len(e) THEN e[i] ELSE 0
\* The view shows what the array e had.
ViewOf(view, e) == view \in View /\ view.len = Len(e) /\ (~view.live => view.data = e)

LEMMA WriteAlters ==
  ASSUME NEW f \in File, NEW F \in Texts, f \in DOMAIN F, NEW c, Fits(f, c), NEW v \in Nat,
         NEW view, ViewOf(view, F[f]), NEW d, Overlaid(F[f], c, v, d)
  PROVE  Alters(F, Put(F, f, d), WriteItem(f, view, c, v))
<1> DEFINE x == WriteItem(f, view, c, v)
           G == Put(F, f, d)
           n == Len(F[f])
<1>0. /\ view \in View /\ view.len = Len(F[f]) /\ (~view.live => view.data = F[f])
      /\ Len(d) = IF Len(F[f]) < c.at + c.len THEN c.at + c.len ELSE Len(F[f])
      /\ \A i \in 1 .. Len(d) : d[i] = IF i - 1 \in c.at .. c.at + c.len - 1 THEN v
                                    ELSE IF i <= Len(F[f]) THEN F[f][i] ELSE 0
  BY DEF ViewOf, Overlaid
<1>1. /\ x \in WriteShape /\ x.file = f /\ x.op = "write" /\ x.base = view
      /\ \A k \in Cells : Covered(x, k) <=> k \in c.at .. c.at + c.len - 1
      /\ \A k \in Cells : Covered(x, k) => CellWritten(x, k) = v
      /\ LenWritten(x) = IF view.len < c.at + c.len THEN c.at + c.len ELSE view.len
  BY <1>0, WriteItemIs
<1>2. /\ \A g : g # f => Same(F, G, g)
      /\ Size(G, f) = Len(d) /\ \A k \in Cells : Data(G, f, k) = IF k < Len(d) THEN d[k + 1] ELSE 0
  BY PutIs
<1>3. Size(F, f) = n /\ n \in Nat /\ c.at \in Nat /\ c.len \in Nat
      /\ \A k : Data(F, f, k) = IF k < n THEN F[f][k + 1] ELSE 0
  BY DEF Size, Texts, Text, Fits, Data
<1>4. /\ Len(d) \in Nat /\ Len(d) = LenWritten(x) /\ n <= Len(d) /\ c.at + c.len <= Len(d)
  BY <1>0, <1>1, <1>3
<1> HIDE DEF x, G, n
<1>5. ASSUME NEW k \in Cells
      PROVE  Data(G, f, k) = IF k \in c.at .. c.at + c.len - 1 THEN v ELSE IF k < n THEN F[f][k + 1] ELSE 0
  <2>1. k \in Nat
    BY Constants
  <2>2. CASE k < Len(d)
    <3>1. k + 1 \in 1 .. Len(d) /\ k + 1 - 1 = k /\ (k + 1 <= n <=> k < n)
      BY <1>3, <1>4, <2>1, <2>2
    <3>2. PICK i \in 1 .. Len(d) : i = k + 1
      BY <3>1
    <3>3. i - 1 = k /\ (i <= n <=> k < n)
      BY <1>3, <2>1, <3>2
    <3>4. d[i] = IF i - 1 \in c.at .. c.at + c.len - 1 THEN v ELSE IF i <= n THEN F[f][i] ELSE 0
      BY <1>0 DEF n
    <3> QED
      BY <1>2, <2>2, <3>2, <3>3, <3>4
  <2>3. CASE ~(k < Len(d))
    <3>1. k \notin c.at .. c.at + c.len - 1 /\ ~(k < n)
      BY <1>3, <1>4, <2>1, <2>3
    <3> QED
      BY <1>2, <2>3, <3>1
  <2> QED
    BY <2>2, <2>3
<1>6. Runs(x, Size(F, f)) /\ Size(G, f) = Leaves(x)
  BY <1>0, <1>1, <1>2, <1>3, <1>4 DEF Runs, Leaves, n
<1>7. ASSUME NEW k \in Cells PROVE Shown(x, G, k) = Data(G, f, k)
  <2>1. CASE Covered(x, k)
    BY <1>1, <1>5, <2>1 DEF Shown
  <2>2. CASE ~Covered(x, k)
    <3>1. Shown(x, G, k) = Viewed(x, G, k) /\ k \notin c.at .. c.at + c.len - 1
      BY <1>1, <2>2 DEF Shown
    <3>2. Data(G, f, k) = IF k < n THEN F[f][k + 1] ELSE 0
      BY <1>5, <3>1
    <3>3. CASE view.live
      BY <1>1, <3>1, <3>2, <3>3, <1>0 DEF Viewed, n
    <3>4. CASE ~view.live
      BY <1>1, <3>1, <3>2, <3>4, <1>0 DEF Viewed, n
    <3> QED
      BY <3>3, <3>4
  <2> QED
    BY <2>1, <2>2
<1>8. ASSUME NEW k \in Cells, k \notin Sets(x) PROVE Data(G, f, k) = Data(F, f, k)
  <2>1. k \notin c.at .. c.at + c.len - 1
    BY <1>1, <1>8 DEF Sets
  <2> QED
    BY <1>3, <1>5, <2>1
<1>9. Alters(F, G, x)
  BY <1>1, <1>2, <1>6, <1>7, <1>8 DEF Alters
<1> QED
  BY <1>9 DEF x, G

-----------------------------------------------------------------------------
(* The calls of SQLite.                                                    *)

\* A temporary file that xOpen makes.
Apart(t, f) == [t EXCEPT !.temp = @ \cup {f}]

LEMMA ApartIs ==
  ASSUME NEW t \in Worker, NEW f \in DOMAIN t.mem
  PROVE  LET u == Apart(t, f) IN
         /\ u \in Worker /\ (Wakes(t) => Wakes(u))
         /\ u.mem = t.mem /\ u.temp = t.temp \cup {f} /\ u.queue = t.queue /\ u.batch = t.batch
         /\ u.running = t.running /\ u.seen = t.seen /\ u.taken = t.taken
<1> DEFINE T == t.temp \cup {f}
           u == [t EXCEPT !.temp = T]
<1>1. t \in State /\ t.mem \in Buffers /\ t.temp \subseteq DOMAIN t.mem /\ t.taken <= Len(t.seen)
      /\ (~t.running => t.batch = <<>>) /\ DOMAIN t.mem \subseteq File
  BY WorkerIs, MemIs
<1>2. T \subseteq File /\ T \subseteq DOMAIN t.mem
  BY <1>1
<1>3. u = Apart(t, f)
  BY DEF Apart
<1> HIDE DEF T
<1>4. /\ u \in State /\ u.mem = t.mem /\ u.temp = T /\ u.queue = t.queue /\ u.batch = t.batch
      /\ u.running = t.running /\ u.seen = t.seen /\ u.taken = t.taken
  BY <1>1, <1>2 DEF State
<1> HIDE DEF u
<1>5. u \in Worker /\ (Wakes(t) => Wakes(u))
  BY <1>1, <1>2, <1>4 DEF Worker, Wakes
<1> QED
  BY <1>3, <1>4, <1>5 DEF T

LEMMA OpenedIs ==
  ASSUME NEW s \in Worker, Wakes(s), NEW f \in File, NEW temporary \in BOOLEAN
  PROVE  LET u == Opened(s, f, temporary) IN Called(s, u) /\ f \in DOMAIN u.mem
<1> DEFINE t == SetBuffer(s, f, EmptyBuffer)
           u == Opened(s, f, temporary)
<1>1. EmptyBuffer \in Buffer /\ EmptyBuffer.data = <<>>
  BY Constants DEF EmptyBuffer, Buffer, Text
<1>2. t \in Worker /\ Rebuilt(s, t, f, EmptyBuffer, FALSE) /\ Wakes(t)
  BY <1>1, SetBufferIs
<1>3. CASE f \in DOMAIN s.mem
  <2>1. u = s
    BY <1>3 DEF Opened
  <2> QED
    BY <1>3, <2>1, CalledNot
<1>4. CASE f \notin DOMAIN s.mem /\ temporary
  <2>1. u = Apart(t, f)
    BY <1>4 DEF Opened, Apart
  <2>2. f \in DOMAIN t.mem /\ DOMAIN t.mem = DOMAIN s.mem \cup {f} /\ t.temp = s.temp
        /\ t.queue = s.queue /\ t.batch = s.batch /\ t.running = s.running
        /\ t.seen = s.seen /\ t.taken = s.taken
        /\ \A g \in DOMAIN t.mem : t.mem[g] = IF g = f THEN EmptyBuffer ELSE s.mem[g]
    BY <1>2 DEF Rebuilt
  <2> HIDE DEF t
  <2>3. /\ Apart(t, f) \in Worker /\ Wakes(Apart(t, f))
        /\ Apart(t, f).mem = t.mem /\ Apart(t, f).temp = t.temp \cup {f}
        /\ Apart(t, f).queue = t.queue /\ Apart(t, f).batch = t.batch
        /\ Apart(t, f).running = t.running /\ Apart(t, f).seen = t.seen /\ Apart(t, f).taken = t.taken
    BY <1>2, <2>2, ApartIs
  <2> HIDE DEF u
  <2>4. /\ u \in Worker /\ Wakes(u) /\ u.mem = t.mem /\ u.temp = t.temp \cup {f}
        /\ u.queue = t.queue /\ u.batch = t.batch
        /\ u.running = t.running /\ u.seen = t.seen /\ u.taken = t.taken
    BY <2>1, <2>3
  <2>5. Files(u) = Files(s)
    <3> DEFINE D == DOMAIN s.mem \ s.temp
               E == DOMAIN u.mem \ u.temp
    <3>1. Files(s) = [g \in D |-> s.mem[g].data] /\ Files(u) = [g \in E |-> u.mem[g].data]
      BY DEF Files
    <3>2. E = D /\ f \notin D
      BY <1>4, <2>2, <2>4
    <3>3. \A g \in D : u.mem[g] = s.mem[g]
      BY <2>2, <2>4, <3>2
    <3> HIDE DEF D, E
    <3> QED
      BY <3>1, <3>2, <3>3
  <2>6. Called(s, u)
    BY <2>2, <2>4, <2>5, CalledAside
  <2> QED
    BY <2>2, <2>4, <2>6 DEF u
<1>5. CASE f \notin DOMAIN s.mem /\ ~temporary
  <2> DEFINE x == Create(f)
  <2>1. u = Enqueued(Noted(t), x)
    BY <1>5 DEF Opened
  <2>2. x \in Item /\ x.file = f
    BY MarkIs
  <2>3. f \notin s.temp /\ f \notin DOMAIN Files(s)
    BY <1>5, WorkerIs, FilesIs
  <2>4. Alters(Files(s), Put(Files(s), f, <<>>), x)
    BY <2>3, CreateAlters
  <2> HIDE DEF x, t, u
  <2>5. \A b \in Db : \A old : Good(s, b, old) => Does(s, t, x)
    <3> SUFFICES ASSUME NEW b \in Db, NEW old, Good(s, b, old) PROVE Does(s, t, x)
      OBVIOUS
    <3>1. Rebuilt(s, t, x.file, EmptyBuffer, FALSE)
      BY <1>2, <2>2
    <3>2. Alters(Files(s), Put(Files(s), x.file, EmptyBuffer.data), x)
      BY <1>1, <2>2, <2>4
    <3> QED
      BY <2>2, <2>3, <3>1, <3>2, RebuiltDoes
  <2>6. Called(s, u) /\ u.mem = t.mem
    BY <1>2, <2>1, <2>2, <2>5, CalledNoted
  <2> QED
    BY <1>2, <2>6 DEF Rebuilt, u
<1> QED
  BY <1>3, <1>4, <1>5

LEMMA TruncatedIs ==
  ASSUME NEW s \in Worker, Wakes(s), NEW f \in DOMAIN s.mem, NEW n \in 0 .. MaxLen, n % BlockSize = 0
  PROVE  LET u == Truncated(s, f, n) IN Called(s, u) /\ f \in DOMAIN u.mem
<1> DEFINE b == s.mem[f]
           r == Resized(b, n)
           away == Replaced(b, n)
           t == Grown(s, f, n)
           u == Truncated(s, f, n)
<1>1. t \in Worker /\ Wakes(t) /\ Rebuilt(s, t, f, r, away)
  BY GrownIs
<1>2. f \in File /\ b \in Buffer /\ b.data \in Text
  BY WorkerIs, MemIs
<1>3. away \in BOOLEAN
  BY DEF Replaced
<1>4. Len(r.data) = n /\ \A i \in 1 .. n : r.data[i] = IF i <= Len(b.data) THEN b.data[i] ELSE 0
  BY <1>2, ResizedIs
<1> HIDE DEF r, away, t
<1>5. CASE f \in s.temp
  <2>1. u = t
    BY <1>5 DEF t, Truncated
  <2>2. Called(s, t)
    BY <1>1, <1>2, <1>3, <1>5, RebuiltAside
  <2> QED
    BY <1>1, <2>1, <2>2 DEF Rebuilt
<1>6. CASE f \notin s.temp
  <2> DEFINE x == Truncate(f, n)
  <2>1. u = Enqueued(Noted(t), x)
    BY <1>6 DEF t, Truncated
  <2>2. x \in Item /\ x.file = f
    BY <1>2, CutIs
  <2>3. f \in DOMAIN Files(s) /\ Files(s)[f] = b.data /\ Files(s) \in Texts
    BY <1>6, FilesIs
  <2>4. Fitted(Files(s)[f], n, r.data)
    BY <1>4, <2>3 DEF Fitted
  <2>5. Alters(Files(s), Put(Files(s), f, r.data), x)
    BY <1>2, <2>3, <2>4, CutAlters
  <2> HIDE DEF x, u
  <2>6. \A b0 \in Db : \A old : Good(s, b0, old) => Does(s, t, x)
    <3> SUFFICES ASSUME NEW b0 \in Db, NEW old, Good(s, b0, old) PROVE Does(s, t, x)
      OBVIOUS
    <3>1. Rebuilt(s, t, x.file, r, away) /\ Alters(Files(s), Put(Files(s), x.file, r.data), x)
          /\ x.file \notin s.temp /\ x.file \in DOMAIN s.mem
      BY <1>1, <1>6, <2>2, <2>5
    <3> QED
      BY <1>3, <2>2, <3>1, RebuiltDoes
  <2>7. Called(s, u) /\ u.mem = t.mem
    BY <1>1, <2>1, <2>2, <2>6, CalledNoted
  <2> QED
    BY <1>1, <2>7 DEF Rebuilt, u
<1> QED
  BY <1>5, <1>6

OldView(b, n) == IF Replaced(b, n) THEN KeptView(b.data) ELSE LiveView(Len(b.data))

LEMMA OldViewIs ==
  ASSUME NEW b \in Buffer, NEW n
  PROVE  ViewOf(OldView(b, n), b.data)
<1>1. b.data \in Text /\ b.data \in Seq(Nat) /\ Len(b.data) \in 0 .. MaxLen /\ <<>> \in Text
  BY Constants DEF Buffer, Text
<1>2. CASE Replaced(b, n)
  <2>1. OldView(b, n) = [live |-> FALSE, len |-> Len(b.data), data |-> b.data]
    BY <1>2 DEF OldView, KeptView
  <2> QED
    BY <1>1, <2>1 DEF ViewOf, View
<1>3. CASE ~Replaced(b, n)
  <2>1. OldView(b, n) = [live |-> TRUE, len |-> Len(b.data), data |-> <<>>]
    BY <1>3 DEF OldView, LiveView
  <2> QED
    BY <1>1, <2>1 DEF ViewOf, View
<1> QED
  BY <1>2, <1>3

\* The buffer once more.
LEMMA RebuiltTwice ==
  ASSUME NEW s, NEW t, NEW u, NEW f, NEW b, NEW c, NEW away,
         Rebuilt(s, t, f, b, away), Rebuilt(t, u, f, c, FALSE)
  PROVE  Rebuilt(s, u, f, c, away)
<1>1. /\ DOMAIN u.mem = DOMAIN t.mem \cup {f} /\ DOMAIN t.mem = DOMAIN s.mem \cup {f}
      /\ \A g \in DOMAIN u.mem : u.mem[g] = IF g = f THEN c ELSE t.mem[g]
      /\ \A g \in DOMAIN t.mem : t.mem[g] = IF g = f THEN b ELSE s.mem[g]
      /\ u.queue = t.queue /\ u.batch = t.batch
      /\ u.temp = t.temp /\ u.running = t.running /\ u.seen = t.seen /\ u.taken = t.taken
  BY DEF Rebuilt
<1>2. DOMAIN u.mem = DOMAIN s.mem \cup {f} /\ \A g \in DOMAIN u.mem : u.mem[g] = IF g = f THEN c ELSE s.mem[g]
  BY <1>1
<1> QED
  BY <1>1, <1>2 DEF Rebuilt

\* In u the file f has the bytes of c.
Written(s, u, f, c, v, buf) ==
    /\ u \in Worker /\ (Wakes(s) => Wakes(u))
    /\ Rebuilt(s, u, f, buf, Replaced(s.mem[f], c.at + c.len))
    /\ Overlaid(s.mem[f].data, c, v, buf.data)

LEMMA WroteMem ==
  ASSUME NEW s \in Worker, NEW f \in DOMAIN s.mem, NEW c, Fits(f, c), NEW v \in Nat
  PROVE  \E u, buf :
           /\ Written(s, u, f, c, v, buf)
           /\ Wrote(s, f, c, v) = IF f \in s.temp THEN u
                                  ELSE Enqueued(Noted(u), WriteItem(f, OldView(s.mem[f], c.at + c.len), c, v))
<1> DEFINE b == s.mem[f]
           n == c.at + c.len
           t == IF n > Len(b.data) THEN Grown(s, f, n) ELSE s
           p == Patched(t.mem[f], c, v)
           u == SetBuffer(t, f, p)
<1>1. f \in File /\ b \in Buffer /\ b.data \in Text /\ Len(b.data) \in Nat /\ b.cap \in Nat /\ Len(b.data) <= b.cap
  BY WorkerIs, MemIs DEF Buffer, Text
<1>2. n \in 0 .. MaxLen /\ c.at \in Nat /\ c.len \in Nat
  BY Constants DEF Fits
<1>3. Wrote(s, f, c, v) = IF f \in s.temp THEN u
                          ELSE Enqueued(Noted(u), WriteItem(f, OldView(b, n), c, v))
  BY DEF Wrote, OldView
<1> DEFINE m == IF Len(b.data) < n THEN n ELSE Len(b.data)
           away == Replaced(b, n)
<1>4. PICK r \in Buffer : /\ t \in Worker /\ (Wakes(s) => Wakes(t)) /\ Rebuilt(s, t, f, r, away)
                          /\ Len(r.data) = m
                          /\ \A i \in 1 .. m : r.data[i] = IF i <= Len(b.data) THEN b.data[i] ELSE 0
  <2>1. CASE n > Len(b.data)
    <3>1. t = Grown(s, f, n) /\ m = n
      BY <1>1, <1>2, <2>1
    <3>2. Grown(s, f, n) \in Worker /\ (Wakes(s) => Wakes(Grown(s, f, n)))
          /\ Rebuilt(s, Grown(s, f, n), f, Resized(b, n), away)
      BY <1>2, GrownIs
    <3>3. Resized(b, n) \in Buffer /\ Len(Resized(b, n).data) = n
          /\ \A i \in 1 .. n : Resized(b, n).data[i] = IF i <= Len(b.data) THEN b.data[i] ELSE 0
      BY <1>1, <1>2, ResizedIs
    <3> HIDE DEF t, m, away, n
    <3> QED
      BY <3>1, <3>2, <3>3
  <2>2. CASE ~(n > Len(b.data))
    <3>1. t = s /\ m = Len(b.data) /\ ~away
      BY <1>1, <1>2, <2>2 DEF Replaced
    <3>2. Rebuilt(s, s, f, b, FALSE)
      BY DEF Rebuilt
    <3>3. Rebuilt(s, s, f, b, away)
      BY <3>1, <3>2 DEF Rebuilt
    <3>4. \A i \in 1 .. m : b.data[i] = IF i <= Len(b.data) THEN b.data[i] ELSE 0
      BY <3>1
    <3> HIDE DEF t, m, away, n
    <3> QED
      BY <1>1, <3>1, <3>3, <3>4
  <2> QED
    BY <2>1, <2>2
<1> HIDE DEF t, away
<1>5. t.mem[f] = r
  BY <1>4 DEF Rebuilt
<1>6. /\ p \in Buffer /\ Len(p.data) = Len(r.data)
      /\ \A i \in 1 .. Len(r.data) : p.data[i] = IF i - 1 \in c.at .. c.at + c.len - 1 THEN v ELSE r.data[i]
  BY <1>5, PatchedIs
<1> HIDE DEF p
<1>7. u \in Worker /\ Rebuilt(t, u, f, p, FALSE) /\ (Wakes(t) => Wakes(u))
  BY <1>1, <1>4, <1>6, SetBufferIs
<1> HIDE DEF u
<1>8. Rebuilt(s, u, f, p, away)
  BY <1>4, <1>7, RebuiltTwice
<1>9. Overlaid(b.data, c, v, p.data)
  <2>1. Len(p.data) = m /\ \A i \in 1 .. m : /\ p.data[i] = IF i - 1 \in c.at .. c.at + c.len - 1 THEN v ELSE r.data[i]
                                           /\ r.data[i] = IF i <= Len(b.data) THEN b.data[i] ELSE 0
    BY <1>4, <1>6
  <2> HIDE DEF b
  <2> QED
    BY <2>1 DEF Overlaid
<1>10. Written(s, u, f, c, v, p)
  BY <1>4, <1>7, <1>8, <1>9 DEF Written, away
<1> QED
  BY <1>3, <1>10

LEMMA WroteIs ==
  ASSUME NEW s \in Worker, Wakes(s), NEW f \in DOMAIN s.mem, NEW c, Fits(f, c), NEW v \in Nat
  PROVE  Called(s, Wrote(s, f, c, v))
<1> DEFINE b == s.mem[f]
           view == OldView(b, c.at + c.len)
           away == Replaced(b, c.at + c.len)
           x == WriteItem(f, view, c, v)
           w == Wrote(s, f, c, v)
<1>1. PICK u, buf : /\ Written(s, u, f, c, v, buf)
                    /\ w = IF f \in s.temp THEN u ELSE Enqueued(Noted(u), x)
  BY WroteMem
<1>2. f \in File /\ b \in Buffer
  BY WorkerIs, MemIs
<1>3. u \in Worker /\ Wakes(u) /\ Rebuilt(s, u, f, buf, away) /\ Overlaid(b.data, c, v, buf.data)
  BY <1>1 DEF Written
<1>4. away \in BOOLEAN
  BY DEF Replaced
<1>5. ViewOf(view, b.data) /\ view \in View
  BY <1>2, OldViewIs DEF ViewOf
<1> HIDE DEF away, view, w
<1>6. CASE f \in s.temp
  <2>1. Called(s, u)
    BY <1>2, <1>3, <1>4, <1>6, RebuiltAside
  <2> QED
    BY <1>1, <1>6, <2>1 DEF w
<1>7. CASE f \notin s.temp
  <2>1. x \in Item /\ x.file = f
    BY <1>2, <1>5, WriteItemIs
  <2>2. f \in DOMAIN Files(s) /\ Files(s)[f] = b.data /\ Files(s) \in Texts
    BY <1>7, FilesIs
  <2>3. ViewOf(view, Files(s)[f]) /\ Overlaid(Files(s)[f], c, v, buf.data)
    BY <1>3, <1>5, <2>2
  <2>4. Alters(Files(s), Put(Files(s), f, buf.data), x)
    BY <1>2, <2>2, <2>3, WriteAlters
  <2> HIDE DEF x
  <2>5. \A b0 \in Db : \A old : Good(s, b0, old) => Does(s, u, x)
    <3> SUFFICES ASSUME NEW b0 \in Db, NEW old, Good(s, b0, old) PROVE Does(s, u, x)
      OBVIOUS
    <3>1. Rebuilt(s, u, x.file, buf, away) /\ Alters(Files(s), Put(Files(s), x.file, buf.data), x)
          /\ x.file \notin s.temp /\ x.file \in DOMAIN s.mem
      BY <1>3, <1>7, <2>1, <2>4
    <3> QED
      BY <1>4, <2>1, <3>1, RebuiltDoes
  <2>6. Called(s, Enqueued(Noted(u), x))
    BY <1>3, <2>1, <2>5, CalledNoted
  <2> QED
    BY <1>1, <1>7, <2>6 DEF w
<1> QED
  BY <1>6, <1>7

-----------------------------------------------------------------------------
\* The file f is taken out of the memory.
Removed(s, f) ==
    LET data == s.mem[f].data IN
    [s EXCEPT !.mem = Restrict(@, DOMAIN @ \ {f}), !.temp = @ \ {f},
              !.queue = Detached(@, f, data), !.batch = Detached(@, f, data)]

LEMMA RemovedIs ==
  ASSUME NEW s \in Worker, NEW f \in DOMAIN s.mem
  PROVE  LET t == Removed(s, f)
             d == s.mem[f].data
         IN /\ t \in Worker /\ (Wakes(s) => Wakes(t))
            /\ DOMAIN t.mem = DOMAIN s.mem \ {f} /\ \A g \in DOMAIN t.mem : t.mem[g] = s.mem[g]
            /\ t.temp = s.temp \ {f} /\ t.running = s.running /\ t.seen = s.seen /\ t.taken = s.taken
            /\ t.queue = Detached(s.queue, f, d) /\ t.batch = Detached(s.batch, f, d)
<1> DEFINE d == s.mem[f].data
           D == DOMAIN s.mem \ {f}
           m == [g \in D |-> s.mem[g]]
           T == s.temp \ {f}
           q == Detached(s.queue, f, d)
           e == Detached(s.batch, f, d)
           t == [s EXCEPT !.mem = m, !.temp = T, !.queue = q, !.batch = e]
<1>1. s \in State /\ s.mem \in Buffers /\ s.temp \subseteq DOMAIN s.mem /\ s.taken <= Len(s.seen)
      /\ (~s.running => s.batch = <<>>) /\ DOMAIN s.mem \subseteq File
      /\ s.queue \in Seq(Item) /\ s.batch \in Seq(Item) /\ d \in Text
      /\ \A g \in DOMAIN s.mem : s.mem[g] \in Buffer
  BY WorkerIs, MemIs
<1>2. q \in Seq(Item) /\ (s.queue = <<>> <=> q = <<>>) /\ e \in Seq(Item) /\ (s.batch = <<>> <=> e = <<>>)
  BY <1>1, DetachedIs
<1>3. m \in Buffers
  <2>1. m \in [D -> Buffer] /\ D \in SUBSET File
    BY <1>1
  <2> HIDE DEF D, m
  <2> QED
    BY <2>1, MemMade
<1>4. DOMAIN m = D /\ (\A g \in D : m[g] = s.mem[g]) /\ T \subseteq File /\ T \subseteq D
  BY <1>1
<1>5. t = Removed(s, f)
  BY DEF Removed, Restrict
<1> HIDE DEF q, e, m, T, D
<1>6. /\ t \in State /\ t.mem = m /\ t.temp = T /\ t.queue = q /\ t.batch = e
      /\ t.running = s.running /\ t.seen = s.seen /\ t.taken = s.taken
  BY <1>1, <1>2, <1>3, <1>4 DEF State
<1> HIDE DEF t
<1>7. t \in Worker /\ (Wakes(s) => Wakes(t))
  BY <1>1, <1>2, <1>4, <1>6 DEF Worker, Wakes
<1> QED
  BY <1>4, <1>5, <1>6, <1>7 DEF q, e, T, D

LEMMA RemovedFiles ==
  ASSUME NEW s \in Worker, NEW f \in DOMAIN s.mem
  PROVE  /\ f \notin s.temp => Files(Removed(s, f)) = Drop(Files(s), f)
         /\ f \in s.temp => Files(Removed(s, f)) = Files(s)
<1> DEFINE t == Removed(s, f)
           D == DOMAIN s.mem \ s.temp
           E == DOMAIN t.mem \ t.temp
<1>1. /\ DOMAIN t.mem = DOMAIN s.mem \ {f} /\ \A g \in DOMAIN t.mem : t.mem[g] = s.mem[g]
      /\ t.temp = s.temp \ {f}
  BY RemovedIs
<1> HIDE DEF t
<1>2. Files(s) = [g \in D |-> s.mem[g].data] /\ Files(t) = [g \in E |-> t.mem[g].data]
  BY DEF Files
<1>3. \A g \in E : t.mem[g].data = s.mem[g].data
  BY <1>1
<1>4. E = D \ {f} /\ (f \in s.temp => E = D)
  BY <1>1
<1> HIDE DEF D, E
<1>5. Drop(Files(s), f) = [g \in D \ {f} |-> Files(s)[g]]
  BY <1>2 DEF Drop
<1>6. \A g \in E : t.mem[g].data = Files(s)[g]
  BY <1>2, <1>3, <1>4
<1>7. Files(t) = Drop(Files(s), f)
  BY <1>2, <1>4, <1>5, <1>6
<1>8. f \in s.temp => Files(t) = Files(s)
  BY <1>2, <1>3, <1>4
<1> QED
  BY <1>7, <1>8 DEF t

LEMMA DeletedIs ==
  ASSUME NEW s \in Worker, Wakes(s), NEW f \in DOMAIN s.mem
  PROVE  Called(s, Deleted(s, f))
<1> DEFINE t == Removed(s, f)
           d == s.mem[f].data
           F == Files(s)
           x == Delete(f)
           u == Deleted(s, f)
<1>1. /\ t \in Worker /\ Wakes(t) /\ t.running = s.running /\ t.seen = s.seen /\ t.taken = s.taken
      /\ t.queue = Detached(s.queue, f, d) /\ t.batch = Detached(s.batch, f, d)
  BY RemovedIs
<1>2. u = IF f \in s.temp THEN t ELSE Enqueued(Noted(t), x)
  BY DEF Deleted, Removed
<1>3. /\ f \notin s.temp => Files(t) = Drop(F, f)
      /\ f \in s.temp => Files(t) = F
  BY RemovedFiles
<1>4. f \in File /\ d \in Text /\ s.batch \in Seq(Item) /\ s.queue \in Seq(Item)
  BY WorkerIs, MemIs
<1> HIDE DEF t, u
<1>5. CASE f \in s.temp
  <2>1. ASSUME NEW b \in Db, NEW old, Good(s, b, old)
        PROVE  /\ Files(t) = Files(s) /\ t.queue = s.queue /\ t.batch = s.batch
               /\ t.running = s.running /\ t.seen = s.seen /\ t.taken = s.taken
    <3>1. LiveIn(s.batch, F) /\ LiveIn(s.queue, F)
      BY <2>1 DEF Good, Looks
    <3>2. f \notin DOMAIN F
      BY <1>5, FilesIs
    <3> HIDE DEF F
    <3>3. Detached(s.queue, f, d) = s.queue /\ Detached(s.batch, f, d) = s.batch
      BY <1>4, <3>1, <3>2, NoViews
    <3> QED
      BY <1>1, <1>3, <1>5, <3>3 DEF F
  <2>2. Called(s, t)
    BY <1>1, <2>1, CalledAside
  <2> QED
    BY <1>2, <1>5, <2>2 DEF u
<1>6. CASE f \notin s.temp
  <2>1. x \in Item /\ x.file = f /\ ~Live(x)
    BY <1>4, MarkIs
  <2>2. f \in DOMAIN F /\ F[f] = d /\ F \in Texts
    BY <1>6, FilesIs
  <2>3. Alters(F, Drop(F, f), x)
    BY <1>4, <2>2, DeleteAlters
  <2>4. \A g : g # f => Same(F, Drop(F, f), g)
    BY DropIs
  <2>5. ASSUME NEW b \in Db, NEW old, Good(s, b, old) PROVE Does(s, t, x)
    <3>1. LiveIn(s.batch, F) /\ LiveIn(s.queue, F)
      BY <2>5 DEF Good, Looks
    <3> HIDE DEF F, x, d
    <3>2. /\ Moved(s.batch, Detached(s.batch, f, d), F, Drop(F, f), f, Sets(x))
          /\ Moved(s.queue, Detached(s.queue, f, d), F, Drop(F, f), f, Sets(x))
      BY <1>4, <2>2, <2>4, <3>1, Leaving
    <3> QED
      BY <1>1, <1>3, <1>6, <2>1, <2>3, <3>2 DEF Does, F
  <2> HIDE DEF x
  <2>6. Called(s, Enqueued(Noted(t), x))
    BY <1>1, <2>1, <2>5, CalledNoted
  <2> QED
    BY <1>2, <1>6, <2>6 DEF u
<1> QED
  BY <1>5, <1>6

LEMMA ChunkFits ==
  ASSUME NEW f, NEW c \in Chunks(f)
  PROVE  Fits(f, c)
<1>1. CASE f \in Paged
  <2>1. c \in Whole
    BY <1>1 DEF Chunks
  <2>2. /\ c.at \in Nat /\ c.len = BlockSize /\ c.at + c.len <= MaxLen
        /\ \A k, j \in Nat : j \in c.at .. c.at + c.len - 1 /\ Block(k) = Block(j)
                             => k \in c.at .. c.at + c.len - 1
    BY <2>1, WholeIs
  <2> QED
    BY <2>2, Constants DEF Fits
<1>2. CASE f \notin Paged
  <2>1. c.at \in Nat /\ c.len \in Nat /\ c.at + c.len <= MaxLen
    BY <1>2, BlockAssumption DEF Chunks
  <2> QED
    BY <1>2, <2>1 DEF Fits
<1> QED
  BY <1>1, <1>2

LEMMA FirstBlock ==
  ASSUME NEW f \in Paged
  PROVE  Fits(f, [at |-> 0, len |-> BlockSize])
<1> DEFINE k == MaxLen \div BlockSize
<1>1. k \in Nat /\ MaxLen < BlockSize * k + BlockSize /\ BlockSize <= MaxLen
  BY Constants, Dividing
<1>2. k # 0
  <2> SUFFICES ASSUME k = 0 PROVE FALSE
    OBVIOUS
  <2>1. BlockSize * k = 0
    BY Constants
  <2> HIDE DEF k
  <2> QED
    BY <1>1, <2>1, Constants
<1> HIDE DEF k
<1>3. 0 \in 0 .. k - 1 /\ 0 * BlockSize = 0
  BY <1>1, <1>2, Constants
<1>4. [at |-> 0 * BlockSize, len |-> BlockSize] \in Whole
  BY <1>3 DEF Whole, k
<1>5. [at |-> 0, len |-> BlockSize] \in Chunks(f)
  BY <1>3, <1>4 DEF Chunks
<1> QED
  BY <1>5, ChunkFits

LEMMA CutLengths ==
  /\ \A n \in Cut : n \in 0 .. MaxLen /\ n % BlockSize = 0
  /\ 0 \in 0 .. MaxLen /\ 0 % BlockSize = 0
BY BlockAssumption

\* Whatever SQLite calls.
LEMMA CallsAre ==
  ASSUME fs \in Worker, Wakes(fs), ops \in Nat, Calls
  PROVE  \E s : Called(fs, s) /\ Call(s)
<1>1. PICK f \in File : XOpen(f) \/ XWrite(f) \/ XTruncate(f) \/ XDelete(f) \/ WriteBytes(f)
  BY DEF Calls
<1>2. f \in Paged => f \in File
  BY FileAssumption
<1>3. ops + 1 \in Nat
  OBVIOUS
<1>4. CASE XOpen(f)
  <2>1. PICK temporary \in BOOLEAN : Call(Opened(fs, f, temporary))
    BY <1>4 DEF XOpen
  <2>2. Called(fs, Opened(fs, f, temporary))
    BY OpenedIs
  <2> QED
    BY <2>1, <2>2
<1>5. CASE XWrite(f)
  <2>1. f \in DOMAIN fs.mem
    BY <1>5 DEF XWrite, Exists
  <2>2. PICK c \in Chunks(f) : Call(Wrote(fs, f, c, ops + 1))
    BY <1>5 DEF XWrite
  <2>3. Fits(f, c)
    BY ChunkFits
  <2>4. Called(fs, Wrote(fs, f, c, ops + 1))
    BY <1>3, <2>1, <2>3, WroteIs
  <2> QED
    BY <2>2, <2>4
<1>6. CASE XTruncate(f)
  <2>1. f \in DOMAIN fs.mem
    BY <1>6 DEF XTruncate, Exists
  <2>2. PICK n \in Cut : Call(Truncated(fs, f, n))
    BY <1>6 DEF XTruncate
  <2>3. n \in 0 .. MaxLen /\ n % BlockSize = 0
    BY CutLengths
  <2>4. Called(fs, Truncated(fs, f, n))
    BY <2>1, <2>3, TruncatedIs
  <2> QED
    BY <2>2, <2>4
<1>7. CASE XDelete(f)
  <2>1. f \in DOMAIN fs.mem /\ Call(Deleted(fs, f))
    BY <1>7 DEF XDelete, Exists
  <2> QED
    BY <2>1, DeletedIs
<1>8. CASE WriteBytes(f)
  <2> DEFINE s == Opened(fs, f, FALSE)
             t == Truncated(s, f, 0)
             c == [at |-> 0, len |-> BlockSize]
             u == Wrote(t, f, c, ops + 1)
  <2>1. f \in Paged /\ Call(u)
    BY <1>8 DEF WriteBytes
  <2>2. Called(fs, s) /\ f \in DOMAIN s.mem
    BY OpenedIs
  <2> HIDE DEF s
  <2>3. s \in Worker /\ Wakes(s)
    BY <2>2 DEF Called
  <2>4. 0 \in 0 .. MaxLen /\ 0 % BlockSize = 0
    BY CutLengths
  <2>5. Called(s, t) /\ f \in DOMAIN t.mem
    BY <2>2, <2>3, <2>4, TruncatedIs
  <2> HIDE DEF t
  <2>6. t \in Worker /\ Wakes(t)
    BY <2>5 DEF Called
  <2>7. Fits(f, c)
    BY <2>1, FirstBlock
  <2> HIDE DEF c
  <2>8. Called(t, u)
    BY <1>3, <2>5, <2>6, <2>7, WroteIs
  <2> HIDE DEF u
  <2>9. Called(fs, t)
    BY <2>2, <2>3, <2>5, CalledTwice
  <2>10. Called(fs, u)
    BY <2>8, <2>9, CalledTwice
  <2> QED
    BY <2>1, <2>10
<1> QED
  BY <1>1, <1>4, <1>5, <1>6, <1>7, <1>8

-----------------------------------------------------------------------------
\* After a failed write nothing is promised.
Silent(s) == [s EXCEPT !.seen = <<>>, !.taken = 0]

LEMMA SilentIs ==
  ASSUME NEW s \in Worker
  PROVE  LET t == Silent(s) IN
         /\ t \in Worker /\ (Wakes(s) => Wakes(t))
         /\ t.mem = s.mem /\ t.temp = s.temp /\ t.queue = s.queue /\ t.batch = s.batch
         /\ t.running = s.running /\ t.seen = <<>> /\ t.taken = 0
<1> DEFINE t == [s EXCEPT !.seen = <<>>, !.taken = 0]
<1>1. s \in State /\ s.temp \subseteq DOMAIN s.mem /\ (~s.running => s.batch = <<>>)
  BY WorkerIs
<1>2. t = Silent(s)
  BY DEF Silent
<1>3. <<>> \in Seq(Texts) /\ 0 \in Nat /\ 0 <= Len(<<>>)
  OBVIOUS
<1>4. /\ t \in State /\ t.mem = s.mem /\ t.temp = s.temp /\ t.queue = s.queue /\ t.batch = s.batch
      /\ t.running = s.running /\ t.seen = <<>> /\ t.taken = 0
  BY <1>1, <1>3 DEF State
<1> HIDE DEF t
<1>5. t \in Worker /\ (Wakes(s) => Wakes(t))
  BY <1>1, <1>3, <1>4 DEF Worker, Wakes
<1> QED
  BY <1>2, <1>4, <1>5

-----------------------------------------------------------------------------
(* An item runs.                                                           *)

\* K is L without its first item x.
Follows(L, K, x) ==
    /\ Len(L) \in Nat \ {0} /\ Len(K) = Len(L) - 1 /\ L[1] = x
    /\ \A i \in 1 .. Len(K) : K[i] = L[i + 1]
    /\ \A i \in 1 .. Len(L) : L[i] \in Item

LEMMA FollowsPairs ==
  ASSUME NEW L, NEW K, NEW x, Follows(L, K, x), NEW g, g # x.file
  PROVE  Paired(L, K, {<<k + 1, k>> : k \in 1 .. Len(K)}, g)
<1> DEFINE P == {<<k + 1, k>> : k \in 1 .. Len(K)}
<1>1. Len(L) \in Nat \ {0} /\ Len(K) = Len(L) - 1 /\ Len(K) \in Nat
  BY DEF Follows
<1>2. \A p \in P : p[2] \in 1 .. Len(K) /\ p[1] = p[2] + 1 /\ p[1] \in 1 .. Len(L) /\ K[p[2]] = L[p[1]]
  <2>1. ASSUME NEW p \in P
        PROVE p[2] \in 1 .. Len(K) /\ p[1] = p[2] + 1 /\ p[1] \in 1 .. Len(L) /\ K[p[2]] = L[p[1]]
    <3>1. PICK k \in 1 .. Len(K) : p = <<k + 1, k>>
      OBVIOUS
    <3>2. p[1] = k + 1 /\ p[2] = k /\ k + 1 \in 1 .. Len(L)
      BY <1>1, <3>1
    <3>3. K[k] = L[k + 1]
      BY DEF Follows
    <3> QED
      BY <3>2, <3>3
  <2> QED
    BY <2>1
<1>3. P \subseteq (1 .. Len(L)) \X (1 .. Len(K))
  <2>1. \A k \in 1 .. Len(K) : k + 1 \in 1 .. Len(L)
    BY <1>1
  <2> QED
    BY <2>1
<1>4. \A p, q \in P : p[1] < q[1] <=> p[2] < q[2]
  <2> HIDE DEF P
  <2> QED
    BY <1>1, <1>2
<1>5. \A j \in 1 .. Len(K) : <<j + 1, j>> \in P /\ j + 1 \in 1 .. Len(L)
  BY <1>1
<1>6. ASSUME NEW i \in 1 .. Len(L), L[i].file = g PROVE \E j \in 1 .. Len(K) : <<i, j>> \in P
  <2>1. i # 1
    BY <1>6 DEF Follows
  <2>2. i - 1 \in 1 .. Len(K) /\ i - 1 + 1 = i
    BY <1>1, <2>1
  <2>3. <<i, i - 1>> \in P
    BY <2>2
  <2> QED
    BY <2>2, <2>3
<1>7. \A i \in 1 .. Len(L) : Alike(L[i], L[i])
  BY DEF Alike
<1> HIDE DEF P
<1>8. (\A p \in P : L[p[1]].file = g => Alike(L[p[1]], K[p[2]])) /\ (\A p \in P : L[p[1]].file = g <=> K[p[2]].file = g)
  BY <1>2, <1>7
<1>9. Paired(L, K, P, g)
  BY <1>3, <1>4, <1>5, <1>6, <1>8 DEF Paired
<1> QED
  BY <1>9 DEF P

\* x has run: K is the rest of the line, b2 the store after it.
Passes(L, K, x, F, b, b2) ==
    /\ x \in Item /\ Follows(L, K, x)
    /\ Turned(b, b2, x.file, Leaves(x), Ran(b, x, F))

\* The lines of the store after the item are those of the store before it.
LEMMA RunLine ==
  ASSUME NEW L, NEW K, NEW x, NEW F, NEW b, NEW b2, Passes(L, K, x, F, b, b2),
         NEW g, NEW size, NEW ok, NEW strong \in BOOLEAN,
         LineFor(L, F, Extent(b, g), CellsIn(b, g), g, size, ok, strong)
  PROVE  LineFor(K, F, Extent(b2, g), CellsIn(b2, g), g, size, ok, strong)
<1> x \in Item /\ Follows(L, K, x) /\ Turned(b, b2, x.file, Leaves(x), Ran(b, x, F))
  BY DEF Passes
<1>1. Len(L) \in Nat \ {0} /\ Len(K) = Len(L) - 1 /\ Len(K) \in Nat /\ L[1] = x
      /\ (\A i \in 1 .. Len(K) : K[i] = L[i + 1]) /\ \A i \in 1 .. Len(L) : L[i] \in Item
  BY DEF Follows
<1>2. CASE g = x.file
  <2>1. Extent(b2, g) = Leaves(x)
    BY <1>2 DEF Turned
  <2>2. \A c \in Cells : CellsIn(b2, g)[c] = IF Decides(L[1], c) THEN Shown(L[1], F, c) ELSE CellsIn(b, g)[c]
    <3>1. ASSUME NEW c \in Cells
          PROVE  CellsIn(b2, g)[c] = IF Decides(x, c) THEN Shown(x, F, c) ELSE CellsIn(b, g)[c]
      <4>1. CellsIn(b2, g)[c] = CellIn(b2, g, c) /\ CellsIn(b, g)[c] = CellIn(b, g, c)
        BY DEF CellsIn
      <4>2. CellIn(b2, g, c) = Ran(b, x, F)[c]
        BY <1>2 DEF Turned
      <4>3. Ran(b, x, F)[c] = IF Decides(x, c) THEN Shown(x, F, c) ELSE CellIn(b, g, c)
        BY <1>2 DEF Ran
      <4> QED
        BY <4>1, <4>2, <4>3
    <3> QED
      BY <1>1, <3>1
  <2>3. \A c \in Cells : Decides(L[1], c) => Tells(L[1], c)
    BY DecidesTells
  <2>4. LineFor(K, F, Leaves(L[1]), CellsIn(b2, g), g, size, ok, strong)
    <3> DEFINE cel == CellsIn(b, g)
               cel2 == CellsIn(b2, g)
               n == Extent(b, g)
    <3>1. /\ LineFor(L, F, n, cel, g, size, ok, strong)
          /\ \A c \in Cells : cel2[c] = IF Decides(L[1], c) THEN Shown(L[1], F, c) ELSE cel[c]
          /\ L[1].file = g
      BY <1>1, <1>2, <2>2
    <3> HIDE DEF cel, cel2, n
    <3>2. Ahead(L, K, F, cel, cel2)
      BY <1>1, <2>3, <3>1 DEF Ahead
    <3>3. LineFor(K, F, Leaves(L[1]), cel2, g, size, ok, strong)
      BY <3>1, <3>2, LineFirst
    <3> QED
      BY <3>3 DEF cel2
  <2> QED
    BY <1>1, <2>1, <2>4
<1>3. CASE g # x.file
  <2> DEFINE P == {<<k + 1, k>> : k \in 1 .. Len(K)}
  <2>1. Paired(L, K, P, g)
    BY <1>3, FollowsPairs
  <2>2. \A p \in P : K[p[2]] = L[p[1]]
    <3>1. ASSUME NEW p \in P PROVE K[p[2]] = L[p[1]]
      <4>1. PICK k \in 1 .. Len(K) : p = <<k + 1, k>>
        OBVIOUS
      <4>2. p[1] = k + 1 /\ p[2] = k
        BY <4>1
      <4> QED
        BY <1>1, <4>2
    <3> QED
      BY <3>1
  <2> HIDE DEF P
  <2>3. \A i \in 1 .. Len(L) : L[i].op \in Op
    BY <1>1, ItemShape
  <2>4. Extent(b2, g) = Extent(b, g)
    BY <1>3 DEF Turned
  <2>5. CellsIn(b2, g) = CellsIn(b, g)
    <3>1. \A c \in Cells : CellIn(b2, g, c) = CellIn(b, g, c)
      BY <1>3 DEF Turned
    <3> QED
      BY <3>1 DEF CellsIn
  <2>6. \A p \in P, c \in Cells :
           L[p[1]].file = g /\ (strong \/ Decides(L[p[1]], c))
           => Shown(K[p[2]], F, c) \in {Shown(L[p[1]], F, c)} \cup ok[c]
    BY <2>2
  <2>7. \A c \in Cells : ok[c] \subseteq ok[c]
    OBVIOUS
  <2>8. LineFor(K, F, Extent(b, g), CellsIn(b, g), g, size, ok, strong)
    BY <1>1, <2>1, <2>3, <2>6, <2>7, PairedLine
  <2> QED
    BY <2>4, <2>5, <2>8
<1> QED
  BY <1>2, <1>3

\* The line is right about the file g of the store b: in all that its items tell, or
\* in what they decide only.
Fully(L, F, b, g, size, ok) == LineFor(L, F, Extent(b, g), CellsIn(b, g), g, size, ok, TRUE)
Partly(L, F, b, g, size, ok) == LineFor(L, F, Extent(b, g), CellsIn(b, g), g, size, ok, FALSE)

LEMMA RunLines ==
  ASSUME NEW L, NEW K, NEW x, NEW F, NEW b, NEW b2, Passes(L, K, x, F, b, b2), NEW g, NEW size, NEW ok
  PROVE  /\ Fully(L, F, b, g, size, ok) => Fully(K, F, b2, g, size, ok)
         /\ Partly(L, F, b, g, size, ok) => Partly(K, F, b2, g, size, ok)
<1> DEFINE Keeps(strong) == LineFor(L, F, Extent(b, g), CellsIn(b, g), g, size, ok, strong)
                              => LineFor(K, F, Extent(b2, g), CellsIn(b2, g), g, size, ok, strong)
<1>1. ASSUME NEW strong \in BOOLEAN PROVE Keeps(strong)
  BY RunLine
<1> HIDE DEF Keeps
<1>2. Keeps(TRUE) /\ Keeps(FALSE)
  BY <1>1
<1> QED
  BY <1>2 DEF Keeps, Fully, Partly

\* The first item finds what it needs.
LEMMA FirstRuns ==
  ASSUME NEW L, NEW x, Len(L) \in Nat \ {0}, L[1] = x, NEW F, NEW n, NEW cel, NEW size, NEW ok, NEW strong,
         LineFor(L, F, n, cel, x.file, size, ok, strong)
  PROVE  Runs(x, n)
<1>1. Runs(L[1], After(L, n, x.file, 1 - 1))
  <2>1. 1 \in 1 .. Len(L)
    OBVIOUS
  <2> QED
    BY <2>1 DEF LineFor
<1>2. NoItem(L, x.file, 0) /\ 1 - 1 = 0
  BY DEF NoItem
<1>3. After(L, n, x.file, 0) = n
  BY <1>2, AfterNone
<1> QED
  BY <1>1, <1>2, <1>3

LEMMA TailIs ==
  ASSUME NEW q \in Seq(Item), q # <<>>
  PROVE  Tail(q) \in Seq(Item) /\ Len(q) \in Nat \ {0} /\ Follows(q, Tail(q), q[1])
<1>1. Tail(q) \in Seq(Item) /\ Len(q) \in Nat \ {0} /\ Len(Tail(q)) = Len(q) - 1
      /\ \A i \in 1 .. Len(Tail(q)) : Tail(q)[i] = q[i + 1]
  OBVIOUS
<1>2. \A i \in 1 .. Len(q) : q[i] \in Item
  OBVIOUS
<1> QED
  BY <1>1, <1>2 DEF Follows

LEMMA FollowsBehind ==
  ASSUME NEW B \in Seq(Item), NEW C \in Seq(Item), NEW x, Follows(B, C, x), NEW q \in Seq(Item)
  PROVE  Follows(B \o q, C \o q, x)
<1>1. /\ Len(B) \in Nat \ {0} /\ Len(C) = Len(B) - 1 /\ B[1] = x /\ Len(C) \in Nat /\ Len(q) \in Nat
      /\ \A i \in 1 .. Len(C) : C[i] = B[i + 1]
  BY DEF Follows
<1>2. /\ B \o q \in Seq(Item) /\ Len(B \o q) = Len(B) + Len(q)
      /\ \A i \in 1 .. Len(B) : (B \o q)[i] = B[i]
      /\ \A i \in 1 .. Len(q) : (B \o q)[Len(B) + i] = q[i]
  BY Behind
<1>3. /\ C \o q \in Seq(Item) /\ Len(C \o q) = Len(C) + Len(q)
      /\ \A i \in 1 .. Len(C) : (C \o q)[i] = C[i]
      /\ \A i \in 1 .. Len(q) : (C \o q)[Len(C) + i] = q[i]
  BY Behind
<1> DEFINE L == B \o q
           K == C \o q
<1> HIDE DEF L, K
<1>4. ASSUME NEW i \in 1 .. Len(K) PROVE K[i] = L[i + 1]
  <2>1. CASE i <= Len(C)
    <3>1. i \in 1 .. Len(C) /\ i + 1 \in 1 .. Len(B)
      BY <1>1, <2>1
    <3> QED
      BY <1>1, <1>2, <1>3, <3>1 DEF L, K
  <2>2. CASE i > Len(C)
    <3>0. i \in 1 .. Len(C) + Len(q)
      BY <1>3 DEF K
    <3>1. PICK j \in 1 .. Len(q) : i = Len(C) + j
      BY <1>1, <2>2, <3>0, PlaceIn
    <3>2. i + 1 = Len(B) + j
      BY <1>1, <3>1
    <3>3. (C \o q)[Len(C) + j] = q[j] /\ (B \o q)[Len(B) + j] = q[j]
      BY <1>2, <1>3
    <3> QED
      BY <3>1, <3>2, <3>3 DEF L, K
  <2> QED
    BY <1>1, <2>1, <2>2
<1>5. L[1] = x /\ Len(L) \in Nat \ {0} /\ Len(K) = Len(L) - 1
  BY <1>1, <1>2, <1>3 DEF L, K
<1>6. L \in Seq(Item)
  BY <1>2 DEF L
<1>7. Follows(L, K, x)
  BY <1>4, <1>5, <1>6 DEF Follows
<1> QED
  BY <1>7 DEF L, K

\* A view that is kept at the front does not matter to those behind.
LEMMA RestartedBehind ==
  ASSUME NEW T \in Seq(Item), NEW D \in Seq(Item), NEW F, Restarted(T, D, F), NEW q \in Seq(Item)
  PROVE  Restarted(T \o q, D \o q, F)
<1>1. Len(T) \in Nat /\ Len(D) = Len(T) /\ Len(q) \in Nat
      /\ \A i \in 1 .. Len(T) : /\ T[i] \in Item /\ D[i] \in Item /\ Alike(T[i], D[i])
                                /\ \A c \in Cells : Shown(D[i], F, c) = Shown(T[i], F, c)
  BY DEF Restarted
<1>2. /\ Len(T \o q) = Len(T) + Len(q)
      /\ \A i \in 1 .. Len(T) : (T \o q)[i] = T[i]
      /\ \A i \in 1 .. Len(q) : (T \o q)[Len(T) + i] = q[i]
  BY Behind
<1>3. /\ Len(D \o q) = Len(D) + Len(q)
      /\ \A i \in 1 .. Len(D) : (D \o q)[i] = D[i]
      /\ \A i \in 1 .. Len(q) : (D \o q)[Len(D) + i] = q[i]
  BY Behind
<1> DEFINE L == T \o q
           K == D \o q
<1> HIDE DEF L, K
<1>4. ASSUME NEW i \in 1 .. Len(L)
      PROVE  /\ L[i] \in Item /\ K[i] \in Item /\ Alike(L[i], K[i])
             /\ \A c \in Cells : Shown(K[i], F, c) = Shown(L[i], F, c)
  <2>1. CASE i <= Len(T)
    <3>1. i \in 1 .. Len(T) /\ i \in 1 .. Len(D)
      BY <1>1, <2>1
    <3>2. L[i] = T[i] /\ K[i] = D[i]
      BY <1>2, <1>3, <3>1 DEF L, K
    <3> QED
      BY <1>1, <3>1, <3>2
  <2>2. CASE i > Len(T)
    <3>0. i \in 1 .. Len(T) + Len(q)
      BY <1>2 DEF L
    <3>1. PICK j \in 1 .. Len(q) : i = Len(T) + j
      BY <1>1, <2>2, <3>0, PlaceIn
    <3>2. L[i] = q[j] /\ K[i] = q[j] /\ q[j] \in Item
      BY <1>1, <1>2, <1>3, <3>1 DEF L, K
    <3> QED
      BY <3>2 DEF Alike
  <2> QED
    BY <1>1, <2>1, <2>2
<1>5. Len(L) \in Nat /\ Len(K) = Len(L)
  BY <1>1, <1>2, <1>3 DEF L, K
<1>6. Restarted(L, K, F)
  BY <1>4, <1>5 DEF Restarted
<1> QED
  BY <1>6 DEF L, K

-----------------------------------------------------------------------------
(* The inductive invariant.                                                *)

Advanced(s) == [s EXCEPT !.batch = Started(s.mem, Tail(@))]

LEMMA AdvancedIs ==
  ASSUME NEW s \in Worker, s.batch # <<>>
  PROVE  LET t == Advanced(s) IN
         /\ t \in Worker /\ (Wakes(s) => Wakes(t))
         /\ t.mem = s.mem /\ t.temp = s.temp /\ t.queue = s.queue
         /\ t.batch = Started(s.mem, Tail(s.batch))
         /\ t.running = s.running /\ t.seen = s.seen /\ t.taken = s.taken /\ s.running
<1> DEFINE e == Started(s.mem, Tail(s.batch))
           t == [s EXCEPT !.batch = e]
<1>1. s \in State /\ s.temp \subseteq DOMAIN s.mem /\ (~s.running => s.batch = <<>>) /\ s.batch \in Seq(Item)
      /\ s.taken <= Len(s.seen) /\ s.running \in BOOLEAN
  BY WorkerIs
<1>2. e \in Seq(Item)
  <2>1. Tail(s.batch) \in Seq(Item)
    BY <1>1, TailIs
  <2> QED
    BY <2>1, StartedTyped
<1>3. t = Advanced(s)
  BY DEF Advanced
<1> HIDE DEF e
<1>4. /\ t \in State /\ t.mem = s.mem /\ t.temp = s.temp /\ t.queue = s.queue /\ t.batch = e
      /\ t.running = s.running /\ t.seen = s.seen /\ t.taken = s.taken
  BY <1>1, <1>2 DEF State
<1> HIDE DEF t
<1>5. s.running
  BY <1>1
<1>6. t \in Worker /\ (Wakes(s) => Wakes(t))
  BY <1>1, <1>4, <1>5 DEF Worker, Wakes
<1> QED
  BY <1>3, <1>4, <1>5, <1>6 DEF e

\* What the files may be depends on the moments only.
LEMMA CanSame ==
  ASSUME NEW s, NEW t, t.seen = s.seen, t.taken = s.taken, NEW old
  PROVE  /\ \A j : Moment(t, old, j) = Moment(s, old, j)
         /\ \A f : Can(t, old, f) = Can(s, old, f)
<1>1. \A j : Moment(t, old, j) = Moment(s, old, j)
  BY DEF Moment
<1>2. ASSUME NEW f PROVE Can(t, old, f) = Can(s, old, f)
  <2>1. ASSUME NEW c \in Cells PROVE Can(t, old, f)[c] = Can(s, old, f)[c]
    <3>1. CASE f \in Paged
      BY <1>1, <3>1 DEF Can
    <3>2. CASE f \notin Paged
      <4>1. Can(t, old, f)[c] = {Data(Moment(t, old, j), f, c) : j \in s.taken .. Len(s.seen)}
        BY <3>2 DEF Can
      <4>2. Can(s, old, f)[c] = {Data(Moment(s, old, j), f, c) : j \in s.taken .. Len(s.seen)}
        BY <3>2 DEF Can
      <4> QED
        BY <1>1, <4>1, <4>2
    <3> QED
      BY <3>1, <3>2
  <2>2. Can(t, old, f) = [c \in Cells |-> Can(t, old, f)[c]] /\ Can(s, old, f) = [c \in Cells |-> Can(s, old, f)[c]]
    BY DEF Can
  <2> QED
    BY <2>1, <2>2
<1> QED
  BY <1>1, <1>2

\* An item has done to the store what the line says of it.
LEMMA AdvancedGood ==
  ASSUME NEW s \in Worker, s.batch # <<>>, NEW b, NEW old, Good(s, b, old), NEW b2,
         NEW x, x = s.batch[1], Turned(b, b2, x.file, Leaves(x), Ran(b, x, Files(s)))
  PROVE  Good(Advanced(s), b2, old)
<1> DEFINE t == Advanced(s)
           F == Files(s)
           T == Tail(s.batch)
           D == Started(s.mem, T)
<1>1. /\ t \in Worker /\ t.mem = s.mem /\ t.temp = s.temp /\ t.queue = s.queue /\ t.batch = D
      /\ t.running = s.running /\ t.seen = s.seen /\ t.taken = s.taken
  BY AdvancedIs
<1>2. Files(t) = F
  BY <1>1, FilesSame DEF SameFiles
<1>3. (\A j : Moment(t, old, j) = Moment(s, old, j)) /\ \A f : Can(t, old, f) = Can(s, old, f)
  BY <1>1, CanSame
<1>4. s.batch \in Seq(Item) /\ s.queue \in Seq(Item)
  BY WorkerIs
<1>5. T \in Seq(Item) /\ Follows(s.batch, T, x) /\ Len(s.batch) \in Nat \ {0}
  BY <1>4, TailIs
<1>6. x \in Item
  BY <1>4, <1>5
<1>7. LiveIn(s.batch, F) /\ LiveIn(s.queue, F)
  BY DEF Good, Looks
<1>8. LiveIn(T, F)
  <2>1. ASSUME NEW i \in 1 .. Len(T), Live(T[i]) PROVE T[i].file \in DOMAIN F
    <3>1. i + 1 \in 1 .. Len(s.batch) /\ T[i] = s.batch[i + 1]
      BY <1>5 DEF Follows
    <3> HIDE DEF T, F
    <3> QED
      BY <1>7, <2>1, <3>1 DEF LiveIn
  <2> QED
    BY <2>1 DEF LiveIn
<1>80. Turned(b, b2, x.file, Leaves(x), Ran(b, x, F))
  OBVIOUS
<1> HIDE DEF t, T, F
<1>9. D \in Seq(Item) /\ Restarted(T, D, F) /\ LiveIn(D, F) /\ (D # <<>> => ~Live(D[1]))
  BY <1>5, <1>8, StartedIs DEF F
<1> HIDE DEF D
<1>10. Looks(t)
  BY <1>1, <1>2, <1>7, <1>9 DEF Looks
<1>11. Told(t.batch \o t.queue, F, b2)
  <2> DEFINE L == s.batch \o s.queue
             L2 == T \o s.queue
             K == D \o s.queue
  <2>1. Follows(L, L2, x) /\ Restarted(L2, K, F)
    BY <1>4, <1>5, <1>9, FollowsBehind, RestartedBehind
  <2>2. Told(L, F, b)
    BY DEF Good, F
  <2> HIDE DEF L, L2, K
  <2>6. Passes(L, L2, x, F, b, b2)
    BY <1>6, <1>80, <2>1 DEF Passes
  <2>3. ASSUME NEW g \in File
        PROVE  LineFor(L2, F, Extent(b2, g), CellsIn(b2, g), g, Size(F, g), Has(F, g), TRUE)
    <3>1. LineFor(L, F, Extent(b, g), CellsIn(b, g), g, Size(F, g), Has(F, g), TRUE)
      BY <2>2 DEF Told
    <3>2. Fully(L, F, b, g, Size(F, g), Has(F, g))
      BY <3>1 DEF Fully
    <3>3. Fully(L2, F, b2, g, Size(F, g), Has(F, g))
      BY <2>6, <3>2, RunLines
    <3> QED
      BY <3>3 DEF Fully
  <2>4. Told(L2, F, b2)
    BY <2>3 DEF Told
  <2>5. Told(K, F, b2)
    BY <2>1, <2>4, RestartedTold
  <2> QED
    BY <1>1, <2>5 DEF K
<1>15. Passes(s.batch, T, x, F, b, b2)
  BY <1>5, <1>6, <1>80 DEF Passes
<1>12. ASSUME t.running PROVE Stores(t, b2, old)
  <2>1. ASSUME NEW g \in File
        PROVE  LineFor(D, F, Extent(b2, g), CellsIn(b2, g), g, Size(Moment(s, old, s.taken), g), Can(s, old, g), FALSE)
    <3> DEFINE size == Size(Moment(s, old, s.taken), g)
               ok == Can(s, old, g)
    <3>1. LineFor(s.batch, F, Extent(b, g), CellsIn(b, g), g, size, ok, FALSE)
      BY <1>1, <1>12 DEF Good, Stores, F
    <3> HIDE DEF size, ok
    <3>2. LineFor(T, F, Extent(b2, g), CellsIn(b2, g), g, size, ok, FALSE)
      <4>1. Partly(s.batch, F, b, g, size, ok)
        BY <3>1 DEF Partly
      <4>2. Partly(T, F, b2, g, size, ok)
        BY <1>15, <4>1, RunLines
      <4> QED
        BY <4>2 DEF Partly
    <3>3. LineFor(D, F, Extent(b2, g), CellsIn(b2, g), g, size, ok, FALSE)
      BY <1>9, <3>2, LineSame
    <3> QED
      BY <3>3 DEF size, ok
  <2> QED
    BY <1>1, <1>2, <1>3, <2>1 DEF Stores
<1>13. F = Moment(t, old, Len(t.seen))
  BY <1>1, <1>3 DEF Good, F
<1>14. Good(t, b2, old)
  BY <1>2, <1>10, <1>11, <1>12, <1>13 DEF Good
<1> QED
  BY <1>14 DEF t

-----------------------------------------------------------------------------
\* The invariant.
Sound ==
    /\ Good(fs, work, OnDisk(store))
    /\ Owned(ids, work) /\ Zero(work) /\ Zero(store)

IInv ==
    /\ fs \in Worker /\ Wakes(fs) /\ DOMAIN ids \subseteq File
    /\ work \in Db /\ store \in Db /\ ops \in Nat /\ faults \in Nat /\ sound \in BOOLEAN
    /\ sound => Sound

LEMMA Positive ==
  ASSUME NEW m \in Nat \ {0}, NEW n \in Nat
  PROVE  m + n \in Nat \ {0}
OBVIOUS

\* The item that runs finds the file as it needs it.
LEMMA ItemReady ==
  ASSUME IInv, fs.batch # <<>>
  PROVE  /\ item \in Item
         /\ sound => Runs(item, Extent(work, item.file)) /\ ~Live(item)
<1>1. fs.batch \in Seq(Item) /\ fs.queue \in Seq(Item)
  BY WorkerIs DEF IInv
<1>2. Len(fs.batch) \in Nat \ {0}
  BY <1>1
<1>3. item \in Item /\ item = fs.batch[1]
  BY <1>1, <1>2 DEF item
<1>4. ASSUME sound PROVE Runs(item, Extent(work, item.file)) /\ ~Live(item)
  <2> DEFINE L == fs.batch \o fs.queue
             F == Files(fs)
  <2>1. Good(fs, work, OnDisk(store))
    BY <1>4 DEF IInv, Sound
  <2>2. Told(L, F, work) /\ ~Live(fs.batch[1])
    BY <2>1 DEF Good, Looks
  <2>3. item.file \in File
    BY <1>3, ItemShape
  <2>4. Len(L) \in Nat \ {0} /\ L[1] = item
    <3>1. Len(L) = Len(fs.batch) + Len(fs.queue) /\ \A i \in 1 .. Len(fs.batch) : L[i] = fs.batch[i]
      BY <1>1, Behind
    <3>2. Len(fs.queue) \in Nat /\ 1 \in 1 .. Len(fs.batch)
      BY <1>1, <1>2
    <3> HIDE DEF L
    <3>3. L[1] = fs.batch[1]
      BY <3>1, <3>2
    <3>4. Len(fs.batch) + Len(fs.queue) \in Nat \ {0}
      BY <1>2, <3>2, Positive
    <3>5. Len(L) \in Nat \ {0}
      BY <3>1, <3>4
    <3> QED
      BY <1>3, <3>3, <3>5
  <2> HIDE DEF L, F
  <2> DEFINE f == item.file
  <2>5. LineFor(L, F, Extent(work, f), CellsIn(work, f), f, Size(F, f), Has(F, f), TRUE)
    BY <2>2, <2>3 DEF Told
  <2>6. Runs(item, Extent(work, f))
    BY <2>4, <2>5, FirstRuns
  <2> QED
    BY <1>3, <2>2, <2>6
<1> QED
  BY <1>3, <1>4

LEMMA RunItemStep ==
  ASSUME IInv, RunItem
  PROVE  IInv' /\ fs'.seen = fs.seen /\ store' = store /\ sound' = sound /\ faults' = faults
<1>1. fs \in Worker /\ Wakes(fs) /\ DOMAIN ids \subseteq File /\ work \in Db /\ store \in Db
      /\ ops \in Nat /\ faults \in Nat /\ sound \in BOOLEAN
  BY DEF IInv
<1>2. /\ fs.batch # <<>>
      /\ RunCreate \/ RunDelete \/ RunChange
      /\ fs' = Advanced(fs)
      /\ store' = store /\ sound' = sound /\ ops' = ops /\ faults' = faults
  BY DEF RunItem, ItemDone, Advanced, bounds
<1>3. item \in Item
  BY <1>2, ItemReady
<1>4. work' \in Db /\ DOMAIN ids' \subseteq File
  BY <1>1, <1>2, <1>3, RunTyped
<1>5. Advanced(fs) \in Worker /\ Wakes(Advanced(fs)) /\ Advanced(fs).seen = fs.seen
  BY <1>1, <1>2, AdvancedIs
<1>6. ASSUME sound
      PROVE  Good(Advanced(fs), work', OnDisk(store)) /\ Owned(ids', work') /\ Zero(work') /\ Zero(store)
  <2>1. Good(fs, work, OnDisk(store)) /\ Owned(ids, work) /\ Zero(work) /\ Zero(store)
    BY <1>6 DEF IInv, Sound
  <2>2. Runs(item, Extent(work, item.file)) /\ (item.op = "write" => ~item.base.live)
    BY <1>2, <1>6, ItemReady DEF Live
  <2> DEFINE F == Files(fs)
  <2> HIDE DEF F
  <2>3. /\ Zero(work') /\ Owned(ids', work')
        /\ Turned(work, work', item.file, Leaves(item), Ran(work, item, F))
    BY <1>1, <1>2, <1>3, <2>1, <2>2, RunSound
  <2>4. item = fs.batch[1]
    BY DEF item
  <2>5. Good(Advanced(fs), work', OnDisk(store))
    BY <1>1, <1>2, <2>1, <2>3, <2>4, AdvancedGood DEF F
  <2> QED
    BY <2>1, <2>3, <2>5
<1>7. IInv'
  BY <1>1, <1>2, <1>4, <1>5, <1>6 DEF IInv, Sound
<1> QED
  BY <1>2, <1>5, <1>7

-----------------------------------------------------------------------------
\* The transaction is over.
Settled(s) == [s EXCEPT !.seen = SubSeq(@, s.taken + 1, Len(@)), !.running = FALSE, !.batch = <<>>, !.taken = 0]
\* It has failed.
Failed(s) == [s EXCEPT !.seen = <<>>, !.running = FALSE, !.batch = <<>>, !.taken = 0]

LEMMA SettledIs ==
  ASSUME NEW s \in Worker
  PROVE  LET t == Settled(s) IN
         /\ t \in Worker /\ t.mem = s.mem /\ t.temp = s.temp /\ t.queue = s.queue
         /\ t.batch = <<>> /\ ~t.running /\ t.taken = 0
         /\ t.seen = SubSeq(s.seen, s.taken + 1, Len(s.seen))
         /\ Len(t.seen) = Len(s.seen) - s.taken
         /\ \A i \in 1 .. Len(t.seen) : t.seen[i] = s.seen[s.taken + i]
<1> DEFINE e == SubSeq(s.seen, s.taken + 1, Len(s.seen))
           t == [s EXCEPT !.seen = e, !.running = FALSE, !.batch = <<>>, !.taken = 0]
<1>1. s \in State /\ s.temp \subseteq DOMAIN s.mem /\ s.seen \in Seq(Texts) /\ s.taken \in Nat
      /\ s.taken <= Len(s.seen) /\ Len(s.seen) \in Nat
  BY WorkerIs
<1>20. PICK m \in 1 .. Len(s.seen) + 1 : m = s.taken + 1
  BY <1>1
<1>2. PICK n \in m - 1 .. Len(s.seen) : n = Len(s.seen)
  BY <1>1, <1>20
<1>3. e = SubSeq(s.seen, m, n)
  BY <1>2, <1>20
<1> HIDE DEF e
<1>4. e \in Seq(Texts) /\ Len(e) = n - m + 1 /\ \A i \in 1 .. n - m + 1 : e[i] = s.seen[m + i - 1]
  BY <1>1, <1>3, SubSeqIs
<1>5. Len(e) = Len(s.seen) - s.taken /\ \A i \in 1 .. Len(e) : e[i] = s.seen[s.taken + i]
  <2>1. n - m + 1 = Len(s.seen) - s.taken
    BY <1>1, <1>2, <1>20
  <2>2. ASSUME NEW i \in 1 .. Len(e) PROVE e[i] = s.seen[s.taken + i]
    <3>1. i \in 1 .. n - m + 1 /\ m + i - 1 = s.taken + i
      BY <1>1, <1>2, <1>20, <1>4
    <3> QED
      BY <1>4, <3>1
  <2> QED
    BY <1>4, <2>1, <2>2
<1>6. t = Settled(s)
  BY DEF Settled, e
<1>7. <<>> \in Seq(Item) /\ FALSE \in BOOLEAN /\ 0 \in Nat /\ e \in Seq(Texts) /\ Len(e) \in Nat
  BY <1>1, <1>4, <1>5
<1>8. /\ t \in State /\ t.mem = s.mem /\ t.temp = s.temp /\ t.queue = s.queue /\ t.batch = <<>>
      /\ t.running = FALSE /\ t.seen = e /\ t.taken = 0
  BY <1>1, <1>7 DEF State
<1> HIDE DEF t
<1>9. t \in Worker
  BY <1>1, <1>7, <1>8 DEF Worker
<1> QED
  BY <1>5, <1>6, <1>8, <1>9 DEF e

LEMMA FailedIs ==
  ASSUME NEW s \in Worker
  PROVE  Failed(s) \in Worker
<1> DEFINE t == [s EXCEPT !.seen = <<>>, !.running = FALSE, !.batch = <<>>, !.taken = 0]
<1>1. s \in State /\ s.temp \subseteq DOMAIN s.mem
  BY WorkerIs
<1>2. <<>> \in Seq(Item) /\ FALSE \in BOOLEAN /\ 0 \in Nat /\ <<>> \in Seq(Texts) /\ 0 <= Len(<<>>)
  OBVIOUS
<1>3. t = Failed(s)
  BY DEF Failed
<1>4. /\ t \in State /\ t.mem = s.mem /\ t.temp = s.temp /\ t.batch = <<>>
      /\ t.running = FALSE /\ t.seen = <<>> /\ t.taken = 0
  BY <1>1, <1>2 DEF State
<1> HIDE DEF t
<1>5. t \in Worker
  BY <1>1, <1>2, <1>4 DEF Worker
<1> QED
  BY <1>3, <1>5

\* Files that have the same lengths and the same values.
LEMMA TextsSame ==
  ASSUME NEW F \in Texts, NEW G \in Texts,
         \A f \in File : Size(F, f) = Size(G, f),
         \A f \in File : \A c \in Cells : Data(F, f, c) = Data(G, f, c)
  PROVE  F = G
<1>1. ASSUME NEW H \in Texts
      PROVE  /\ H = [f \in DOMAIN H |-> H[f]] /\ DOMAIN H \subseteq File
             /\ \A f \in DOMAIN H : H[f] \in Seq(Nat) /\ Len(H[f]) \in Nat /\ Len(H[f]) <= MaxLen
  BY DEF Texts, Text
<1>2. ASSUME NEW f \in File PROVE f \in DOMAIN F <=> f \in DOMAIN G
  <2>1. f \in DOMAIN F <=> Size(F, f) >= 0
    BY <1>1 DEF Size
  <2>2. f \in DOMAIN G <=> Size(G, f) >= 0
    BY <1>1 DEF Size
  <2> QED
    BY <2>1, <2>2
<1>3. DOMAIN F = DOMAIN G
  BY <1>1, <1>2
<1>4. ASSUME NEW f \in DOMAIN F PROVE F[f] = G[f]
  <2>1. f \in File /\ f \in DOMAIN G /\ F[f] \in Seq(Nat) /\ G[f] \in Seq(Nat) /\ Len(F[f]) \in Nat /\ Len(F[f]) <= MaxLen
    BY <1>1, <1>3
  <2>2. Len(F[f]) = Len(G[f])
    BY <2>1 DEF Size
  <2>3. ASSUME NEW i \in 1 .. Len(F[f]) PROVE F[f][i] = G[f][i]
    <3>1. PICK c \in Cells : c = i - 1 /\ c + 1 = i /\ c < Len(F[f])
      <4>1. i - 1 \in Cells /\ i - 1 + 1 = i /\ i - 1 < Len(F[f])
        BY <2>1, Constants DEF Cells
      <4> QED
        BY <4>1
    <3>2. Data(F, f, c) = F[f][i] /\ Data(G, f, c) = G[f][i]
      BY <2>1, <2>2, <3>1 DEF Data
    <3> QED
      BY <2>1, <3>2
  <2> DEFINE d == F[f]
             e == G[f]
  <2>4. d \in Seq(Nat) /\ e \in Seq(Nat) /\ Len(d) = Len(e) /\ \A i \in 1 .. Len(d) : d[i] = e[i]
    BY <2>1, <2>2, <2>3
  <2> HIDE DEF d, e
  <2>5. d = e
    BY <2>4
  <2> QED
    BY <2>5 DEF d, e
<1> QED
  BY <1>1, <1>3, <1>4

LEMMA OverIs ==
  ASSUME NEW s \in Worker
  PROVE  /\ Over([s EXCEPT !.seen = SubSeq(@, s.taken + 1, Len(@))]) = Drained(Settled(s))
         /\ Over([s EXCEPT !.seen = <<>>]) = Drained(Failed(s))
<1>1. DOMAIN s = {"mem", "temp", "queue", "batch", "running", "seen", "taken"}
  <2>1. s = [mem |-> s.mem, temp |-> s.temp, queue |-> s.queue, batch |-> s.batch,
             running |-> s.running, seen |-> s.seen, taken |-> s.taken]
    BY WorkerIs
  <2> QED
    BY <2>1
<1>2. ASSUME NEW e
      PROVE  [[s EXCEPT !.seen = e] EXCEPT !.running = FALSE, !.batch = <<>>, !.taken = 0]
               = [s EXCEPT !.seen = e, !.running = FALSE, !.batch = <<>>, !.taken = 0]
  BY <1>1
<1>3. Over([s EXCEPT !.seen = <<>>]) = Drained(Failed(s))
  BY <1>2 DEF Over, Failed
<1>4. Over([s EXCEPT !.seen = SubSeq(@, s.taken + 1, Len(@))]) = Drained(Settled(s))
  <2> DEFINE e == SubSeq(s.seen, s.taken + 1, Len(s.seen))
  <2>1. [[s EXCEPT !.seen = e] EXCEPT !.running = FALSE, !.batch = <<>>, !.taken = 0]
               = [s EXCEPT !.seen = e, !.running = FALSE, !.batch = <<>>, !.taken = 0]
    BY <1>2
  <2> QED
    BY <2>1 DEF Over, Settled
<1> QED
  BY <1>3, <1>4

\* With nothing left to run the store is what the transaction was to make of it.
LEMMA StoredIs ==
  ASSUME NEW s, s.batch = <<>>, NEW b \in Db, Zero(b), NEW old, Stores(s, b, old), NEW f \in File
  PROVE  /\ Size(OnDisk(b), f) = Size(Moment(s, old, s.taken), f)
         /\ \A c \in Cells : Data(OnDisk(b), f, c) \in Can(s, old, f)[c]
<1> DEFINE n == Extent(b, f)
           size == Size(Moment(s, old, s.taken), f)
           ok == Can(s, old, f)
<1>1. LineFor(<<>>, Files(s), n, CellsIn(b, f), f, size, ok, FALSE)
  BY DEF Stores
<1>2. Size(OnDisk(b), f) = n /\ \A c \in Cells : Data(OnDisk(b), f, c) = CellIn(b, f, c)
  BY OnDiskIs
<1> HIDE DEF n, size, ok
<1>3. NoItem(<<>>, f, 0) /\ Len(<<>>) = 0
  BY DEF NoItem
<1>4. After(<<>>, n, f, 0) = n
  BY <1>3, AfterNone
<1>5. size = n
  BY <1>1, <1>3, <1>4 DEF LineFor
<1>6. ASSUME NEW c \in Cells PROVE Data(OnDisk(b), f, c) \in ok[c]
  <2>1. ~Later(<<>>, 0, f, c)
    BY <1>3 DEF Later
  <2>2. CellsIn(b, f)[c] \in ok[c]
    BY <1>1, <2>1 DEF LineFor
  <2> QED
    BY <1>2, <2>2 DEF CellsIn
<1> QED
  BY <1>2, <1>5, <1>6 DEF size, ok

LEMMA DiskTexts ==
  ASSUME NEW b \in Db
  PROVE  OnDisk(b) \in Texts
<1>1. OnDisk(b) \in [Names(b) -> Text] /\ Names(b) \in SUBSET File
  BY OnDiskIs
<1> QED
  BY <1>1 DEF Texts

LEMMA MomentTexts ==
  ASSUME NEW s \in Worker, NEW old \in Texts, NEW j \in 0 .. Len(s.seen)
  PROVE  Moment(s, old, j) \in Texts
<1>1. s.seen \in Seq(Texts)
  BY WorkerIs
<1>2. CASE j = 0
  BY <1>2 DEF Moment
<1>3. CASE j # 0
  <2>1. j \in 1 .. Len(s.seen)
    BY <1>1, <1>3
  <2> QED
    BY <1>1, <1>3, <2>1 DEF Moment
<1> QED
  BY <1>2, <1>3

\* What is on the disk may be of a later moment; of the last one if there is none.
LEMMA LastMoment ==
  ASSUME NEW s \in Worker, s.batch = <<>>, s.taken = Len(s.seen), NEW b \in Db, Zero(b),
         NEW old \in Texts, Stores(s, b, old)
  PROVE  OnDisk(b) = Moment(s, old, Len(s.seen))
<1> DEFINE m == Moment(s, old, s.taken)
           d == OnDisk(b)
<1>1. d \in Texts
  BY DiskTexts
<1>2. s.taken \in 0 .. Len(s.seen) /\ s.taken .. Len(s.seen) = {s.taken}
  BY WorkerIs
<1>3. m \in Texts
  BY <1>2, MomentTexts
<1>4. ASSUME NEW f \in File PROVE Size(d, f) = Size(m, f) /\ \A c \in Cells : Data(d, f, c) = Data(m, f, c)
  <2>1. Size(d, f) = Size(m, f) /\ \A c \in Cells : d \in Texts /\ Data(d, f, c) \in Can(s, old, f)[c]
    BY <1>1, StoredIs
  <2>2. ASSUME NEW c \in Cells PROVE Data(d, f, c) = Data(m, f, c)
    <3>1. Data(d, f, c) \in Can(s, old, f)[c]
      BY <2>1
    <3>2. CASE f \in Paged
      BY <3>1, <3>2 DEF Can
    <3>3. CASE f \notin Paged
      <4>1. Can(s, old, f)[c] = {Data(Moment(s, old, j), f, c) : j \in s.taken .. Len(s.seen)}
        BY <3>3 DEF Can
      <4>2. Can(s, old, f)[c] = {Data(m, f, c)}
        BY <1>2, <4>1
      <4> QED
        BY <3>1, <4>2
    <3> QED
      BY <3>2, <3>3
  <2> QED
    BY <2>1, <2>2
<1> HIDE DEF m, d
<1>5. d = m
  BY <1>1, <1>3, <1>4, TextsSame
<1> QED
  BY <1>5 DEF m, d

LEMMA SettledGood ==
  ASSUME NEW s \in Worker, s.running, s.batch = <<>>, NEW b \in Db, Zero(b),
         NEW old \in Texts, Good(s, b, old)
  PROVE  Good(Settled(s), b, OnDisk(b))
<1> DEFINE t == Settled(s)
           F == Files(s)
<1>1. /\ t \in Worker /\ t.mem = s.mem /\ t.temp = s.temp /\ t.queue = s.queue
      /\ t.batch = <<>> /\ ~t.running /\ t.taken = 0
      /\ Len(t.seen) = Len(s.seen) - s.taken
      /\ \A i \in 1 .. Len(t.seen) : t.seen[i] = s.seen[s.taken + i]
  BY SettledIs
<1> HIDE DEF t
<1>2. Files(t) = F
  BY <1>1 DEF Files
<1>3. F = Moment(s, old, Len(s.seen)) /\ Looks(s) /\ Told(s.batch \o s.queue, F, b) /\ Stores(s, b, old)
  BY DEF Good
<1>4. s.taken \in Nat /\ Len(s.seen) \in Nat /\ s.taken <= Len(s.seen)
  BY WorkerIs
<1> HIDE DEF F
<1>5. F = Moment(t, OnDisk(b), Len(t.seen))
  <2>1. CASE s.taken = Len(s.seen)
    <3>1. Len(t.seen) = 0
      BY <1>1, <1>4, <2>1
    <3>2. OnDisk(b) = F
      BY <1>3, <2>1, LastMoment
    <3> QED
      BY <3>1, <3>2 DEF Moment
  <2>2. CASE s.taken # Len(s.seen)
    <3>1. Len(t.seen) \in 1 .. Len(t.seen) /\ Len(t.seen) # 0 /\ Len(s.seen) # 0
          /\ s.taken + Len(t.seen) = Len(s.seen)
      BY <1>1, <1>4, <2>2
    <3>2. t.seen[Len(t.seen)] = s.seen[s.taken + Len(t.seen)]
      BY <1>1, <3>1
    <3> QED
      BY <1>3, <3>1, <3>2 DEF Moment
  <2> QED
    BY <2>1, <2>2
<1>6. Looks(t)
  BY <1>1, <1>2, <1>3 DEF Looks, F
<1>7. Told(t.batch \o t.queue, F, b)
  BY <1>1, <1>3
<1>8. Good(t, b, OnDisk(b))
  BY <1>1, <1>2, <1>5, <1>6, <1>7 DEF Good
<1> QED
  BY <1>8 DEF t

-----------------------------------------------------------------------------
(* The start.                                                              *)

LEMMA LoadedIs ==
  ASSUME NEW b \in Db
  PROVE  LET s == Loaded(b) IN
         /\ s \in Worker /\ Wakes(s) /\ Files(s) = OnDisk(b)
         /\ s.queue = <<>> /\ s.batch = <<>> /\ ~s.running /\ s.seen = <<>> /\ s.taken = 0
<1> DEFINE D == OnDisk(b)
           m == [f \in Names(b) |-> [data |-> D[f], cap |-> Len(D[f])]]
           s == [mem |-> m, temp |-> {}, queue |-> <<>>, batch |-> <<>>, running |-> FALSE,
                 seen |-> <<>>, taken |-> 0]
<1>1. D \in [Names(b) -> Text] /\ Names(b) \in SUBSET File
  BY OnDiskIs
<1>2. Loaded(b) = s
  BY DEF Loaded
<1> HIDE DEF D
<1>3. m \in [Names(b) -> Buffer]
  <2>1. ASSUME NEW f \in Names(b) PROVE [data |-> D[f], cap |-> Len(D[f])] \in Buffer
    <3>1. D[f] \in Text /\ Len(D[f]) \in Nat
      BY <1>1 DEF Text
    <3> QED
      BY <3>1 DEF Buffer
  <2> QED
    BY <2>1
<1>4. m \in Buffers
  <2> HIDE DEF m
  <2> QED
    BY <1>1, <1>3, MemMade
<1>5. DOMAIN m = Names(b) /\ \A f \in Names(b) : m[f].data = D[f]
  OBVIOUS
<1>6. {} \in SUBSET File /\ <<>> \in Seq(Item) /\ FALSE \in BOOLEAN /\ <<>> \in Seq(Texts) /\ 0 \in Nat /\ 0 <= Len(<<>>)
  OBVIOUS
<1> HIDE DEF m
<1>7. s \in State
  BY <1>4, <1>6 DEF State
<1>8. s \in Worker
  BY <1>6, <1>7 DEF Worker
<1>9. Files(s) = [f \in Names(b) |-> m[f].data]
  BY <1>5 DEF Files
<1>10. Files(s) = D
  BY <1>1, <1>5, <1>9
<1> QED
  BY <1>2, <1>8, <1>10 DEF Wakes, D

LEMMA LoadedGood ==
  ASSUME NEW b \in Db, Zero(b)
  PROVE  Good(Loaded(b), b, OnDisk(b))
<1> DEFINE s == Loaded(b)
           F == OnDisk(b)
<1>1. /\ s \in Worker /\ Files(s) = F
      /\ s.queue = <<>> /\ s.batch = <<>> /\ ~s.running /\ s.seen = <<>> /\ s.taken = 0
  BY LoadedIs
<1>2. \A f : Size(F, f) = Extent(b, f) /\ \A c \in Cells : Data(F, f, c) = CellIn(b, f, c)
  BY OnDiskIs
<1> HIDE DEF s, F
<1>3. F = Moment(s, F, Len(s.seen))
  BY <1>1 DEF Moment
<1>4. Looks(s)
  BY <1>1 DEF Looks, LiveIn
<1>5. s.batch \o s.queue = <<>>
  BY <1>1
<1>6. ASSUME NEW g \in File
      PROVE  LineFor(<<>>, F, Extent(b, g), CellsIn(b, g), g, Size(F, g), Has(F, g), TRUE)
  <2> DEFINE n == Extent(b, g)
  <2>1. Size(F, g) = n
    BY <1>2
  <2> HIDE DEF n
  <2>2. NoItem(<<>>, g, 0) /\ Len(<<>>) = 0
    BY DEF NoItem
  <2>3. After(<<>>, n, g, 0) = n
    BY <2>2, AfterNone
  <2>4. \A c \in Cells : CellsIn(b, g)[c] \in Has(F, g)[c]
    BY <1>2 DEF CellsIn, Has
  <2>5. LineFor(<<>>, F, n, CellsIn(b, g), g, Size(F, g), Has(F, g), TRUE)
    BY <2>1, <2>2, <2>3, <2>4 DEF LineFor
  <2> QED
    BY <2>5 DEF n
<1>7. Told(s.batch \o s.queue, F, b)
  BY <1>5, <1>6 DEF Told
<1>8. Good(s, b, F)
  BY <1>1, <1>3, <1>4, <1>7 DEF Good
<1> QED
  BY <1>8 DEF s, F

LEMMA LoadedIdsAre ==
  ASSUME NEW b \in Db
  PROVE  DOMAIN LoadedIds(b) \subseteq File /\ Owned(LoadedIds(b), b)
<1>1. DOMAIN LoadedIds(b) = Names(b) /\ \A f \in Names(b) : LoadedIds(b)[f] = IdIn(b, f)
  BY DEF LoadedIds
<1>2. Names(b) \subseteq File
  BY OnDiskIs
<1>3. \A f \in Names(b) : Of(b, f, IdIn(b, f))
  BY OfIs
<1> QED
  BY <1>1, <1>2, <1>3 DEF Owned

-----------------------------------------------------------------------------
LEMMA EmptyIs ==
  EmptyStore \in Db /\ Zero(EmptyStore)
<1>1. EmptyStore.rows = <<>> /\ EmptyStore.next = 1 /\ EmptyStore = [next |-> 1, rows |-> <<>>]
  BY DEF EmptyStore
<1>2. <<>> \in Tables
  <2>1. <<>> \in [{} -> Row] /\ {} \in SUBSET Nat
    OBVIOUS
  <2> QED
    BY <2>1, TablesAre
<1>3. DOMAIN <<>> = {}
  OBVIOUS
<1>4. EmptyStore \in [next : Nat, rows : Tables]
  BY <1>1, <1>2
<1> QED
  BY <1>1, <1>3, <1>4 DEF Db, Zero

LEMMA NamedOnce ==
  LET q == SetToSeq(File)
      n == Cardinality(File)
  IN /\ n \in Nat /\ q \in [1 .. n -> File]
     /\ \A i, j \in 1 .. n : q[i] = q[j] => i = j
<1> DEFINE n == Cardinality(File)
<1>1. n \in Nat /\ ExistsBijection(1 .. n, File)
  BY FileAssumption, FS_CardinalityType
<1>2. PICK p \in [1 .. n -> File] : IsInjective(p)
  BY <1>1 DEF ExistsBijection, Bijection, Injection
<1>3. SetToSeq(File) \in [1 .. n -> File] /\ IsInjective(SetToSeq(File))
  BY <1>2 DEF SetToSeq
<1> QED
  BY <1>1, <1>3 DEF IsInjective

LEMMA SeededIs ==
  SeededStore \in Db /\ Zero(SeededStore)
<1> DEFINE n == Cardinality(File)
           q == SetToSeq(File)
           r == [i \in 1 .. n |-> SeedRow(q[i])]
<1>1. n \in Nat /\ q \in [1 .. n -> File] /\ \A i, j \in 1 .. n : q[i] = q[j] => i = j
  BY NamedOnce
<1>2. SeededStore = [next |-> n + 1, rows |-> r]
  BY DEF SeededStore
<1> HIDE DEF n, q
<1>3. ASSUME NEW f \in File
      PROVE  /\ SeedRow(f) \in Row /\ SeedRow(f).name = f
             /\ \A c \in Cells : c >= SeedRow(f).len => SeedRow(f).cells[c] = 0
  <2> DEFINE cel == [c \in Cells |-> IF c < BlockSize THEN MaxOps + 1 ELSE 0]
  <2>1. MaxOps + 1 \in Nat /\ BlockSize \in 0 .. MaxLen
    BY Constants
  <2>2. cel \in [Cells -> Nat]
    BY <2>1
  <2>3. \A c \in Cells : c >= BlockSize => cel[c] = 0
    BY Constants
  <2>4. SeedRow(f) = [name |-> f, len |-> BlockSize, cells |-> cel]
    BY DEF SeedRow
  <2> HIDE DEF cel
  <2>5. SeedRow(f) \in Row
    BY <2>1, <2>2, <2>4 DEF Row
  <2> QED
    BY <2>3, <2>4, <2>5
<1>4. r \in [1 .. n -> Row] /\ 1 .. n \in SUBSET Nat
  BY <1>1, <1>3
<1>5. DOMAIN r = 1 .. n /\ \A i \in 1 .. n : r[i] = SeedRow(q[i])
  OBVIOUS
<1> HIDE DEF r
<1>6. r \in Tables
  BY <1>4, TablesAre
<1>7. SeededStore.rows = r /\ SeededStore.next = n + 1 /\ SeededStore \in [next : Nat, rows : Tables]
  BY <1>1, <1>2, <1>6
<1>8. \A i \in DOMAIN r : i < n + 1
  BY <1>1, <1>5
<1>9. ASSUME NEW i \in DOMAIN r, NEW j \in DOMAIN r, r[i].name = r[j].name PROVE i = j
  BY <1>1, <1>3, <1>5, <1>9
<1>10. SeededStore \in Db
  BY <1>7, <1>8, <1>9 DEF Db
<1>11. Zero(SeededStore)
  BY <1>1, <1>3, <1>5, <1>7 DEF Zero
<1> QED
  BY <1>10, <1>11

-----------------------------------------------------------------------------
LEMMA InitInv ==
  ASSUME Init
  PROVE  IInv
<1>1. store \in Db /\ Zero(store)
  BY EmptyIs, SeededIs DEF Init
<1>2. /\ work = store /\ fs = Loaded(store) /\ ids = LoadedIds(store)
      /\ sound = TRUE /\ ops = 0 /\ faults = 0
  BY DEF Init
<1>3. fs \in Worker /\ Wakes(fs) /\ Good(fs, work, OnDisk(store))
  BY <1>1, <1>2, LoadedIs, LoadedGood
<1>4. DOMAIN ids \subseteq File /\ Owned(ids, work)
  BY <1>1, <1>2, LoadedIdsAre
<1> QED
  BY <1>1, <1>2, <1>3, <1>4 DEF IInv, Sound

LEMMA CrashStep ==
  ASSUME IInv, Crash
  PROVE  IInv' /\ fs'.seen = <<>> /\ store' = store /\ sound' = sound /\ faults' = faults
<1>1. store \in Db /\ ops \in Nat /\ faults \in Nat /\ sound \in BOOLEAN /\ (sound => Zero(store))
  BY DEF IInv, Sound
<1>2. /\ fs' = Loaded(store) /\ ids' = LoadedIds(store) /\ work' = store
      /\ store' = store /\ sound' = sound /\ ops' = ops /\ faults' = faults
  BY DEF Crash
<1>3. fs' \in Worker /\ Wakes(fs') /\ fs'.seen = <<>>
  BY <1>1, <1>2, LoadedIs
<1>4. DOMAIN ids' \subseteq File /\ Owned(ids', work')
  BY <1>1, <1>2, LoadedIdsAre
<1>5. sound => Good(fs', work', OnDisk(store'))
  BY <1>1, <1>2, LoadedGood
<1>6. IInv'
  BY <1>1, <1>2, <1>3, <1>4, <1>5 DEF IInv, Sound
<1> QED
  BY <1>2, <1>3, <1>6

-----------------------------------------------------------------------------
(* The steps.                                                              *)

LEMMA CallsStep ==
  ASSUME IInv, Calls
  PROVE  /\ IInv' /\ store' = store /\ sound' = sound /\ faults' = faults
         /\ sound => Grew(fs, fs')
<1>1. fs \in Worker /\ Wakes(fs) /\ DOMAIN ids \subseteq File /\ work \in Db /\ store \in Db
      /\ ops \in Nat /\ faults \in Nat /\ sound \in BOOLEAN
  BY DEF IInv
<1>2. PICK s : Called(fs, s) /\ Call(s)
  BY <1>1, CallsAre
<1>3. s \in Worker /\ Wakes(s)
  BY <1>2 DEF Called
<1>4. /\ ops' = ops + 1 /\ ids' = ids /\ work' = work /\ store' = store /\ sound' = sound /\ faults' = faults
      /\ fs' = IF sound THEN s ELSE Silent(s)
  BY <1>2 DEF Call, Silent
<1>5. Silent(s) \in Worker /\ Wakes(Silent(s))
  BY <1>3, SilentIs
<1>6. ops' \in Nat
  BY <1>1, <1>4
<1>7. ASSUME sound PROVE Sound' /\ Grew(fs, fs')
  <2>1. Good(fs, work, OnDisk(store)) /\ Owned(ids, work) /\ Zero(work) /\ Zero(store)
    BY <1>7 DEF IInv, Sound
  <2>2. Good(s, work, OnDisk(store)) /\ Grew(fs, s)
    BY <1>1, <1>2, <2>1 DEF Called
  <2> QED
    BY <1>4, <1>7, <2>1, <2>2 DEF Sound
<1>8. fs' \in Worker /\ Wakes(fs')
  BY <1>3, <1>4, <1>5
<1>9. IInv'
  BY <1>1, <1>4, <1>6, <1>7, <1>8 DEF IInv
<1> QED
  BY <1>4, <1>7, <1>9

LEMMA CommitStep ==
  ASSUME IInv, Commit
  PROVE  /\ IInv' /\ store' = work /\ sound' = sound /\ faults' = faults
         /\ fs'.seen = SubSeq(fs.seen, fs.taken + 1, Len(fs.seen))
<1>1. fs \in Worker /\ DOMAIN ids \subseteq File /\ work \in Db /\ store \in Db
      /\ ops \in Nat /\ faults \in Nat /\ sound \in BOOLEAN
  BY DEF IInv
<1>2. /\ fs.running /\ fs.batch = <<>> /\ store' = work
      /\ ids' = ids /\ work' = work /\ sound' = sound /\ ops' = ops /\ faults' = faults
      /\ fs' = Over([fs EXCEPT !.seen = SubSeq(@, fs.taken + 1, Len(@))])
  BY DEF Commit, bounds
<1>3. fs' = Drained(Settled(fs))
  BY <1>1, <1>2, OverIs
<1>4. Settled(fs) \in Worker /\ Settled(fs).seen = SubSeq(fs.seen, fs.taken + 1, Len(fs.seen))
  BY <1>1, SettledIs
<1>5. fs' \in Worker /\ Wakes(fs') /\ fs'.seen = Settled(fs).seen
  BY <1>3, <1>4, DrainedIs DEF Starts, SameFiles
<1>6. ASSUME sound PROVE Sound'
  <2>1. Good(fs, work, OnDisk(store)) /\ Owned(ids, work) /\ Zero(work)
    BY <1>6 DEF IInv, Sound
  <2>2. OnDisk(store) \in Texts
    BY <1>1, DiskTexts
  <2>3. Good(Settled(fs), work, OnDisk(work))
    BY <1>1, <1>2, <2>1, <2>2, SettledGood
  <2>4. Good(fs', work, OnDisk(work))
    BY <1>3, <1>4, <2>3, DrainedGood
  <2> QED
    BY <1>2, <2>1, <2>4 DEF Sound
<1>7. IInv'
  BY <1>1, <1>2, <1>5, <1>6 DEF IInv
<1> QED
  BY <1>2, <1>4, <1>5, <1>7

\* Only IndexedDB makes a transaction fail.
LEMMA FailStep ==
  ASSUME IInv, ItemFails \/ Quota
  PROVE  /\ IInv' /\ ~sound' /\ store' = store
         /\ sound => faults' > faults
<1>1. fs \in Worker /\ Wakes(fs) /\ DOMAIN ids \subseteq File /\ work \in Db /\ store \in Db
      /\ ops \in Nat /\ faults \in Nat /\ sound \in BOOLEAN
  BY DEF IInv
<1>2. Abort
  BY DEF ItemFails, Quota
<1>3. /\ work' = store /\ sound' = FALSE /\ store' = store /\ ops' = ops
      /\ fs' = Over([fs EXCEPT !.seen = <<>>])
  BY <1>2 DEF Abort
<1>4. fs' = Drained(Failed(fs))
  BY <1>1, <1>3, OverIs
<1>5. Failed(fs) \in Worker
  BY <1>1, FailedIs
<1>6. fs' \in Worker /\ Wakes(fs')
  BY <1>4, <1>5, DrainedIs
<1>7. CASE ItemFails
  <2>1. fs.batch # <<>> /\ faults' = faults /\ (ids' = ids \/ ids' = Resolved(item))
    BY <1>7 DEF ItemFails
  <2>2. DOMAIN Resolved(item) \subseteq File
    BY <1>1, ResolvedTyped
  <2>3. ~sound
    <3> SUFFICES ASSUME sound PROVE FALSE
      OBVIOUS
    <3>1. item \in Item /\ Runs(item, Extent(work, item.file))
      BY <2>1, ItemReady
    <3>2. Owned(ids, work)
      BY DEF IInv, Sound
    <3> QED
      BY <1>1, <1>7, <3>1, <3>2, NoFailure
  <2>4. DOMAIN ids' \subseteq File /\ faults' \in Nat
    BY <1>1, <2>1, <2>2
  <2> QED
    BY <1>1, <1>3, <1>6, <2>3, <2>4 DEF IInv
<1>8. CASE Quota
  <2>1. faults' = faults + 1 /\ ids' = ids
    BY <1>8 DEF Quota
  <2>2. DOMAIN ids' \subseteq File /\ faults' \in Nat /\ faults' > faults
    BY <1>1, <2>1
  <2> QED
    BY <1>1, <1>3, <1>6, <2>2 DEF IInv
<1> QED
  BY <1>7, <1>8

-----------------------------------------------------------------------------
LEMMA NextInv ==
  ASSUME IInv, [Next]_vars
  PROVE  IInv'
<1>1. CASE Calls
  BY <1>1, CallsStep
<1>2. CASE RunItem
  BY <1>2, RunItemStep
<1>3. CASE Commit
  BY <1>3, CommitStep
<1>4. CASE ItemFails \/ Quota
  BY <1>4, FailStep
<1>5. CASE Crash
  BY <1>5, CrashStep
<1>6. CASE UNCHANGED vars
  BY <1>6 DEF IInv, Sound, vars
<1> QED
  BY <1>1, <1>2, <1>3, <1>4, <1>5, <1>6 DEF Next, Transaction

LEMMA AlwaysInv ==
  Spec => []IInv
BY InitInv, NextInv, PTL DEF Spec

-----------------------------------------------------------------------------
LEMMA InvRows ==
  ASSUME IInv
  PROVE  RowsOK
<1>1. fs \in Worker /\ Wakes(fs) /\ DOMAIN ids \subseteq File /\ store \in Db
  BY DEF IInv
<1>2. fs.mem \in Buffers /\ fs.temp \subseteq DOMAIN fs.mem /\ fs.running \in BOOLEAN
      /\ fs.taken \in Nat /\ Len(fs.seen) \in Nat /\ fs.taken <= Len(fs.seen)
  BY <1>1, WorkerIs
<1>3. DOMAIN fs.mem \subseteq File /\ \A f \in DOMAIN fs.mem : Len(fs.mem[f].data) <= fs.mem[f].cap
  BY <1>2, MemIs
<1>4. \A i, j \in DOMAIN store.rows : store.rows[i].name = store.rows[j].name => i = j
  BY <1>1, DbIs
<1>5. TypeOK
  BY <1>1, <1>2, <1>3, <1>4 DEF TypeOK
<1>6. Awake
  BY <1>1 DEF Awake, Wakes
<1>7. OwnRows
  BY DEF IInv, Sound, Owned, Of, OwnRows
<1> QED
  BY <1>5, <1>6, <1>7 DEF RowsOK

-----------------------------------------------------------------------------
(* The abstract specification.                                             *)

LEMMA MomentsAre ==
  ASSUME NEW s \in Worker, NEW old \in Texts, NEW j \in 0 .. Len(s.seen)
  PROVE  (<<old>> \o s.seen)[j + 1] = Moment(s, old, j)
<1>1. s.seen \in Seq(Texts) /\ <<old>> \in Seq(Texts) /\ Len(<<old>>) = 1 /\ <<old>>[1] = old
  BY WorkerIs
<1>2. /\ \A i \in 1 .. Len(<<old>>) : (<<old>> \o s.seen)[i] = <<old>>[i]
      /\ \A i \in 1 .. Len(s.seen) : (<<old>> \o s.seen)[Len(<<old>>) + i] = s.seen[i]
  BY <1>1, ConcatIs
<1> DEFINE m == <<old>> \o s.seen
<1>3. m[1] = old /\ \A i \in 1 .. Len(s.seen) : m[1 + i] = s.seen[i]
  BY <1>1, <1>2
<1> HIDE DEF m
<1>4. CASE j = 0
  BY <1>3, <1>4 DEF Moment, m
<1>5. CASE j # 0
  <2>1. j \in 1 .. Len(s.seen) /\ j + 1 = 1 + j
    BY <1>1, <1>5
  <2>2. m[j + 1] = s.seen[j]
    BY <1>3, <2>1
  <2> QED
    BY <1>5, <2>2 DEF Moment, m
<1> QED
  BY <1>4, <1>5

\* More has been seen.
LEMMA PrefixIs ==
  ASSUME NEW s \in Seq(Texts), NEW t \in Seq(Texts), Len(s) < Len(t), \A i \in 1 .. Len(s) : t[i] = s[i]
  PROVE  IsStrictPrefix(s, t)
<1>1. Len(s) \in Nat /\ Len(t) \in Nat
  OBVIOUS
<1>2. PICK n \in Nat : n = Len(s) /\ n \in 1 - 1 .. Len(s) /\ n \in 1 - 1 .. Len(t) /\ 1 \in 1 .. Len(s) + 1 /\ 1 \in 1 .. Len(t) + 1
  BY <1>1
<1> DEFINE a == SubSeq(s, 1, n)
           b == SubSeq(t, 1, n)
<1>3. /\ a \in Seq(Texts) /\ Len(a) = n - 1 + 1 /\ \A i \in 1 .. n - 1 + 1 : a[i] = s[1 + i - 1]
      /\ b \in Seq(Texts) /\ Len(b) = n - 1 + 1 /\ \A i \in 1 .. n - 1 + 1 : b[i] = t[1 + i - 1]
  BY <1>2, SubSeqIs
<1> HIDE DEF a, b
<1>4. n - 1 + 1 = n /\ Len(a) = n /\ Len(b) = n
  BY <1>2, <1>3
<1>5. ASSUME NEW i \in 1 .. n PROVE a[i] = b[i]
  <2>1. 1 + i - 1 = i /\ i \in 1 .. n - 1 + 1 /\ i \in 1 .. Len(s)
    BY <1>2
  <2> QED
    BY <1>3, <2>1
<1>6. a = b
  BY <1>3, <1>4, <1>5, SMTT(60)
<1> QED
  BY <1>1, <1>2, <1>6 DEF IsStrictPrefix, IsPrefix, a, b

\* What is stored is what the memory was when the transaction started.
LEMMA CommitPersists ==
  ASSUME IInv, Commit, sound
  PROVE  Durable!Persist(fs.taken) /\ fs.taken \in 0 .. Len(fs.seen)
<1> DEFINE old == OnDisk(store)
           new == OnDisk(work)
           n == Len(fs.seen)
           m == Moment(fs, old, fs.taken)
<1>1. fs \in Worker /\ work \in Db /\ store \in Db /\ Zero(work) /\ Good(fs, work, old)
  BY DEF IInv, Sound
<1>2. fs.running /\ fs.batch = <<>> /\ store' = work /\ fs'.seen = SubSeq(fs.seen, fs.taken + 1, n)
  BY CommitStep DEF Commit
<1>3. Stores(fs, work, old)
  BY <1>1, <1>2 DEF Good
<1>4. old \in Texts /\ new \in Texts
  BY <1>1, DiskTexts
<1>5. n \in Nat /\ fs.taken \in Nat /\ fs.taken \in 0 .. n
  BY <1>1, WorkerIs
<1>6. m \in Texts
  BY <1>1, <1>4, <1>5, MomentTexts
<1>7. ASSUME NEW j \in 0 .. n PROVE Durable!Moments[j + 1] = Moment(fs, old, j)
  BY <1>1, <1>4, MomentsAre DEF Durable!Moments
<1>8. Durable!Moments[fs.taken + 1] = m
  BY <1>5, <1>7
<1>9. \A F, f, c : Durable!CellOf(F, f, c) = Data(F, f, c)
  BY DEF Durable!CellOf, Data
<1>10. ASSUME NEW f \in File
       PROVE  Size(new, f) = Size(m, f) /\ \A c \in Cells : new \in Texts /\ Data(new, f, c) \in Can(fs, old, f)[c]
  BY <1>1, <1>2, <1>3, <1>4, StoredIs
<1>11. ASSUME NEW H \in Texts
       PROVE  /\ DOMAIN H \subseteq File
              /\ \A f \in DOMAIN H : H[f] \in Seq(Nat) /\ Len(H[f]) \in Nat /\ Len(H[f]) <= MaxLen
  BY DEF Texts, Text
<1> HIDE DEF old, new, n, m
<1>12. DOMAIN new = DOMAIN m
  <2>1. ASSUME NEW f \in File PROVE f \in DOMAIN new <=> f \in DOMAIN m
    <3>1. f \in DOMAIN new <=> Size(new, f) >= 0
      BY <1>4, <1>11 DEF Size
    <3>2. f \in DOMAIN m <=> Size(m, f) >= 0
      BY <1>6, <1>11 DEF Size
    <3> QED
      BY <1>10, <3>1, <3>2
  <2> QED
    BY <1>4, <1>6, <1>11, <2>1
<1>13. ASSUME NEW f \in DOMAIN m
       PROVE  /\ Len(new[f]) = Len(m[f])
              /\ f \in Paged => new[f] = m[f]
              /\ \A c \in Cells : \E j \in fs.taken .. n :
                   Durable!CellOf(new, f, c) = Durable!CellOf(Durable!Moments[j + 1], f, c)
  <2>1. f \in File /\ new[f] \in Seq(Nat) /\ m[f] \in Seq(Nat) /\ Len(m[f]) \in Nat /\ Len(m[f]) <= MaxLen
    BY <1>4, <1>6, <1>11, <1>12
  <2>2. Len(new[f]) = Len(m[f])
    BY <1>10, <1>12, <2>1 DEF Size
  <2>3. ASSUME f \in Paged, NEW c \in Cells PROVE Data(new, f, c) = Data(m, f, c)
    <3>1. Data(new, f, c) \in Can(fs, old, f)[c]
      BY <1>10, <2>1
    <3> QED
      BY <2>3, <3>1 DEF Can, m
  <2>4. ASSUME f \in Paged PROVE new[f] = m[f]
    <3>1. ASSUME NEW i \in 1 .. Len(m[f]) PROVE new[f][i] = m[f][i]
      <4>1. PICK c \in Cells : c = i - 1 /\ c + 1 = i /\ c < Len(m[f])
        <5>1. i - 1 \in Cells /\ i - 1 + 1 = i /\ i - 1 < Len(m[f])
          BY <2>1, Constants DEF Cells
        <5> QED
          BY <5>1
      <4>2. Data(new, f, c) = new[f][i] /\ Data(m, f, c) = m[f][i]
        BY <1>12, <2>2, <4>1 DEF Data
      <4> QED
        BY <2>3, <2>4, <4>2
    <3> DEFINE d == new[f]
               e == m[f]
    <3>2. d \in Seq(Nat) /\ e \in Seq(Nat) /\ Len(d) = Len(e) /\ \A i \in 1 .. Len(e) : d[i] = e[i]
      BY <2>1, <2>2, <3>1
    <3> HIDE DEF d, e
    <3>3. d = e
      BY <3>2
    <3> QED
      BY <3>3 DEF d, e
  <2>5. ASSUME NEW c \in Cells
        PROVE \E j \in fs.taken .. n : Durable!CellOf(new, f, c) = Durable!CellOf(Durable!Moments[j + 1], f, c)
    <3>1. Data(new, f, c) \in Can(fs, old, f)[c]
      BY <1>10, <2>1
    <3>2. PICK j \in fs.taken .. n : Data(new, f, c) = Data(Moment(fs, old, j), f, c)
      <4>1. CASE f \in Paged
        BY <1>5, <3>1, <4>1 DEF Can
      <4>2. CASE f \notin Paged
        BY <3>1, <4>2 DEF Can, n
      <4> QED
        BY <4>1, <4>2
    <3>3. j \in 0 .. n
      BY <1>5
    <3> QED
      BY <1>7, <1>9, <3>2, <3>3
  <2> QED
    BY <2>2, <2>4, <2>5
<1>14. OnDisk(store)' = new
  BY <1>2 DEF new
<1>15. Durable!Persist(fs.taken)
  BY <1>2, <1>8, <1>12, <1>13, <1>14 DEF Durable!Persist, n
<1> QED
  BY <1>5, <1>15 DEF n

LEMMA CallsImplement ==
  ASSUME IInv, Calls
  PROVE  Durable!Next \/ UNCHANGED Durable!vars
<1>1. IInv' /\ store' = store /\ sound' = sound /\ (sound => Grew(fs, fs'))
  BY CallsStep
<1>2. OnDisk(store)' = OnDisk(store) /\ fs.seen \in Seq(Texts) /\ fs'.seen \in Seq(Texts) /\ sound \in BOOLEAN
  BY <1>1, WorkerIs DEF IInv
<1>3. CASE ~sound
  BY <1>1, <1>2, <1>3 DEF Durable!Next, Durable!Break
<1>4. CASE sound /\ fs'.seen = fs.seen
  BY <1>1, <1>2, <1>4 DEF Durable!vars
<1>5. CASE sound /\ fs'.seen # fs.seen
  <2>1. Len(fs.seen) < Len(fs'.seen) /\ \A i \in 1 .. Len(fs.seen) : fs'.seen[i] = fs.seen[i]
    BY <1>1, <1>5 DEF Grew
  <2>2. IsStrictPrefix(fs.seen, fs'.seen)
    BY <1>2, <2>1, PrefixIs
  <2>3. Durable!Change
    <3>1. sound /\ Durable!IsStrictPrefix(fs.seen, fs'.seen)
      BY <1>5, <2>2 DEF IsStrictPrefix, IsPrefix, Durable!IsStrictPrefix, Durable!IsPrefix
    <3>2. OnDisk(store)' = OnDisk(store) /\ sound' = sound
      BY <1>1, <1>2
    <3> QED
      BY <3>1, <3>2 DEF Durable!Change
  <2> QED
    BY <2>3 DEF Durable!Next
<1> QED
  BY <1>2, <1>3, <1>4, <1>5

LEMMA NextImplements ==
  ASSUME IInv, [Next]_vars
  PROVE  [Durable!Next]_(Durable!vars)
<1>1. CASE Calls
  BY <1>1, CallsImplement
<1>2. CASE RunItem
  <2>1. fs'.seen = fs.seen /\ store' = store /\ sound' = sound
    BY <1>2, RunItemStep
  <2> QED
    BY <2>1 DEF Durable!vars
<1>3. CASE Commit
  <2>1. sound' = sound /\ sound \in BOOLEAN
    BY <1>3, CommitStep DEF IInv
  <2>2. CASE sound
    <3>1. Durable!Persist(fs.taken) /\ fs.taken \in 0 .. Len(fs.seen)
      BY <1>3, <2>2, CommitPersists
    <3> QED
      BY <2>1, <2>2, <3>1 DEF Durable!Next
  <2>3. CASE ~sound
    BY <2>1, <2>3 DEF Durable!Next, Durable!Break
  <2> QED
    BY <2>2, <2>3
<1>4. CASE ItemFails \/ Quota
  <2>1. ~sound' /\ IInv'
    BY <1>4, FailStep
  <2>2. sound' = FALSE
    BY <2>1 DEF IInv
  <2> QED
    BY <2>2 DEF Durable!Next, Durable!Break
<1>5. CASE Crash
  <2>1. fs'.seen = <<>> /\ store' = store /\ sound' = sound
    BY <1>5, CrashStep
  <2> QED
    BY <2>1 DEF Durable!Next, Durable!Crash
<1>6. CASE UNCHANGED vars
  BY <1>6 DEF vars, Durable!vars
<1> QED
  BY <1>1, <1>2, <1>3, <1>4, <1>5, <1>6 DEF Next, Transaction

LEMMA NextOnlyQuota ==
  ASSUME IInv, [Next]_vars
  PROVE  [~sound' /\ sound => faults' > faults]_vars
<1>1. CASE Calls
  BY <1>1, CallsStep
<1>2. CASE RunItem
  BY <1>2, RunItemStep
<1>3. CASE Commit
  BY <1>3, CommitStep
<1>4. CASE ItemFails \/ Quota
  BY <1>4, FailStep
<1>5. CASE Crash
  BY <1>5, CrashStep
<1>6. CASE UNCHANGED vars
  BY <1>6
<1> QED
  BY <1>1, <1>2, <1>3, <1>4, <1>5, <1>6 DEF Next, Transaction

-----------------------------------------------------------------------------
(* The theorems.                                                           *)

\* The worker's bookkeeping is in order after any calls, failures and crashes:
\* whatever waits has a transaction that will take it (A.cf.aw, A.hu), and as
\* long as no write has failed an id from the cache is the id of the row of that
\* very file (A.cf.aq), although rows are deleted and made anew under the name.
THEOREM RowsCorrect == Spec => []RowsOK
BY AlwaysInv, InvRows, PTL

\* What is on the disk is what memory was at an earlier moment, and it moves
\* on from one moment to a later one only, however the queue joined writes and
\* dropped items (A.cA.ci, A.dt.ci) while a transaction was running.  A crash
\* goes back to that moment; a write that failed ends the promise.
THEOREM ImplementsCorrect == Spec => Implements
<1>1. Init => Durable!Init
  BY InitInv, LoadedIs DEF Init, Durable!Init, IInv
<1>2. IInv /\ [Next]_vars => [Durable!Next]_(Durable!vars)
  BY NextImplements
<1> QED
  BY <1>1, <1>2, AlwaysInv, PTL DEF Spec, Implements, Durable!Spec

\* The items of a transaction always find the rows they need: only IndexedDB
\* itself, out of space, makes one fail (A.fW).
THEOREM OnlyQuotaCorrect == Spec => OnlyQuota
<1>1. IInv /\ [Next]_vars => [~sound' /\ sound => faults' > faults]_vars
  BY NextOnlyQuota
<1> QED
  BY <1>1, AlwaysInv, PTL DEF Spec, OnlyQuota

\* The disk follows the memory, and only a lack of space may end that.
THEOREM WrittenBehindCorrect == Spec => WrittenBehind
BY ImplementsCorrect, OnlyQuotaCorrect, PTL DEF WrittenBehind

=============================================================================
