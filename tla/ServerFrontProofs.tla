--------------------------- MODULE ServerFrontProofs ---------------------------
(* Proofs about the front of the Node.js server: the limit on failed       *)
(* authentications (AuthLimit) and the exchanges (ServerFront).            *)
EXTENDS ServerFront, FiniteSetTheorems, WellFoundedInduction, TLAPS

-----------------------------------------------------------------------------
(* Lists of failures.                                                      *)

\* The failures are in order: the oldest come first.
Ordered(s) == \A i, j \in 1 .. Len(s) : i <= j => s[i] >= s[j]

\* r is the end of g.
EndOf(r, g) ==
    /\ Len(r) <= Len(g)
    /\ \A k \in 1 .. Len(r) : r[k] = g[Len(g) - Len(r) + k]

Aged(s) == [k \in DOMAIN s |-> Older(s[k])]

\* A set of natural numbers has a least element.
LEMMA Least ==
  ASSUME NEW T, T \subseteq Nat, T # {}
  PROVE  \E m \in T : \A k \in T : m <= k
<1> DEFINE Less == {ss \in Nat \X Nat : ss[1] < ss[2]}
<1>1. IsWellFoundedOn(Less, Nat)
  BY NatLessThanWellFounded DEF OpToRel
<1> HIDE DEF Less
<1>2. PICK x \in T : \A y \in T : ~(<<y, x>> \in Less)
  BY <1>1, WFMin
<1>3. x \in Nat /\ \A y \in T : y \in Nat /\ ~(y < x)
  BY <1>2 DEF Less
<1> QED
  BY <1>3

\* Where the expired failures of a list end, the recent ones begin.
LEMMA Cut ==
  ASSUME NEW s \in Seq(Age), NEW c \in 0 .. Len(s),
         \A k \in 1 .. c : s[k] >= Window,
         \A k \in c + 1 .. Len(s) : s[k] < Window
  PROVE  Recent(s) = SubSeq(s, c + 1, Len(s))
<1>1. Expired(s) = 1 .. c
  <2>1. DOMAIN s = 1 .. Len(s) /\ Len(s) \in Nat
    OBVIOUS
  <2>2. \A k \in 1 .. Len(s) : s[k] \in Int
    BY LimitAssumption DEF Age
  <2> QED
    BY <2>1, <2>2, LimitAssumption DEF Expired
<1>2. Cardinality(1 .. c) = c
  BY FS_Interval
<1> QED
  BY <1>1, <1>2 DEF Recent

LEMMA RecentIs ==
  ASSUME NEW s \in Seq(Age), Ordered(s)
  PROVE  \E c \in 0 .. Len(s) :
            /\ \A k \in 1 .. c : s[k] >= Window
            /\ \A k \in c + 1 .. Len(s) : s[k] < Window
            /\ Recent(s) = SubSeq(s, c + 1, Len(s))
<1>0. Len(s) \in Nat /\ Window \in Nat /\ \A k \in 1 .. Len(s) : s[k] \in Int
  BY LimitAssumption DEF Age
<1> DEFINE T == {k \in Nat : k >= 1 /\ (k <= Len(s) => s[k] < Window)}
<1>1. Len(s) + 1 \in T /\ T \subseteq Nat
  BY <1>0
<1>2. PICK m \in T : \A k \in T : m <= k
  BY <1>1, Least
<1>3. m - 1 \in 0 .. Len(s)
  BY <1>0, <1>1, <1>2
<1>4. \A k \in 1 .. m - 1 : s[k] >= Window
  BY <1>0, <1>2, <1>3
<1>5. \A k \in m .. Len(s) : s[k] < Window
  <2>1. SUFFICES ASSUME NEW k \in m .. Len(s) PROVE s[k] < Window
    OBVIOUS
  <2>2. m \in 1 .. Len(s) /\ k \in 1 .. Len(s) /\ m <= k
    BY <1>0, <1>2
  <2>3. s[m] < Window /\ s[m] >= s[k]
    BY <1>2, <2>2 DEF Ordered
  <2> QED
    BY <1>0, <2>2, <2>3
<1>6. (m - 1) + 1 = m
  BY <1>2
<1> QED
  BY <1>3, <1>4, <1>5, <1>6, Cut

LEMMA SameList ==
  ASSUME NEW S, NEW s \in Seq(S), NEW t \in Seq(S), Len(s) = Len(t),
         \A k \in 1 .. Len(s) : s[k] = t[k]
  PROVE  s = t
OBVIOUS

LEMMA RecentParts ==
  ASSUME NEW s \in Seq(Age), Ordered(s)
  PROVE  /\ Recent(s) \in Seq(Age) /\ Ordered(Recent(s)) /\ EndOf(Recent(s), s)
         /\ \A k \in 1 .. Len(Recent(s)) : Recent(s)[k] < Window
<1>1. PICK c \in 0 .. Len(s) :
        /\ \A k \in c + 1 .. Len(s) : s[k] < Window
        /\ Recent(s) = SubSeq(s, c + 1, Len(s))
  BY RecentIs
<1>2. Len(s) \in Nat /\ \A k \in 1 .. Len(s) : s[k] \in Age
  OBVIOUS
<1>3. /\ Recent(s) \in Seq(Age) /\ Len(Recent(s)) = Len(s) - c
      /\ \A k \in 1 .. Len(Recent(s)) : Recent(s)[k] = s[c + k]
  BY <1>1, <1>2
<1>4. \A k \in 1 .. Len(Recent(s)) : c + k \in c + 1 .. Len(s)
  BY <1>2, <1>3
<1>5. Ordered(Recent(s))
  BY <1>2, <1>3, <1>4 DEF Ordered
<1>6. EndOf(Recent(s), s)
  BY <1>2, <1>3, <1>4 DEF EndOf
<1> QED
  BY <1>1, <1>3, <1>4, <1>5, <1>6

\* Nothing goes from a list in which nothing has expired.
LEMMA RecentWhole ==
  ASSUME NEW s \in Seq(Age), \A k \in 1 .. Len(s) : s[k] < Window
  PROVE  Recent(s) = s
<1>1. 0 \in 0 .. Len(s) /\ Len(s) \in Nat
  OBVIOUS
<1>2. Recent(s) = SubSeq(s, 0 + 1, Len(s))
  BY <1>1, Cut
<1>3. SubSeq(s, 1, Len(s)) = s
  OBVIOUS
<1> QED
  BY <1>2, <1>3

LEMMA AgedParts ==
  ASSUME NEW s \in Seq(Age)
  PROVE  /\ Aged(s) \in Seq(Age) /\ Len(Aged(s)) = Len(s)
         /\ \A k \in 1 .. Len(s) : Aged(s)[k] = Older(s[k])
         /\ Ordered(s) => Ordered(Aged(s))
<1>1. \A a \in Age : Older(a) \in Age
  BY LimitAssumption DEF Age, Older
<1>2. DOMAIN s = 1 .. Len(s) /\ Len(s) \in Nat /\ \A k \in 1 .. Len(s) : s[k] \in Age
  OBVIOUS
<1>3. Aged(s) = [k \in 1 .. Len(s) |-> Older(s[k])]
  BY <1>2 DEF Aged
<1>4. /\ Aged(s) \in Seq(Age) /\ Len(Aged(s)) = Len(s)
      /\ \A k \in 1 .. Len(s) : Aged(s)[k] = Older(s[k])
  BY <1>1, <1>2, <1>3
<1>5. \A a, b \in Age : a >= b => Older(a) >= Older(b)
  BY LimitAssumption DEF Age, Older
<1>6. Ordered(s) => Ordered(Aged(s))
  BY <1>2, <1>4, <1>5 DEF Ordered
<1> QED
  BY <1>4, <1>6

LEMMA SubSeqFrom ==
  ASSUME NEW s \in Seq(Age), NEW c \in 0 .. Len(s)
  PROVE  /\ SubSeq(s, c + 1, Len(s)) \in Seq(Age) /\ Len(SubSeq(s, c + 1, Len(s))) = Len(s) - c
         /\ \A k \in 1 .. Len(s) - c : SubSeq(s, c + 1, Len(s))[k] = s[c + k]
OBVIOUS

\* As time passes, the end of a list loses its oldest ones with the whole.
LEMMA RecentEnds ==
  ASSUME NEW r \in Seq(Age), NEW g \in Seq(Age), Ordered(g), EndOf(r, g)
  PROVE  EndOf(Recent(r), Recent(g))
<1>0. Len(g) - Len(r) \in Nat
  BY DEF EndOf
<1>1. PICK o \in Nat : o = Len(g) - Len(r)
  BY <1>0
<1>2. Len(r) \in Nat /\ Len(g) \in Nat /\ Len(r) = Len(g) - o
  BY <1>1
<1>3. \A k \in 1 .. Len(r) : o + k \in 1 .. Len(g) /\ r[k] = g[o + k]
  BY <1>1, <1>2 DEF EndOf
<1>4. PICK c \in 0 .. Len(g) :
        /\ \A k \in 1 .. c : g[k] >= Window
        /\ \A k \in c + 1 .. Len(g) : g[k] < Window
        /\ Recent(g) = SubSeq(g, c + 1, Len(g))
  BY RecentIs
<1>5. PICK b \in 0 .. Len(r) : b = IF c > o THEN c - o ELSE 0
  <2>1. CASE c > o
    <3>1. c - o \in 0 .. Len(r)
      BY <1>2, <2>1
    <3> QED
      BY <2>1, <3>1
  <2>2. CASE ~(c > o)
    <3>1. 0 \in 0 .. Len(r)
      BY <1>2
    <3> QED
      BY <2>2, <3>1
  <2> QED
    BY <2>1, <2>2
<1>6. ASSUME NEW k \in 1 .. b PROVE r[k] >= Window
  <2>1. k \in 1 .. Len(r) /\ o + k \in 1 .. c
    BY <1>2, <1>4, <1>5
  <2> QED
    BY <1>3, <1>4, <2>1
<1>7. ASSUME NEW k \in b + 1 .. Len(r) PROVE r[k] < Window
  <2>1. k \in 1 .. Len(r) /\ o + k \in c + 1 .. Len(g)
    BY <1>2, <1>4, <1>5
  <2> QED
    BY <1>3, <1>4, <2>1
<1>8. Recent(r) = SubSeq(r, b + 1, Len(r))
  BY <1>5, <1>6, <1>7, Cut
<1>9. /\ Len(Recent(r)) = Len(r) - b /\ Len(Recent(g)) = Len(g) - c
      /\ \A k \in 1 .. Len(r) - b : Recent(r)[k] = r[b + k]
      /\ \A k \in 1 .. Len(g) - c : Recent(g)[k] = g[c + k]
  <2>1. /\ Len(Recent(r)) = Len(r) - b
        /\ \A k \in 1 .. Len(r) - b : Recent(r)[k] = r[b + k]
    BY <1>8, SubSeqFrom
  <2>2. /\ Len(Recent(g)) = Len(g) - c
        /\ \A k \in 1 .. Len(g) - c : Recent(g)[k] = g[c + k]
    BY <1>4, SubSeqFrom
  <2> QED
    BY <2>1, <2>2
<1>10. Len(r) - b <= Len(g) - c
  BY <1>2, <1>4, <1>5
<1>11. ASSUME NEW k \in 1 .. Len(r) - b
       PROVE  Recent(r)[k] = Recent(g)[(Len(g) - c) - (Len(r) - b) + k]
  <2>1. b + k \in 1 .. Len(r)
    BY <1>2, <1>5
  <2>2. (Len(g) - c) - (Len(r) - b) + k \in 1 .. Len(g) - c
    BY <1>2, <1>4, <1>5, <1>10
  <2>3. c + ((Len(g) - c) - (Len(r) - b) + k) = o + (b + k)
    BY <1>2, <1>4, <1>5
  <2>4. Recent(g)[(Len(g) - c) - (Len(r) - b) + k] = g[o + (b + k)]
    BY <1>9, <2>2, <2>3
  <2> QED
    BY <1>3, <1>9, <2>1, <2>4
<1> QED
  BY <1>9, <1>10, <1>11 DEF EndOf

LEMMA AgedEnds ==
  ASSUME NEW r \in Seq(Age), NEW g \in Seq(Age), EndOf(r, g)
  PROVE  EndOf(Aged(r), Aged(g))
<1>0. Len(g) - Len(r) \in Nat
  BY DEF EndOf
<1>1. PICK o \in Nat : o = Len(g) - Len(r)
  BY <1>0
<1>2. Len(r) \in Nat /\ Len(g) \in Nat /\ Len(r) = Len(g) - o
  BY <1>1
<1>3. \A k \in 1 .. Len(r) : o + k \in 1 .. Len(g) /\ r[k] = g[o + k]
  BY <1>1, <1>2 DEF EndOf
<1>4. /\ Len(Aged(r)) = Len(r) /\ Len(Aged(g)) = Len(g)
      /\ \A k \in 1 .. Len(r) : Aged(r)[k] = Older(r[k])
      /\ \A k \in 1 .. Len(g) : Aged(g)[k] = Older(g[k])
  BY AgedParts
<1>5. \A k \in 1 .. Len(r) : Aged(r)[k] = Aged(g)[o + k]
  BY <1>3, <1>4
<1> QED
  BY <1>1, <1>2, <1>4, <1>5 DEF EndOf

\* What has expired does not come back.
LEMMA AgedRecent ==
  ASSUME NEW s \in Seq(Age), Ordered(s)
  PROVE  Recent(Aged(s)) = Recent(Aged(Recent(s)))
<1>1. PICK c \in 0 .. Len(s) :
        /\ \A k \in 1 .. c : s[k] >= Window
        /\ Recent(s) = SubSeq(s, c + 1, Len(s))
  BY RecentIs
<1>2. Len(s) \in Nat /\ c \in Nat /\ c <= Len(s) /\ \A k \in 1 .. Len(s) : s[k] \in Age
  OBVIOUS
<1>3. /\ Recent(s) \in Seq(Age) /\ Len(Recent(s)) = Len(s) - c
      /\ \A k \in 1 .. Len(s) - c : Recent(s)[k] = s[c + k]
  BY <1>1, SubSeqFrom
<1>4. PICK x \in Seq(Age) : x = Aged(s)
  BY AgedParts
<1>5. Len(x) = Len(s) /\ Ordered(x) /\ \A k \in 1 .. Len(s) : x[k] = Older(s[k])
  BY <1>4, AgedParts
<1>6. PICK y \in Seq(Age) : y = Aged(Recent(s))
  BY <1>3, AgedParts
<1>7. Len(y) = Len(s) - c /\ \A k \in 1 .. Len(s) - c : y[k] = Older(Recent(s)[k])
  BY <1>3, <1>6, AgedParts
<1>8. ASSUME NEW k \in 1 .. Len(s) - c PROVE c + k \in 1 .. Len(s) /\ y[k] = x[c + k]
  <2>1. c + k \in 1 .. Len(s)
    BY <1>2
  <2> QED
    BY <1>3, <1>5, <1>7, <2>1
<1>9. PICK e \in 0 .. Len(x) :
        /\ \A k \in 1 .. e : x[k] >= Window
        /\ \A k \in e + 1 .. Len(x) : x[k] < Window
        /\ Recent(x) = SubSeq(x, e + 1, Len(x))
  BY <1>5, RecentIs
<1>10. \A a \in Age : a \in Int /\ Older(a) \in Int /\ (a >= Window => ~(Older(a) < Window))
  BY LimitAssumption DEF Age, Older
<1>11. e >= c
  <2>1. SUFFICES ASSUME e < c PROVE FALSE
    BY <1>2, <1>9
  <2>2. c \in 1 .. c /\ c \in 1 .. Len(s) /\ c \in e + 1 .. Len(x)
    BY <1>2, <1>5, <1>9, <2>1
  <2>3. s[c] >= Window /\ Older(s[c]) < Window
    BY <1>1, <1>5, <1>9, <2>2
  <2> QED
    BY <1>2, <1>10, <2>2, <2>3
<1>12. PICK d \in 0 .. Len(y) : d = e - c
  BY <1>2, <1>5, <1>7, <1>9, <1>11
<1>13. ASSUME NEW k \in 1 .. d PROVE y[k] >= Window
  <2>1. k \in 1 .. Len(s) - c /\ c + k \in 1 .. e
    BY <1>2, <1>7, <1>9, <1>12
  <2> QED
    BY <1>8, <1>9, <2>1
<1>14. ASSUME NEW k \in d + 1 .. Len(y) PROVE y[k] < Window
  <2>1. k \in 1 .. Len(s) - c /\ c + k \in e + 1 .. Len(x)
    BY <1>2, <1>5, <1>7, <1>9, <1>12
  <2> QED
    BY <1>8, <1>9, <2>1
<1>15. Recent(y) = SubSeq(y, d + 1, Len(y))
  BY <1>12, <1>13, <1>14, Cut
<1>16. /\ Recent(x) \in Seq(Age) /\ Len(Recent(x)) = Len(s) - e
       /\ \A k \in 1 .. Len(s) - e : Recent(x)[k] = x[e + k]
  BY <1>5, <1>9, SubSeqFrom, SMTT(60)
<1>17. /\ Recent(y) \in Seq(Age) /\ Len(Recent(y)) = Len(y) - d
       /\ \A k \in 1 .. Len(y) - d : Recent(y)[k] = y[d + k]
  BY <1>15, SubSeqFrom
<1>18. Len(y) - d = Len(s) - e
  BY <1>2, <1>5, <1>7, <1>9, <1>12
<1>19. ASSUME NEW k \in 1 .. Len(s) - e PROVE Recent(y)[k] = Recent(x)[k]
  <2>1. d + k \in 1 .. Len(s) - c /\ c + (d + k) = e + k
    BY <1>2, <1>5, <1>7, <1>9, <1>12
  <2>2. Recent(y)[k] = y[d + k] /\ Recent(x)[k] = x[e + k]
    BY <1>16, <1>17, <1>18
  <2>3. y[d + k] = x[c + (d + k)]
    BY <1>8, <2>1
  <2> QED
    BY <2>1, <2>2, <2>3
<1>20. Recent(x) = Recent(y)
  BY <1>16, <1>17, <1>18, <1>19, SameList
<1> QED
  BY <1>4, <1>6, <1>20

-----------------------------------------------------------------------------
(* Type correctness.                                                       *)

LEMMA RecentType ==
  ASSUME NEW s \in Seq(Age)
  PROVE  Recent(s) \in Seq(Age)
<1>1. Len(s) \in Nat /\ \A k \in 1 .. Len(s) : s[k] \in Age
  OBVIOUS
<1>2. Expired(s) \subseteq 1 .. Len(s)
  BY DEF Expired
<1>3. IsFiniteSet(1 .. Len(s)) /\ Cardinality(1 .. Len(s)) = Len(s)
  <2>1. PICK n \in Nat : n = Len(s)
    BY <1>1
  <2>2. IsFiniteSet(1 .. n) /\ Cardinality(1 .. n) = n
    BY FS_Interval
  <2> QED
    BY <2>1, <2>2
<1>4. Cardinality(Expired(s)) <= Len(s) /\ Cardinality(Expired(s)) \in Nat
  BY <1>2, <1>3, FS_Subset, FS_CardinalityType
<1> QED
  BY <1>1, <1>4 DEF Recent

LEMMA RecentEmpty == Recent(<<>>) = <<>>
<1>0. <<>> \in Seq(Age) /\ Len(<<>>) = 0
  OBVIOUS
<1>1. PICK s \in Seq(Age) : s = <<>> /\ Len(s) = 0
  BY <1>0
<1>2. \A k \in 1 .. Len(s) : s[k] < Window
  BY <1>1
<1>3. Recent(s) = s
  BY <1>2, RecentWhole
<1> QED
  BY <1>1, <1>3

LEMMA OlderType == \A a \in Age : Older(a) \in Age /\ a \in Int
BY LimitAssumption DEF Age, Older

TrackerOK(t) ==
    /\ t = [failures |-> t.failures, lastAccess |-> t.lastAccess]
    /\ IsMap(t.failures, Seq(Age)) /\ IsMap(t.lastAccess, Age)

LEMMA SetType ==
  ASSUME NEW S, NEW f, IsMap(f, S), NEW i \in IP, NEW v \in S
  PROVE  /\ IsMap(Set(f, i, v), S) /\ DOMAIN Set(f, i, v) = DOMAIN f \cup {i}
         /\ \A j \in DOMAIN f \cup {i} : Set(f, i, v)[j] = IF j = i THEN v ELSE f[j]
BY DEF IsMap, Set

LEMMA OnlyType ==
  ASSUME NEW S, NEW f, IsMap(f, S), NEW P
  PROVE  /\ IsMap(Only(f, P), S) /\ DOMAIN Only(f, P) = DOMAIN f \cap P
         /\ \A j \in DOMAIN f \cap P : Only(f, P)[j] = f[j]
BY DEF IsMap, Only

LEMMA FailuresType ==
  ASSUME NEW t, TrackerOK(t), NEW i
  PROVE  Failures(t, i) \in Seq(Age)
<1>1. <<>> \in Seq(Age)
  OBVIOUS
<1> QED
  BY <1>1 DEF TrackerOK, IsMap, Failures

LEMMA BoundType ==
  ASSUME NEW t, TrackerOK(t), NEW u \in Bound(t)
  PROVE  TrackerOK(u)
<1>1. CASE u = t
  BY <1>1
<1>2. CASE u \in Evict(t)
  <2> DEFINE fresh == {i \in DOMAIN t.failures : Recent(t.failures[i]) # <<>>}
  <2>1. PICK S : u = [failures   |-> [i \in fresh \cap S |-> Recent(t.failures[i])],
                      lastAccess |-> Only(t.lastAccess, S)]
    BY <1>2 DEF Evict
  <2>2. /\ u = [failures |-> u.failures, lastAccess |-> u.lastAccess]
        /\ u.failures = [i \in fresh \cap S |-> Recent(t.failures[i])]
        /\ u.lastAccess = Only(t.lastAccess, S)
    BY <2>1
  <2>3. \A i \in DOMAIN t.failures : Recent(t.failures[i]) \in Seq(Age)
    BY RecentType DEF TrackerOK, IsMap
  <2>4. IsMap(u.failures, Seq(Age))
    BY <2>2, <2>3 DEF TrackerOK, IsMap
  <2>5. IsMap(u.lastAccess, Age)
    <3>1. IsMap(t.lastAccess, Age)
      BY DEF TrackerOK
    <3>2. IsMap(Only(t.lastAccess, S), Age)
      BY <3>1, OnlyType
    <3> QED
      BY <2>2, <3>2
  <2> QED
    BY <2>2, <2>4, <2>5 DEF TrackerOK
<1> QED
  BY <1>1, <1>2 DEF Bound

LEMMA AskedType ==
  ASSUME NEW t, TrackerOK(t), NEW i \in IP, NEW u \in Asked(t, i)
  PROVE  TrackerOK(u)
<1>1. CASE limit # NaN /\ ~Limited
  BY <1>1 DEF Asked
<1>2. CASE ~(limit # NaN /\ ~Limited)
  <2>1. PICK list : list = Recent(Failures(t, i))
    OBVIOUS
  <2>2. list \in Seq(Age)
    BY <2>1, FailuresType, RecentType
  <2>3. PICK f : f = IF list = <<>> THEN Only(t.failures, IP \ {i}) ELSE Set(t.failures, i, list)
    OBVIOUS
  <2>4. IsMap(f, Seq(Age))
    BY <2>2, <2>3, OnlyType, SetType DEF TrackerOK
  <2>5. PICK v : v = [failures |-> f, lastAccess |-> Set(t.lastAccess, i, 0)]
    OBVIOUS
  <2>6. v.failures = f /\ v.lastAccess = Set(t.lastAccess, i, 0)
        /\ v = [failures |-> v.failures, lastAccess |-> v.lastAccess]
    BY <2>5
  <2>7. 0 \in Age
    BY LimitAssumption DEF Age
  <2>8. TrackerOK(v)
    <3>1. IsMap(t.lastAccess, Age)
      BY DEF TrackerOK
    <3>2. IsMap(Set(t.lastAccess, i, 0), Age)
      BY <2>7, <3>1, SetType
    <3> QED
      BY <2>4, <2>6, <3>2 DEF TrackerOK
  <2>9. u \in Bound(v)
    BY <1>2, <2>1, <2>3, <2>5 DEF Asked
  <2> QED
    BY <2>8, <2>9, BoundType
<1> QED
  BY <1>1, <1>2

\* The failure is written down.
Failed(t, i, list) ==
    [failures   |-> Set(t.failures, i, Append(list, 0)),
     lastAccess |-> Set(t.lastAccess, i, 0)]

LEMMA FailedType ==
  ASSUME NEW t, TrackerOK(t), NEW i \in IP, NEW list \in Seq(Age)
  PROVE  TrackerOK(Failed(t, i, list))
<1>1. 0 \in Age
  BY LimitAssumption DEF Age
<1>2. Append(list, 0) \in Seq(Age)
  BY <1>1
<1> QED
  BY <1>1, <1>2, SetType DEF TrackerOK, Failed

LEMMA RecordedType ==
  ASSUME NEW t, TrackerOK(t), NEW i \in IP, NEW u \in Recorded(t, i)
  PROVE  TrackerOK(u)
<1>1. u \in Bound(Failed(t, i, Failures(t, i)))
  BY DEF Recorded, Failed
<1> QED
  BY <1>1, FailuresType, FailedType, BoundType

LEMMA ResetType ==
  ASSUME NEW t, TrackerOK(t), NEW i
  PROVE  TrackerOK(Reset(t, i))
BY OnlyType DEF TrackerOK, Reset

\* The tracker, when time has passed.
Later(t) ==
    [failures   |-> [i \in DOMAIN t.failures |-> Aged(t.failures[i])],
     lastAccess |-> [i \in DOMAIN t.lastAccess |-> Older(t.lastAccess[i])]]

LEMMA LaterType ==
  ASSUME NEW t, TrackerOK(t)
  PROVE  TrackerOK(Later(t))
<1>1. \A i \in DOMAIN t.failures : Aged(t.failures[i]) \in Seq(Age)
  BY AgedParts DEF TrackerOK, IsMap
<1>2. \A i \in DOMAIN t.lastAccess : Older(t.lastAccess[i]) \in Age
  BY OlderType DEF TrackerOK, IsMap
<1> QED
  BY <1>1, <1>2 DEF TrackerOK, IsMap, Later

LEMMA LatestType ==
  ASSUME NEW s \in Seq(Age), limit \in Int \cup {NaN}
  PROVE  Latest(s) \in Seq(Age)
<1>1. <<>> \in Seq(Age)
  OBVIOUS
<1>2. CASE Limited /\ Len(s) > limit
  <2>1. limit \in Nat /\ Len(s) - limit + 1 \in 1 .. Len(s) /\ Len(s) \in Nat
    BY <1>2 DEF Limited
  <2>2. SubSeq(s, Len(s) - limit + 1, Len(s)) \in Seq(Age)
    BY <2>1
  <2> QED
    BY <1>2, <2>2 DEF Latest
<1> QED
  BY <1>1, <1>2 DEF Latest

-----------------------------------------------------------------------------
(* The tracker and the failures that it should remember.                   *)

\* What the tracker t holds for an address with failures g, under the limit l.
HoldsFor(t, i, g, l) ==
    /\ Len(Failures(t, i)) <= l /\ Ordered(Failures(t, i))
    /\ Len(g) <= l /\ Ordered(g) /\ \A k \in 1 .. Len(g) : g[k] < Window
    /\ EndOf(Recent(Failures(t, i)), g)

\* What the tracker t holds, when g and h are what it should know.
Holds(t, g, h, l) ==
    /\ TrackerOK(t) /\ g \in [IP -> Seq(Age)] /\ h \in [IP -> Age]
    /\ l \in Nat \ {0}
    /\ DOMAIN t.failures = DOMAIN t.lastAccess /\ IsFiniteSet(DOMAIN t.failures)
    /\ \A i \in IP : HoldsFor(t, i, g[i], l)
    /\ \A i \in DOMAIN t.lastAccess : t.lastAccess[i] = h[i]
    /\ IsFiniteSet({i \in IP : g[i] # <<>>})

Lost(t, g) == {i \in IP : Recent(Failures(t, i)) # g[i]}

LEMMA EmptyList ==
    /\ <<>> \in Seq(Age) /\ Len(<<>>) = 0 /\ Ordered(<<>>)
    /\ \A k \in 1 .. Len(<<>>) : <<>>[k] < Window
    /\ \A g \in Seq(Age) : EndOf(<<>>, g)
BY DEF Ordered, EndOf

\* A new failure is the latest.
LEMMA AppendOrdered ==
  ASSUME NEW s \in Seq(Age), Ordered(s)
  PROVE  /\ Append(s, 0) \in Seq(Age) /\ Len(Append(s, 0)) = Len(s) + 1 /\ Len(s) \in Nat
         /\ Append(s, 0)[Len(s) + 1] = 0
         /\ \A k \in 1 .. Len(s) : Append(s, 0)[k] = s[k]
         /\ Ordered(Append(s, 0))
<1>1. 0 \in Age
  BY LimitAssumption DEF Age
<1>2. /\ Append(s, 0) \in Seq(Age) /\ Len(Append(s, 0)) = Len(s) + 1 /\ Len(s) \in Nat
      /\ Append(s, 0)[Len(s) + 1] = 0
      /\ \A k \in 1 .. Len(s) : Append(s, 0)[k] = s[k] /\ s[k] \in Age
  BY <1>1
<1>3. PICK x \in Seq(Age) : x = Append(s, 0)
  BY <1>2
<1>4. \A a \in Age : a \in Int /\ a >= 0 /\ a >= a
  BY LimitAssumption DEF Age
<1>5. ASSUME NEW a \in 1 .. Len(x), NEW b \in 1 .. Len(x), a <= b
      PROVE  x[a] >= x[b]
  <2>1. CASE b = Len(s) + 1
    <3>1. x[b] = 0 /\ x[a] \in Age
      BY <1>2, <1>3, <2>1
    <3> QED
      BY <1>4, <3>1
  <2>2. CASE b # Len(s) + 1
    <3>1. a \in 1 .. Len(s) /\ b \in 1 .. Len(s)
      BY <1>2, <1>3, <1>5, <2>2
    <3>2. s[a] >= s[b]
      BY <1>5, <3>1 DEF Ordered
    <3> QED
      BY <1>2, <1>3, <3>1, <3>2
  <2> QED
    BY <2>1, <2>2
<1>6. Ordered(x)
  BY <1>5 DEF Ordered
<1> QED
  BY <1>2, <1>3, <1>6

\* The latest failures of a list to which one has been added: r, the end of g
\* that the tracker holds, is not cut.
LEMMA LatestEnds ==
  ASSUME NEW g \in Seq(Age), NEW r \in Seq(Age), Ordered(g), Ordered(r), EndOf(r, g),
         Limited, limit \in Nat \ {0}, Len(g) <= limit, Len(r) < limit,
         \A k \in 1 .. Len(g) : g[k] < Window
  PROVE  /\ Latest(Append(g, 0)) \in Seq(Age) /\ Ordered(Latest(Append(g, 0)))
         /\ Len(Latest(Append(g, 0))) <= limit /\ Latest(Append(g, 0)) # <<>>
         /\ \A k \in 1 .. Len(Latest(Append(g, 0))) : Latest(Append(g, 0))[k] < Window
         /\ EndOf(Append(r, 0), Latest(Append(g, 0)))
         /\ r = g => Latest(Append(g, 0)) = Append(r, 0)
<1>1. PICK x \in Seq(Age) : x = Append(g, 0)
  BY AppendOrdered
<1>2. /\ Len(x) = Len(g) + 1 /\ Len(g) \in Nat /\ x[Len(g) + 1] = 0 /\ Ordered(x)
      /\ \A k \in 1 .. Len(g) : x[k] = g[k]
  BY <1>1, AppendOrdered
<1>3. PICK y \in Seq(Age) : y = Append(r, 0)
  BY AppendOrdered
<1>4. /\ Len(y) = Len(r) + 1 /\ Len(r) \in Nat /\ y[Len(r) + 1] = 0
      /\ \A k \in 1 .. Len(r) : y[k] = r[k]
  BY <1>3, AppendOrdered
<1>5. ASSUME NEW k \in 1 .. Len(x) PROVE x[k] < Window
  <2>1. CASE k = Len(g) + 1
    BY <1>2, <2>1, LimitAssumption
  <2>2. CASE k # Len(g) + 1
    <3>1. k \in 1 .. Len(g)
      BY <1>2, <2>2
    <3> QED
      BY <1>2, <3>1
  <2> QED
    BY <2>1, <2>2
<1>6. Len(r) <= Len(g) /\ \A k \in 1 .. Len(r) : r[k] = g[Len(g) - Len(r) + k]
  BY DEF EndOf
<1>7. ASSUME NEW k \in 1 .. Len(y) PROVE y[k] = x[Len(x) - Len(y) + k]
  <2>1. CASE k = Len(r) + 1
    <3>1. Len(x) - Len(y) + k = Len(g) + 1
      BY <1>2, <1>4, <2>1
    <3> QED
      BY <1>2, <1>4, <2>1, <3>1
  <2>2. CASE k # Len(r) + 1
    <3>1. k \in 1 .. Len(r)
      BY <1>4, <2>2
    <3>2. Len(x) - Len(y) + k = Len(g) - Len(r) + k /\ Len(g) - Len(r) + k \in 1 .. Len(g)
      BY <1>2, <1>4, <1>6, <3>1
    <3> QED
      BY <1>2, <1>4, <1>6, <3>1, <3>2
  <2> QED
    BY <2>1, <2>2
<1>8. CASE Len(x) <= limit
  <2>1. Latest(x) = x
    BY <1>2, <1>8 DEF Latest
  <2>2. EndOf(y, x) /\ x # <<>>
    BY <1>2, <1>4, <1>6, <1>7 DEF EndOf
  <2> QED
    BY <1>1, <1>2, <1>3, <1>5, <1>8, <2>1, <2>2
<1>9. CASE Len(x) > limit
  <2>1. Len(x) = limit + 1 /\ limit \in Nat
    BY <1>2, <1>9
  <2>2. Latest(x) = SubSeq(x, 2, Len(x))
    <3>1. Len(x) - limit + 1 = 2
      BY <2>1
    <3> QED
      BY <1>9, <3>1 DEF Latest
  <2>3. PICK z \in Seq(Age) : z = Latest(x)
    <3>1. SubSeq(x, 2, Len(x)) \in Seq(Age)
      BY <1>2
    <3> QED
      BY <2>2, <3>1
  <2>4. Len(z) = limit /\ \A k \in 1 .. limit : z[k] = x[k + 1] /\ k + 1 \in 1 .. Len(x)
    BY <1>2, <2>1, <2>2, <2>3
  <2>5. Ordered(z) /\ \A k \in 1 .. limit : z[k] < Window
    <3>1. ASSUME NEW a \in 1 .. Len(z), NEW b \in 1 .. Len(z), a <= b
          PROVE  z[a] >= z[b]
      <4>1. a + 1 \in 1 .. Len(x) /\ b + 1 \in 1 .. Len(x) /\ a + 1 <= b + 1
        BY <2>1, <2>4, <3>1
      <4> QED
        BY <1>2, <2>4, <4>1 DEF Ordered
    <3>2. Ordered(z)
      BY <3>1 DEF Ordered
    <3> QED
      BY <1>5, <2>4, <3>2
  <2>6. ASSUME NEW k \in 1 .. Len(y) PROVE y[k] = z[Len(z) - Len(y) + k]
    <3>1. /\ Len(z) - Len(y) + k \in 1 .. limit
          /\ (Len(z) - Len(y) + k) + 1 = Len(x) - Len(y) + k
      BY <1>4, <2>1, <2>4
    <3> QED
      BY <1>7, <2>4, <3>1
  <2>7. EndOf(y, z) /\ z # <<>>
    BY <1>4, <2>1, <2>4, <2>6 DEF EndOf
  <2>8. r # g
    BY <1>2, <2>1
  <2> QED
    BY <1>1, <1>3, <2>3, <2>4, <2>5, <2>7, <2>8, <2>1
<1> QED
  BY <1>2, <1>8, <1>9

-----------------------------------------------------------------------------
(* What the methods of the tracker keep of this.                           *)

\* The failures of another address are not touched.
LEMMA FailuresSet ==
  ASSUME NEW t, TrackerOK(t), NEW i \in IP, NEW v \in Seq(Age), NEW u,
         u.failures = Set(t.failures, i, v)
  PROVE  \A j \in IP : Failures(u, j) = IF j = i THEN v ELSE Failures(t, j)
<1>1. /\ DOMAIN u.failures = DOMAIN t.failures \cup {i}
      /\ \A j \in DOMAIN t.failures \cup {i} : u.failures[j] = IF j = i THEN v ELSE t.failures[j]
  <2>1. /\ DOMAIN Set(t.failures, i, v) = DOMAIN t.failures \cup {i}
        /\ \A j \in DOMAIN t.failures \cup {i} :
              Set(t.failures, i, v)[j] = IF j = i THEN v ELSE t.failures[j]
    BY DEF Set
  <2> QED
    BY <2>1
<1> QED
  BY <1>1 DEF Failures

LEMMA FailuresOnly ==
  ASSUME NEW t, TrackerOK(t), NEW P, NEW u, u.failures = Only(t.failures, P)
  PROVE  \A j \in IP : Failures(u, j) = IF j \in P THEN Failures(t, j) ELSE <<>>
<1>1. /\ DOMAIN u.failures = DOMAIN t.failures \cap P
      /\ \A j \in DOMAIN t.failures \cap P : u.failures[j] = t.failures[j]
  <2>1. /\ DOMAIN Only(t.failures, P) = DOMAIN t.failures \cap P
        /\ \A j \in DOMAIN t.failures \cap P : Only(t.failures, P)[j] = t.failures[j]
    BY DEF Only
  <2> QED
    BY <2>1
<1> QED
  BY <1>1 DEF Failures

\* With a limit set, isRateLimited only cleans up, for it makes nothing longer.
LEMMA AskedLimited ==
  ASSUME NEW t, TrackerOK(t), NEW i \in IP, Limited,
         IsFiniteSet(DOMAIN t.failures), Cardinality(DOMAIN t.failures) <= MaxIPs,
         NEW u \in Asked(t, i)
  PROVE  LET list == Recent(Failures(t, i))
         IN  \/ /\ list = <<>> /\ Failures(u, i) = <<>>
                /\ u = [failures   |-> Only(t.failures, IP \ {i}),
                        lastAccess |-> Set(t.lastAccess, i, 0)]
             \/ /\ list # <<>> /\ Failures(u, i) = list
                /\ u = [failures   |-> Set(t.failures, i, list),
                        lastAccess |-> Set(t.lastAccess, i, 0)]
<1>1. PICK list \in Seq(Age) : list = Recent(Failures(t, i))
  BY FailuresType, RecentType
<1>2. PICK f : f = IF list = <<>> THEN Only(t.failures, IP \ {i}) ELSE Set(t.failures, i, list)
  OBVIOUS
<1>3. PICK v : v = [failures |-> f, lastAccess |-> Set(t.lastAccess, i, 0)]
  OBVIOUS
<1>4. u \in Bound(v)
  BY <1>1, <1>2, <1>3 DEF Asked
<1>6. list # <<>> => i \in DOMAIN t.failures
  BY <1>1, RecentEmpty DEF Failures
<1>7. DOMAIN f \subseteq DOMAIN t.failures
  <2>1. DOMAIN Only(t.failures, IP \ {i}) \subseteq DOMAIN t.failures
    BY DEF Only
  <2>2. DOMAIN Set(t.failures, i, list) = DOMAIN t.failures \cup {i}
    BY DEF Set
  <2> QED
    BY <1>2, <1>6, <2>1, <2>2
<1>8. Cardinality(DOMAIN f) <= Cardinality(DOMAIN t.failures)
      /\ Cardinality(DOMAIN f) \in Nat /\ Cardinality(DOMAIN t.failures) \in Nat
  BY <1>7, FS_Subset, FS_CardinalityType
<1>9. v.failures = f
  BY <1>3
<1>10. ~(Cardinality(DOMAIN v.failures) > MaxIPs)
  BY <1>8, <1>9, LimitAssumption
<1>11. u = v
  BY <1>4, <1>10 DEF Bound
<1>12. CASE list = <<>>
  <2>1. Failures(v, i) = <<>>
    BY <1>2, <1>9, <1>12, FailuresOnly
  <2> QED
    BY <1>1, <1>2, <1>3, <1>11, <1>12, <2>1
<1>13. CASE list # <<>>
  <2>1. Failures(v, i) = list
    BY <1>2, <1>9, <1>13, FailuresSet
  <2> QED
    BY <1>1, <1>2, <1>3, <1>11, <1>13, <2>1
<1> QED
  BY <1>12, <1>13

LEMMA SetTwice ==
  ASSUME NEW f, NEW i, NEW v, NEW w
  PROVE  Set(Set(f, i, v), i, w) = Set(f, i, w)
<1>1. DOMAIN Set(f, i, v) = DOMAIN f \cup {i}
      /\ \A j \in DOMAIN f \cup {i} : j # i => Set(f, i, v)[j] = f[j]
  BY DEF Set
<1>2. PICK g : g = Set(f, i, v)
  OBVIOUS
<1>3. Set(g, i, w) = [j \in DOMAIN f \cup {i} |-> IF j = i THEN w ELSE g[j]]
  BY <1>1, <1>2 DEF Set
<1>4. Set(g, i, w) = [j \in DOMAIN f \cup {i} |-> IF j = i THEN w ELSE f[j]]
  BY <1>1, <1>2, <1>3
<1> QED
  BY <1>2, <1>4 DEF Set

LEMMA SetWithout ==
  ASSUME NEW f, DOMAIN f \subseteq IP, NEW i \in IP, NEW w
  PROVE  Set(Only(f, IP \ {i}), i, w) = Set(f, i, w)
<1>1. DOMAIN Only(f, IP \ {i}) = DOMAIN f \ {i}
      /\ \A j \in DOMAIN f \ {i} : Only(f, IP \ {i})[j] = f[j]
  BY DEF Only
<1>2. PICK g : g = Only(f, IP \ {i})
  OBVIOUS
<1>3. (DOMAIN f \ {i}) \cup {i} = DOMAIN f \cup {i}
  OBVIOUS
<1>4. Set(g, i, w) = [j \in DOMAIN f \cup {i} |-> IF j = i THEN w ELSE g[j]]
  BY <1>1, <1>2, <1>3 DEF Set
<1>5. Set(g, i, w) = [j \in DOMAIN f \cup {i} |-> IF j = i THEN w ELSE f[j]]
  BY <1>1, <1>2, <1>4
<1> QED
  BY <1>2, <1>5 DEF Set

\* isRateLimited and recordFailure, one after the other.
LEMMA RecordedLimited ==
  ASSUME NEW t, TrackerOK(t), NEW i \in IP, Limited,
         IsFiniteSet(DOMAIN t.failures), Cardinality(DOMAIN t.failures) <= MaxIPs,
         NEW u \in Asked(t, i)
  PROVE  Recorded(u, i) = Bound(Failed(t, i, Recent(Failures(t, i))))
<1>1. PICK list : list = Recent(Failures(t, i))
  OBVIOUS
<1>2. Failures(u, i) = list /\ u.lastAccess = Set(t.lastAccess, i, 0)
      /\ \/ u.failures = Only(t.failures, IP \ {i})
         \/ u.failures = Set(t.failures, i, list)
  <2>1. \/ /\ list = <<>> /\ Failures(u, i) = <<>>
           /\ u = [failures   |-> Only(t.failures, IP \ {i}),
                   lastAccess |-> Set(t.lastAccess, i, 0)]
        \/ /\ list # <<>> /\ Failures(u, i) = list
           /\ u = [failures   |-> Set(t.failures, i, list),
                   lastAccess |-> Set(t.lastAccess, i, 0)]
    BY <1>1, AskedLimited, Zenon
  <2> QED
    BY <2>1
<1>3. DOMAIN t.failures \subseteq IP
  BY DEF TrackerOK, IsMap
<1>4. Set(u.failures, i, Append(list, 0)) = Set(t.failures, i, Append(list, 0))
  BY <1>2, <1>3, SetTwice, SetWithout
<1>5. Set(u.lastAccess, i, 0) = Set(t.lastAccess, i, 0)
  BY <1>2, SetTwice
<1> QED
  BY <1>1, <1>2, <1>4, <1>5 DEF Recorded, Failed

\* A failure that is counted: nothing that should be remembered is lost by it.
LEMMA FailedHolds ==
  ASSUME NEW t, NEW g, NEW h, Holds(t, g, h, limit), NEW i \in IP, Limited,
         Len(Recent(Failures(t, i))) < limit
  PROVE  LET u  == Failed(t, i, Recent(Failures(t, i)))
             gg == [g EXCEPT ![i] = Latest(Append(@, 0))]
         IN  /\ Holds(u, gg, [h EXCEPT ![i] = 0], limit)
             /\ Lost(u, gg) \subseteq Lost(t, g)
<1>1. PICK r \in Seq(Age) : r = Recent(Failures(t, i))
  BY FailuresType, RecentType DEF Holds
<1>2. PICK u : u = Failed(t, i, r)
  OBVIOUS
<1>3. PICK gg : gg = [g EXCEPT ![i] = Latest(Append(g[i], 0))]
  OBVIOUS
<1>4. PICK hh : hh = [h EXCEPT ![i] = 0]
  OBVIOUS
<1>5. /\ TrackerOK(t) /\ g \in [IP -> Seq(Age)] /\ h \in [IP -> Age] /\ limit \in Nat \ {0}
      /\ DOMAIN t.failures = DOMAIN t.lastAccess /\ IsFiniteSet(DOMAIN t.failures)
      /\ \A j \in IP : HoldsFor(t, j, g[j], limit)
      /\ \A j \in DOMAIN t.lastAccess : t.lastAccess[j] = h[j]
      /\ IsFiniteSet({j \in IP : g[j] # <<>>})
  BY DEF Holds
<1>6. /\ g[i] \in Seq(Age) /\ Len(g[i]) <= limit /\ Ordered(g[i])
      /\ \A k \in 1 .. Len(g[i]) : g[i][k] < Window
      /\ EndOf(r, g[i])
  BY <1>1, <1>5 DEF HoldsFor
<1>7. Failures(t, i) \in Seq(Age) /\ Ordered(Failures(t, i))
  BY <1>5, FailuresType DEF HoldsFor
<1>8. Ordered(r) /\ \A k \in 1 .. Len(r) : r[k] < Window
  BY <1>1, <1>7, RecentParts
<1>9. PICK x \in Seq(Age) : x = Append(r, 0)
  BY <1>8, AppendOrdered
<1>10. /\ Ordered(x) /\ Len(x) = Len(r) + 1 /\ x[Len(r) + 1] = 0 /\ Len(r) \in Nat
       /\ \A k \in 1 .. Len(r) : x[k] = r[k]
  BY <1>8, <1>9, AppendOrdered
<1>11. /\ gg[i] \in Seq(Age) /\ Ordered(gg[i]) /\ Len(gg[i]) <= limit /\ gg[i] # <<>>
       /\ \A k \in 1 .. Len(gg[i]) : gg[i][k] < Window
       /\ EndOf(x, gg[i])
       /\ r = g[i] => gg[i] = x
  <2>1. gg[i] = Latest(Append(g[i], 0))
    BY <1>3, <1>5
  <2>2. /\ Latest(Append(g[i], 0)) \in Seq(Age) /\ Ordered(Latest(Append(g[i], 0)))
        /\ Len(Latest(Append(g[i], 0))) <= limit /\ Latest(Append(g[i], 0)) # <<>>
        /\ \A k \in 1 .. Len(Latest(Append(g[i], 0))) : Latest(Append(g[i], 0))[k] < Window
        /\ EndOf(Append(r, 0), Latest(Append(g[i], 0)))
        /\ r = g[i] => Latest(Append(g[i], 0)) = Append(r, 0)
    BY <1>1, <1>5, <1>6, <1>8, LatestEnds
  <2> QED
    BY <1>9, <2>1, <2>2
<1>12. \A k \in 1 .. Len(x) : x[k] < Window
  <2>1. SUFFICES ASSUME NEW k \in 1 .. Len(x) PROVE x[k] < Window
    OBVIOUS
  <2>2. CASE k = Len(r) + 1
    BY <1>10, <2>2, LimitAssumption
  <2>3. CASE k # Len(r) + 1
    <3>1. k \in 1 .. Len(r)
      BY <1>10, <2>3
    <3> QED
      BY <1>8, <1>10, <3>1
  <2> QED
    BY <2>2, <2>3
<1>13. Recent(x) = x
  BY <1>12, RecentWhole
<1>14. u.failures = Set(t.failures, i, x) /\ u.lastAccess = Set(t.lastAccess, i, 0)
  BY <1>2, <1>9 DEF Failed
<1>15. \A j \in IP : Failures(u, j) = IF j = i THEN x ELSE Failures(t, j)
  BY <1>5, <1>14, FailuresSet
<1>16. TrackerOK(u)
  BY <1>2, <1>5, FailedType
<1>17. /\ DOMAIN u.failures = DOMAIN t.failures \cup {i}
       /\ DOMAIN u.lastAccess = DOMAIN t.lastAccess \cup {i}
       /\ \A j \in DOMAIN u.lastAccess : u.lastAccess[j] = IF j = i THEN 0 ELSE t.lastAccess[j]
  BY <1>14 DEF Set
<1>18. DOMAIN u.failures = DOMAIN u.lastAccess /\ IsFiniteSet(DOMAIN u.failures)
  <2>1. IsFiniteSet(DOMAIN t.failures \cup {i})
    BY <1>5, FS_AddElement
  <2> QED
    BY <1>5, <1>17, <2>1
<1>19. gg \in [IP -> Seq(Age)] /\ \A j \in IP : j # i => gg[j] = g[j]
  BY <1>3, <1>5, <1>11
<1>20. hh \in [IP -> Age] /\ \A j \in IP : hh[j] = IF j = i THEN 0 ELSE h[j]
  <2>1. 0 \in Age
    BY LimitAssumption DEF Age
  <2> QED
    BY <1>4, <1>5, <2>1
<1>21. ASSUME NEW j \in IP PROVE HoldsFor(u, j, gg[j], limit)
  <2>1. CASE j = i
    <3>1. Len(x) <= limit
      BY <1>1, <1>5, <1>10
    <3>2. Failures(u, j) = x /\ Recent(Failures(u, j)) = x
      BY <1>13, <1>15, <2>1
    <3> QED
      BY <1>10, <1>11, <2>1, <3>1, <3>2 DEF HoldsFor
  <2>2. CASE j # i
    BY <1>5, <1>15, <1>19, <2>2 DEF HoldsFor
  <2> QED
    BY <2>1, <2>2
<1>22. \A j \in DOMAIN u.lastAccess : u.lastAccess[j] = hh[j]
  <2>1. DOMAIN u.lastAccess \subseteq IP
    BY <1>16 DEF TrackerOK, IsMap
  <2> QED
    BY <1>5, <1>17, <1>20, <2>1
<1>23. IsFiniteSet({j \in IP : gg[j] # <<>>})
  <2>1. {j \in IP : gg[j] # <<>>} \subseteq {j \in IP : g[j] # <<>>} \cup {i}
    BY <1>19
  <2> QED
    BY <1>5, <2>1, FS_AddElement, FS_Subset
<1>24. Holds(u, gg, hh, limit)
  BY <1>5, <1>16, <1>18, <1>19, <1>20, <1>21, <1>22, <1>23 DEF Holds
<1>25. Lost(u, gg) \subseteq Lost(t, g)
  <2>1. SUFFICES ASSUME NEW j \in IP, Recent(Failures(u, j)) # gg[j]
                 PROVE  Recent(Failures(t, j)) # g[j]
    BY DEF Lost
  <2>2. CASE j = i
    BY <1>1, <1>11, <1>13, <1>15, <2>1, <2>2
  <2>3. CASE j # i
    BY <1>15, <1>19, <2>1, <2>3
  <2> QED
    BY <2>2, <2>3
<1> QED
  BY <1>1, <1>2, <1>3, <1>4, <1>24, <1>25

\* The number of addresses is looked at: what goes are failures that have
\* expired and, if too many addresses are left, those heard of longest ago.
LEMMA BoundHolds ==
  ASSUME NEW t, NEW g, NEW h, NEW l, Holds(t, g, h, l), NEW u \in Bound(t)
  PROVE  /\ Holds(u, g, h, l) /\ Cardinality(DOMAIN u.failures) <= MaxIPs
         /\ \A i \in Lost(u, g) \ Lost(t, g) :
               /\ Cardinality({j \in IP : g[j] # <<>>}) > MaxIPs
               /\ \A j \in DOMAIN u.failures : h[i] >= h[j]
<1> DEFINE Given == {j \in IP : g[j] # <<>>}
<1>1. /\ TrackerOK(t) /\ g \in [IP -> Seq(Age)] /\ h \in [IP -> Age] /\ l \in Nat \ {0}
      /\ DOMAIN t.failures = DOMAIN t.lastAccess /\ IsFiniteSet(DOMAIN t.failures)
      /\ \A j \in IP : HoldsFor(t, j, g[j], l)
      /\ \A j \in DOMAIN t.lastAccess : t.lastAccess[j] = h[j]
      /\ IsFiniteSet(Given)
  BY DEF Holds
<1>2. CASE u = t /\ ~(Cardinality(DOMAIN t.failures) > MaxIPs)
  <2>1. Cardinality(DOMAIN u.failures) <= MaxIPs
    BY <1>1, <1>2, FS_CardinalityType, LimitAssumption
  <2> QED
    BY <1>2, <2>1
<1>3. CASE u \in Evict(t)
  <2>1. PICK fresh : fresh = {j \in DOMAIN t.failures : Recent(t.failures[j]) # <<>>}
    OBVIOUS
  <2>2. DOMAIN t.lastAccess \ (DOMAIN t.failures \ fresh) = fresh
    BY <1>1, <2>1
  <2>3. PICK S \in SUBSET fresh :
          /\ \A i \in fresh \ S, j \in S : t.lastAccess[i] >= t.lastAccess[j]
          /\ IF Cardinality(fresh) <= MaxIPs
             THEN S = fresh
             ELSE Cardinality(S \cap fresh) = MaxIPs
          /\ u = [failures   |-> [i \in fresh \cap S |-> Recent(t.failures[i])],
                  lastAccess |-> Only(t.lastAccess, S)]
    BY <1>3, <2>1, <2>2 DEF Evict
  <2>4. fresh \cap S = S /\ S \cap fresh = S
    OBVIOUS
  <2>5. u.failures = [i \in S |-> Recent(t.failures[i])] /\ u.lastAccess = Only(t.lastAccess, S)
    BY <2>3, <2>4
  <2>6. DOMAIN t.failures \subseteq IP /\ \A j \in DOMAIN t.failures : Failures(t, j) = t.failures[j]
    BY <1>1 DEF TrackerOK, IsMap, Failures
  <2>7. /\ DOMAIN u.failures = S /\ DOMAIN u.lastAccess = S
        /\ \A j \in S : u.lastAccess[j] = t.lastAccess[j]
    BY <1>1, <2>1, <2>5 DEF Only
  <2>8. \A j \in IP : Failures(u, j) = IF j \in S THEN Recent(Failures(t, j)) ELSE <<>>
    BY <2>1, <2>5, <2>6, <2>7 DEF Failures
  <2>9. ASSUME NEW j \in IP
        PROVE  /\ Recent(Failures(t, j)) \in Seq(Age) /\ Ordered(Recent(Failures(t, j)))
               /\ Len(Recent(Failures(t, j))) <= l
               /\ Recent(Recent(Failures(t, j))) = Recent(Failures(t, j))
               /\ j \notin fresh => Recent(Failures(t, j)) = <<>>
    <3>1. PICK s \in Seq(Age) : s = Failures(t, j)
      BY <1>1, FailuresType
    <3>2. Ordered(s) /\ Len(s) <= l /\ Len(s) \in Nat
      BY <1>1, <3>1 DEF HoldsFor
    <3>3. PICK r \in Seq(Age) : r = Recent(s)
      BY RecentType
    <3>4. Ordered(r) /\ EndOf(r, s) /\ Len(r) \in Nat /\ \A k \in 1 .. Len(r) : r[k] < Window
      BY <3>2, <3>3, RecentParts
    <3>5. Len(r) <= l /\ Recent(r) = r
      BY <1>1, <3>2, <3>4, RecentWhole DEF EndOf
    <3>6. j \notin fresh => r = <<>>
      BY <2>1, <2>6, <3>1, <3>3, RecentEmpty DEF Failures
    <3> QED
      BY <3>1, <3>3, <3>4, <3>5, <3>6
  <2>10. TrackerOK(u)
    BY <1>1, BoundType
  <2>11. IsFiniteSet(fresh) /\ IsFiniteSet(S) /\ Cardinality(fresh) \in Nat
    BY <1>1, <2>1, FS_Subset, FS_CardinalityType
  <2>12. ASSUME NEW j \in IP PROVE HoldsFor(u, j, g[j], l)
    <3>1. /\ Len(g[j]) <= l /\ Ordered(g[j]) /\ \A k \in 1 .. Len(g[j]) : g[j][k] < Window
          /\ EndOf(Recent(Failures(t, j)), g[j])
      BY <1>1 DEF HoldsFor
    <3>2. CASE j \in S
      <4>1. Failures(u, j) = Recent(Failures(t, j)) /\ Recent(Failures(u, j)) = Failures(u, j)
        BY <2>8, <2>9, <3>2
      <4> QED
        BY <2>9, <3>1, <4>1 DEF HoldsFor
    <3>3. CASE j \notin S
      <4>1. Failures(u, j) = <<>> /\ Recent(Failures(u, j)) = <<>>
        BY <2>8, <3>3, RecentEmpty
      <4>2. g[j] \in Seq(Age) /\ Len(<<>>) <= l
        BY <1>1, EmptyList
      <4> QED
        BY <3>1, <4>1, <4>2, EmptyList DEF HoldsFor
    <3> QED
      BY <3>2, <3>3
  <2>13. Holds(u, g, h, l)
    <3>1. \A j \in DOMAIN u.lastAccess : u.lastAccess[j] = h[j]
      BY <1>1, <2>1, <2>7
    <3> QED
      BY <1>1, <2>7, <2>10, <2>11, <2>12, <3>1 DEF Holds
  <2>14. Cardinality(DOMAIN u.failures) <= MaxIPs
    BY <2>3, <2>4, <2>7, <2>11, LimitAssumption
  <2>15. ASSUME NEW i \in Lost(u, g) \ Lost(t, g)
         PROVE  /\ Cardinality(Given) > MaxIPs
                /\ \A j \in DOMAIN u.failures : h[i] >= h[j]
    <3>1. i \in IP /\ Recent(Failures(u, i)) # Recent(Failures(t, i))
      BY DEF Lost
    <3>2. i \notin S
      BY <2>8, <2>9, <3>1
    <3>3. i \in fresh
      BY <2>8, <2>9, <3>1, <3>2, RecentEmpty
    <3>4. ~(Cardinality(fresh) <= MaxIPs)
      BY <2>3, <3>2, <3>3
    <3>5. fresh \subseteq Given
      <4>1. SUFFICES ASSUME NEW j \in fresh PROVE j \in Given
        OBVIOUS
      <4>2. /\ j \in IP /\ Recent(Failures(t, j)) # <<>> /\ Recent(Failures(t, j)) \in Seq(Age)
            /\ EndOf(Recent(Failures(t, j)), g[j]) /\ g[j] \in Seq(Age)
        BY <1>1, <2>1, <2>6, <2>9 DEF HoldsFor
      <4> QED
        BY <4>2 DEF EndOf
    <3>6. Cardinality(fresh) <= Cardinality(Given) /\ Cardinality(Given) \in Nat
      BY <1>1, <3>5, FS_Subset, FS_CardinalityType
    <3>7. Cardinality(Given) > MaxIPs
      BY <2>11, <3>4, <3>6, LimitAssumption
    <3>8. ASSUME NEW j \in DOMAIN u.failures PROVE h[i] >= h[j]
      <4>1. i \in fresh \ S /\ j \in S
        BY <2>7, <3>2, <3>3
      <4>2. t.lastAccess[i] >= t.lastAccess[j]
        BY <2>3, <4>1
      <4>3. t.lastAccess[i] = h[i] /\ t.lastAccess[j] = h[j]
        BY <1>1, <2>1, <4>1
      <4> QED
        BY <4>2, <4>3
    <3> QED
      BY <3>7, <3>8
  <2> QED
    BY <2>13, <2>14, <2>15
<1> QED
  BY <1>2, <1>3 DEF Bound

\* An attempt of an address that is locked out changes nothing that matters.
LEMMA LockedHolds ==
  ASSUME NEW t, NEW g, NEW h, Holds(t, g, h, limit), NEW i \in IP, Limited,
         Cardinality(DOMAIN t.failures) <= MaxIPs, Len(Recent(Failures(t, i))) >= limit,
         NEW u \in Asked(t, i)
  PROVE  /\ Holds(u, g, [h EXCEPT ![i] = 0], limit)
         /\ Cardinality(DOMAIN u.failures) <= MaxIPs /\ Lost(u, g) \subseteq Lost(t, g)
<1>1. /\ TrackerOK(t) /\ g \in [IP -> Seq(Age)] /\ h \in [IP -> Age] /\ limit \in Nat \ {0}
      /\ DOMAIN t.failures = DOMAIN t.lastAccess /\ IsFiniteSet(DOMAIN t.failures)
      /\ \A j \in IP : HoldsFor(t, j, g[j], limit)
      /\ \A j \in DOMAIN t.lastAccess : t.lastAccess[j] = h[j]
      /\ IsFiniteSet({j \in IP : g[j] # <<>>})
  BY DEF Holds
<1>2. PICK s \in Seq(Age) : s = Failures(t, i)
  BY <1>1, FailuresType
<1>3. Ordered(s) /\ Len(s) <= limit /\ Len(s) \in Nat /\ EndOf(Recent(s), g[i])
  BY <1>1, <1>2 DEF HoldsFor
<1>4. PICK r \in Seq(Age) : r = Recent(s)
  BY RecentType
<1>5. Ordered(r) /\ EndOf(r, s) /\ Len(r) \in Nat /\ \A k \in 1 .. Len(r) : r[k] < Window
  BY <1>3, <1>4, RecentParts
<1>6. Len(r) <= limit /\ Recent(r) = r
  BY <1>1, <1>3, <1>5, RecentWhole DEF EndOf
<1>7. r # <<>>
  BY <1>1, <1>2, <1>4
<1>8. u = [failures   |-> Set(t.failures, i, r),
           lastAccess |-> Set(t.lastAccess, i, 0)]
  <2>1. \/ r = <<>>
        \/ u = [failures   |-> Set(t.failures, i, r),
                lastAccess |-> Set(t.lastAccess, i, 0)]
    BY <1>1, <1>2, <1>4, AskedLimited, Zenon
  <2> QED
    BY <1>7, <2>1
<1>9. u.failures = Set(t.failures, i, r) /\ u.lastAccess = Set(t.lastAccess, i, 0)
  BY <1>8
<1>10. \A j \in IP : Failures(u, j) = IF j = i THEN r ELSE Failures(t, j)
  BY <1>1, <1>9, FailuresSet
<1>11. i \in DOMAIN t.failures
  BY <1>2, <1>4, <1>7, RecentEmpty DEF Failures
<1>12. /\ DOMAIN u.failures = DOMAIN t.failures /\ DOMAIN u.lastAccess = DOMAIN t.lastAccess
       /\ \A j \in DOMAIN u.lastAccess : u.lastAccess[j] = IF j = i THEN 0 ELSE t.lastAccess[j]
  BY <1>1, <1>9, <1>11 DEF Set
<1>13. TrackerOK(u)
  BY <1>1, AskedType
<1>14. PICK hh : hh = [h EXCEPT ![i] = 0]
  OBVIOUS
<1>15. hh \in [IP -> Age] /\ \A j \in IP : hh[j] = IF j = i THEN 0 ELSE h[j]
  <2>1. 0 \in Age
    BY LimitAssumption DEF Age
  <2> QED
    BY <1>1, <1>14, <2>1
<1>16. ASSUME NEW j \in IP
       PROVE  HoldsFor(u, j, g[j], limit) /\ Recent(Failures(u, j)) = Recent(Failures(t, j))
  <2>1. HoldsFor(t, j, g[j], limit)
    BY <1>1
  <2>2. CASE j = i
    <3>1. Failures(u, j) = r /\ Recent(Failures(u, j)) = r /\ Recent(Failures(t, j)) = r
      BY <1>2, <1>4, <1>6, <1>10, <2>2
    <3> QED
      BY <1>5, <1>6, <2>1, <3>1 DEF HoldsFor
  <2>3. CASE j # i
    BY <1>10, <2>1, <2>3 DEF HoldsFor
  <2> QED
    BY <2>2, <2>3
<1>17. \A j \in DOMAIN u.lastAccess : u.lastAccess[j] = hh[j]
  <2>1. DOMAIN u.lastAccess \subseteq IP
    BY <1>13 DEF TrackerOK, IsMap
  <2> QED
    BY <1>1, <1>12, <1>15, <2>1
<1>18. Holds(u, g, hh, limit)
  BY <1>1, <1>12, <1>13, <1>15, <1>16, <1>17 DEF Holds
<1>19. Lost(u, g) \subseteq Lost(t, g)
  BY <1>16 DEF Lost
<1> QED
  BY <1>12, <1>14, <1>18, <1>19

\* A success forgets the failures of its address, and they no longer count.
LEMMA ResetHolds ==
  ASSUME NEW t, NEW g, NEW h, NEW l, Holds(t, g, h, l), NEW i \in IP,
         Cardinality(DOMAIN t.failures) <= MaxIPs
  PROVE  LET gg == [g EXCEPT ![i] = <<>>]
         IN  /\ Holds(Reset(t, i), gg, h, l)
             /\ Cardinality(DOMAIN Reset(t, i).failures) <= MaxIPs
             /\ Lost(Reset(t, i), gg) \subseteq Lost(t, g)
<1>1. /\ TrackerOK(t) /\ g \in [IP -> Seq(Age)] /\ h \in [IP -> Age] /\ l \in Nat \ {0}
      /\ DOMAIN t.failures = DOMAIN t.lastAccess /\ IsFiniteSet(DOMAIN t.failures)
      /\ \A j \in IP : HoldsFor(t, j, g[j], l)
      /\ \A j \in DOMAIN t.lastAccess : t.lastAccess[j] = h[j]
      /\ IsFiniteSet({j \in IP : g[j] # <<>>})
  BY DEF Holds
<1>2. PICK u : u = Reset(t, i)
  OBVIOUS
<1>3. u.failures = Only(t.failures, IP \ {i}) /\ u.lastAccess = Only(t.lastAccess, IP \ {i})
  BY <1>2 DEF Reset
<1>4. /\ DOMAIN u.failures = DOMAIN t.failures \cap (IP \ {i})
      /\ DOMAIN u.lastAccess = DOMAIN t.lastAccess \cap (IP \ {i})
      /\ \A j \in DOMAIN u.lastAccess : u.lastAccess[j] = t.lastAccess[j]
  BY <1>3 DEF Only
<1>5. TrackerOK(u)
  BY <1>1, <1>2, ResetType
<1>6. \A j \in IP : Failures(u, j) = IF j = i THEN <<>> ELSE Failures(t, j)
  <2>1. PICK P : P = IP \ {i}
    OBVIOUS
  <2>0. u.failures = Only(t.failures, P) /\ TrackerOK(t)
    BY <1>1, <1>3, <2>1
  <2>2. \A j \in IP : Failures(u, j) = IF j \in P THEN Failures(t, j) ELSE <<>>
    BY <2>0, FailuresOnly
  <2> QED
    BY <2>1, <2>2
<1>7. PICK gg : gg = [g EXCEPT ![i] = <<>>]
  OBVIOUS
<1>8. gg \in [IP -> Seq(Age)] /\ \A j \in IP : gg[j] = IF j = i THEN <<>> ELSE g[j]
  BY <1>1, <1>7, EmptyList
<1>9. ASSUME NEW j \in IP PROVE HoldsFor(u, j, gg[j], l)
  <2>1. CASE j = i
    <3>1. Failures(u, j) = <<>> /\ gg[j] = <<>> /\ Recent(Failures(u, j)) = <<>>
      BY <1>6, <1>8, <2>1, RecentEmpty
    <3>2. Len(<<>>) <= l
      BY <1>1, EmptyList
    <3> QED
      BY <3>1, <3>2, EmptyList DEF HoldsFor
  <2>2. CASE j # i
    BY <1>1, <1>6, <1>8, <2>2 DEF HoldsFor
  <2> QED
    BY <2>1, <2>2
<1>10. IsFiniteSet({j \in IP : gg[j] # <<>>})
  <2>1. {j \in IP : gg[j] # <<>>} \subseteq {j \in IP : g[j] # <<>>}
    BY <1>8
  <2> QED
    BY <1>1, <2>1, FS_Subset
<1>11. /\ IsFiniteSet(DOMAIN u.failures)
       /\ Cardinality(DOMAIN u.failures) <= Cardinality(DOMAIN t.failures)
       /\ Cardinality(DOMAIN u.failures) \in Nat /\ Cardinality(DOMAIN t.failures) \in Nat
  <2>1. DOMAIN u.failures \subseteq DOMAIN t.failures
    BY <1>4
  <2> QED
    BY <1>1, <2>1, FS_Subset, FS_CardinalityType
<1>12. \A j \in DOMAIN u.lastAccess : u.lastAccess[j] = h[j]
  BY <1>1, <1>4
<1>13. DOMAIN u.failures = DOMAIN u.lastAccess
  BY <1>1, <1>4
<1>14. Holds(u, gg, h, l)
  BY <1>1, <1>5, <1>8, <1>9, <1>10, <1>11, <1>12, <1>13 DEF Holds
<1>15. Lost(u, gg) \subseteq Lost(t, g)
  <2>1. ASSUME NEW j \in IP, Recent(Failures(u, j)) # gg[j]
        PROVE  Recent(Failures(t, j)) # g[j]
    <3>1. j # i
      BY <1>6, <1>8, <2>1, RecentEmpty
    <3> QED
      BY <1>6, <1>8, <2>1, <3>1
  <2> QED
    BY <2>1 DEF Lost
<1>16. Cardinality(DOMAIN u.failures) <= MaxIPs
  BY <1>11, LimitAssumption
<1> QED
  BY <1>2, <1>7, <1>14, <1>15, <1>16

\* As time passes, the same failures expire in the tracker and in g.
LEMMA LaterHolds ==
  ASSUME NEW t, NEW g, NEW h, NEW l, Holds(t, g, h, l)
  PROVE  LET gg == [i \in IP |-> Recent(Aged(g[i]))]
         IN  /\ Holds(Later(t), gg, [i \in IP |-> Older(h[i])], l)
             /\ DOMAIN Later(t).failures = DOMAIN t.failures
             /\ Lost(Later(t), gg) \subseteq Lost(t, g)
<1>1. /\ TrackerOK(t) /\ g \in [IP -> Seq(Age)] /\ h \in [IP -> Age] /\ l \in Nat \ {0}
      /\ DOMAIN t.failures = DOMAIN t.lastAccess /\ IsFiniteSet(DOMAIN t.failures)
      /\ \A j \in IP : HoldsFor(t, j, g[j], l)
      /\ \A j \in DOMAIN t.lastAccess : t.lastAccess[j] = h[j]
      /\ IsFiniteSet({j \in IP : g[j] # <<>>})
  BY DEF Holds
<1>2. PICK u : u = Later(t)
  OBVIOUS
<1>3. /\ DOMAIN u.failures = DOMAIN t.failures /\ DOMAIN u.lastAccess = DOMAIN t.lastAccess
      /\ \A j \in DOMAIN t.failures : u.failures[j] = Aged(t.failures[j])
      /\ \A j \in DOMAIN t.lastAccess : u.lastAccess[j] = Older(t.lastAccess[j])
  BY <1>2 DEF Later
<1>4. TrackerOK(u)
  BY <1>1, <1>2, LaterType
<1>5. Aged(<<>>) = <<>>
  <2>1. <<>> \in Seq(Age)
    BY EmptyList
  <2>2. PICK s \in Seq(Age) : s = <<>> /\ Len(s) = 0
    BY <2>1, EmptyList
  <2>3. Aged(s) \in Seq(Age) /\ Len(Aged(s)) = 0
    BY <2>2, AgedParts
  <2> QED
    BY <2>2, <2>3
<1>6. \A j \in IP : Failures(u, j) = Aged(Failures(t, j))
  BY <1>3, <1>5 DEF Failures
<1>7. PICK gg : gg = [i \in IP |-> Recent(Aged(g[i]))]
  OBVIOUS
<1>8. ASSUME NEW j \in IP
      PROVE  /\ gg[j] = Recent(Aged(g[j])) /\ gg[j] \in Seq(Age)
             /\ g[j] = <<>> => gg[j] = <<>>
             /\ HoldsFor(u, j, gg[j], l)
             /\ Recent(Failures(t, j)) = g[j] => Recent(Failures(u, j)) = gg[j]
  <2>1. PICK s \in Seq(Age) : s = Failures(t, j)
    BY <1>1, FailuresType
  <2>2. PICK x \in Seq(Age) : x = g[j]
    BY <1>1
  <2>3. /\ Ordered(s) /\ Len(s) <= l /\ Len(s) \in Nat
        /\ Ordered(x) /\ Len(x) <= l /\ Len(x) \in Nat
        /\ EndOf(Recent(s), x)
    BY <1>1, <2>1, <2>2 DEF HoldsFor
  <2>4. PICK r \in Seq(Age) : r = Recent(s)
    BY RecentType
  <2>5. PICK ss \in Seq(Age) : ss = Aged(s)
    BY AgedParts
  <2>6. PICK xx \in Seq(Age) : xx = Aged(x)
    BY AgedParts
  <2>7. PICK rr \in Seq(Age) : rr = Aged(r)
    BY AgedParts
  <2>8. Ordered(ss) /\ Len(ss) <= l /\ Ordered(xx) /\ Len(xx) <= l /\ Len(xx) \in Nat
    BY <2>3, <2>5, <2>6, AgedParts
  <2>9. EndOf(rr, xx)
    BY <2>3, <2>4, <2>6, <2>7, AgedEnds
  <2>10. Recent(ss) = Recent(rr)
    BY <2>3, <2>4, <2>5, <2>7, AgedRecent
  <2>11. EndOf(Recent(rr), Recent(xx))
    BY <2>8, <2>9, RecentEnds
  <2>12. PICK y \in Seq(Age) : y = Recent(xx)
    BY RecentType
  <2>13. Ordered(y) /\ EndOf(y, xx) /\ Len(y) \in Nat /\ \A k \in 1 .. Len(y) : y[k] < Window
    BY <2>8, <2>12, RecentParts
  <2>14. Len(y) <= l
    BY <1>1, <2>8, <2>13 DEF EndOf
  <2>15. gg[j] = y /\ gg[j] = Recent(Aged(g[j]))
    BY <1>7, <2>2, <2>6, <2>12
  <2>16. Failures(u, j) = ss
    BY <1>6, <2>1, <2>5
  <2>17. HoldsFor(u, j, gg[j], l)
    BY <2>8, <2>10, <2>11, <2>12, <2>13, <2>14, <2>15, <2>16 DEF HoldsFor
  <2>18. g[j] = <<>> => gg[j] = <<>>
    BY <1>5, <2>15, RecentEmpty
  <2>19. Recent(Failures(t, j)) = g[j] => Recent(Failures(u, j)) = gg[j]
    BY <2>1, <2>2, <2>4, <2>6, <2>7, <2>10, <2>12, <2>15, <2>16
  <2> QED
    BY <2>15, <2>17, <2>18, <2>19
<1>9. gg \in [IP -> Seq(Age)]
  BY <1>7, <1>8
<1>10. IsFiniteSet({j \in IP : gg[j] # <<>>})
  <2>1. {j \in IP : gg[j] # <<>>} \subseteq {j \in IP : g[j] # <<>>}
    BY <1>8
  <2> QED
    BY <1>1, <2>1, FS_Subset
<1>11. PICK hh : hh = [i \in IP |-> Older(h[i])]
  OBVIOUS
<1>12. hh \in [IP -> Age] /\ \A j \in IP : hh[j] = Older(h[j])
  BY <1>1, <1>11, OlderType
<1>13. \A j \in DOMAIN u.lastAccess : u.lastAccess[j] = hh[j]
  <2>1. DOMAIN t.lastAccess \subseteq IP
    BY <1>1 DEF TrackerOK, IsMap
  <2> QED
    BY <1>1, <1>3, <1>12, <2>1
<1>14. Holds(u, gg, hh, l)
  BY <1>1, <1>3, <1>4, <1>8, <1>9, <1>10, <1>12, <1>13 DEF Holds
<1>15. Lost(u, gg) \subseteq Lost(t, g)
  BY <1>8 DEF Lost
<1> QED
  BY <1>2, <1>3, <1>7, <1>11, <1>14, <1>15

-----------------------------------------------------------------------------
(* The theorems.                                                           *)

LEMMA InitType == AuthInit => AuthTypeOK
<1> SUFFICES ASSUME AuthInit PROVE AuthTypeOK
  OBVIOUS
<1>1. limit \in Int \cup {NaN}
  BY LimitAssumption DEF AuthInit, RateLimit, Setting, FromFile
<1>2. PICK e : e = <<>> /\ DOMAIN e = {}
  <2>1. DOMAIN <<>> = {}
    OBVIOUS
  <2> QED
    BY <2>1
<1>3. tracker.failures = e /\ tracker.lastAccess = e
      /\ tracker = [failures |-> tracker.failures, lastAccess |-> tracker.lastAccess]
  BY <1>2 DEF AuthInit
<1>4. ASSUME NEW S PROVE IsMap(e, S)
  <2>1. e = [x \in {} |-> x]
    BY <1>2
  <2>2. e \in [{} -> S]
    BY <2>1
  <2> QED
    BY <1>2, <2>2 DEF IsMap
<1>5. given \in [IP -> Seq(Age)]
  BY EmptyList DEF AuthInit
<1>6. heard \in [IP -> Age]
  BY LimitAssumption DEF AuthInit, Age
<1> QED
  BY <1>1, <1>3, <1>4, <1>5, <1>6 DEF AuthTypeOK, AuthInit

LEMMA NextType == AuthTypeOK /\ [AuthNext]_auth_vars => AuthTypeOK'
<1> SUFFICES ASSUME AuthTypeOK, [AuthNext]_auth_vars PROVE AuthTypeOK'
  OBVIOUS
<1>1. TrackerOK(tracker)
  BY DEF AuthTypeOK, TrackerOK
<1>2. 0 \in Age
  BY LimitAssumption DEF Age
<1>3. ASSUME TrackerOK(tracker'), limit' \in Int \cup {NaN},
             answer' \in {200, 401, 404, 405, 429, 0},
             given' \in [IP -> Seq(Age)], heard' \in [IP -> Age], lost' \subseteq IP
      PROVE  AuthTypeOK'
  BY <1>3 DEF AuthTypeOK, TrackerOK
<1>4. CASE UNCHANGED auth_vars
  BY <1>4 DEF auth_vars, AuthTypeOK
<1>5. CASE Tick
  <2>1. tracker' = Later(tracker)
    BY <1>5 DEF Tick, Later, Aged
  <2>2. TrackerOK(tracker')
    BY <1>1, <2>1, LaterType
  <2>3. \A i \in IP : Recent(Aged(given[i])) \in Seq(Age)
    BY AgedParts, RecentType DEF AuthTypeOK
  <2>4. given' \in [IP -> Seq(Age)]
    BY <1>5, <2>3 DEF Tick, Aged
  <2>5. heard' \in [IP -> Age]
    BY <1>5, OlderType DEF Tick, AuthTypeOK
  <2>6. lost' \subseteq IP
    BY <1>5 DEF Tick, Forgotten
  <2> QED
    BY <1>3, <1>5, <2>2, <2>4, <2>5, <2>6 DEF Tick, AuthTypeOK
<1>6. ASSUME NEW i \in IP, Health(i) PROVE AuthTypeOK'
  BY <1>6 DEF Health, AuthTypeOK
<1>7. ASSUME NEW i \in IP, Locked(i) PROVE AuthTypeOK'
  <2>1. TrackerOK(tracker')
    BY <1>1, <1>7, AskedType DEF Locked
  <2>2. heard' \in [IP -> Age]
    BY <1>2, <1>7 DEF Locked, AuthTypeOK
  <2>3. lost' \subseteq IP
    BY <1>7 DEF Locked, Forgotten
  <2> QED
    BY <1>3, <1>7, <2>1, <2>2, <2>3 DEF Locked, AuthTypeOK
<1>8. ASSUME NEW i \in IP, Unauthorized(i) PROVE AuthTypeOK'
  <2>1. TrackerOK(tracker')
    BY <1>1, <1>8, AskedType, RecordedType DEF Unauthorized
  <2>2. heard' \in [IP -> Age]
    BY <1>2, <1>8 DEF Unauthorized, AuthTypeOK
  <2>3. Append(given[i], 0) \in Seq(Age)
    BY <1>2 DEF AuthTypeOK
  <2>4. Latest(Append(given[i], 0)) \in Seq(Age)
    BY <2>3, LatestType DEF AuthTypeOK
  <2>5. given' \in [IP -> Seq(Age)]
    BY <1>8, <2>4 DEF Unauthorized, AuthTypeOK
  <2>6. lost' \subseteq IP
    BY <1>8 DEF Unauthorized, Forgotten
  <2> QED
    BY <1>3, <1>8, <2>1, <2>2, <2>5, <2>6 DEF Unauthorized, AuthTypeOK
<1>9. ASSUME NEW i \in IP, Authorized(i) PROVE AuthTypeOK'
  <2>1. TrackerOK(tracker')
    BY <1>1, <1>9, ResetType DEF Authorized
  <2>2. given' \in [IP -> Seq(Age)]
    BY <1>9, EmptyList DEF Authorized, AuthTypeOK
  <2>3. answer' \in {404, 0, 405}
    BY <1>9 DEF Authorized, Routed
  <2>4. lost' \subseteq IP
    BY <1>9 DEF Authorized, Forgotten
  <2> QED
    BY <1>3, <1>9, <2>1, <2>2, <2>3, <2>4 DEF Authorized, AuthTypeOK
<1> QED
  BY <1>4, <1>5, <1>6, <1>7, <1>8, <1>9 DEF AuthNext

\* What the steps keep: with a limit set, the tracker holds what it should but
\* for the failures of the addresses in lost.
AuthInv ==
    /\ AuthTypeOK
    /\ Limited =>
        /\ Holds(tracker, given, heard, limit)
        /\ Cardinality(DOMAIN tracker.failures) <= MaxIPs
        /\ lost = Lost(tracker, given)

ForgetsRightly ==
    \A i \in lost' \ lost :
        /\ Cardinality({j \in IP : given'[j] # <<>>}) > MaxIPs
        /\ \A j \in DOMAIN tracker'.failures : heard'[i] >= heard'[j]

LEMMA InitInv == AuthInit => AuthInv
<1> SUFFICES ASSUME AuthInit PROVE AuthInv
  OBVIOUS
<1>1. AuthTypeOK
  BY InitType
<1> SUFFICES ASSUME Limited
             PROVE  /\ Holds(tracker, given, heard, limit)
                    /\ Cardinality(DOMAIN tracker.failures) <= MaxIPs
                    /\ lost = Lost(tracker, given)
  BY <1>1 DEF AuthInv
<1>2. limit \in Nat \ {0}
  BY <1>1 DEF AuthTypeOK, Limited
<1>3. DOMAIN tracker.failures = {} /\ DOMAIN tracker.lastAccess = {}
  BY DEF AuthInit
<1>4. \A i \in IP : Failures(tracker, i) = <<>> /\ given[i] = <<>>
  BY <1>3 DEF AuthInit, Failures
<1>5. \A i \in IP : HoldsFor(tracker, i, given[i], limit)
  <2>0. Len(<<>>) <= limit
    BY <1>2, EmptyList
  <2>1. Len(<<>>) <= limit /\ EndOf(<<>>, <<>>)
    BY <2>0, EmptyList, Zenon
  <2> QED
    BY <1>4, <2>1, EmptyList, RecentEmpty DEF HoldsFor
<1>6. IsFiniteSet({}) /\ Cardinality({}) = 0
  BY FS_EmptySet
<1>7. {i \in IP : given[i] # <<>>} = {}
  BY <1>4
<1>8. TrackerOK(tracker)
  BY <1>1 DEF AuthTypeOK, TrackerOK
<1>9. Holds(tracker, given, heard, limit)
  <2>1. given \in [IP -> Seq(Age)] /\ heard \in [IP -> Age]
    BY <1>1 DEF AuthTypeOK
  <2>2. DOMAIN tracker.failures = DOMAIN tracker.lastAccess /\ IsFiniteSet(DOMAIN tracker.failures)
    BY <1>3, <1>6
  <2>3. \A i \in DOMAIN tracker.lastAccess : tracker.lastAccess[i] = heard[i]
    BY <1>3
  <2>4. IsFiniteSet({i \in IP : given[i] # <<>>})
    BY <1>6, <1>7
  <2> QED
    BY <1>2, <1>5, <1>8, <2>1, <2>2, <2>3, <2>4 DEF Holds
<1>10. Cardinality(DOMAIN tracker.failures) <= MaxIPs
  BY <1>3, <1>6, LimitAssumption
<1>11. lost = Lost(tracker, given)
  BY <1>4, RecentEmpty DEF AuthInit, Lost
<1> QED
  BY <1>9, <1>10, <1>11

LEMMA NextInv == AuthInv /\ [AuthNext]_auth_vars => AuthInv' /\ ForgetsRightly
<1> SUFFICES ASSUME AuthInv, [AuthNext]_auth_vars PROVE AuthInv' /\ ForgetsRightly
  OBVIOUS
<1>1. AuthTypeOK /\ AuthTypeOK'
  BY NextType DEF AuthInv
<1>2. limit' = limit /\ (Limited' <=> Limited)
  BY DEF AuthNext, Tick, Health, Locked, Unauthorized, Authorized, auth_vars, Limited
<1>3. CASE ~Limited
  <2>1. lost' \ lost = {}
    BY <1>3 DEF AuthNext, Tick, Health, Locked, Unauthorized, Authorized, auth_vars, Forgotten
  <2> QED
    BY <1>1, <1>2, <1>3, <2>1 DEF AuthInv, ForgetsRightly
<1>4. CASE Limited
  <2>1. /\ Holds(tracker, given, heard, limit)
        /\ Cardinality(DOMAIN tracker.failures) <= MaxIPs
        /\ lost = Lost(tracker, given) /\ limit \in Nat \ {0}
    BY <1>4 DEF AuthInv, Holds
  <2>2. TrackerOK(tracker) /\ IsFiniteSet(DOMAIN tracker.failures)
    BY <2>1 DEF Holds
  <2>3. Forgotten = Lost(tracker', given')
    BY <1>4 DEF Forgotten, Lost
  <2>4. ASSUME Holds(tracker', given', heard', limit),
               Cardinality(DOMAIN tracker'.failures) <= MaxIPs,
               lost' = Lost(tracker', given'), ForgetsRightly
        PROVE  AuthInv' /\ ForgetsRightly
    BY <1>1, <1>2, <2>4 DEF AuthInv
  <2>5. ASSUME lost' \subseteq lost PROVE ForgetsRightly
    BY <2>5 DEF ForgetsRightly
  <2>6. CASE UNCHANGED <<tracker, given, heard, lost>>
    BY <2>1, <2>4, <2>5, <2>6
  <2>7. CASE Tick
    <3>1. /\ tracker' = Later(tracker) /\ given' = [i \in IP |-> Recent(Aged(given[i]))]
          /\ heard' = [i \in IP |-> Older(heard[i])] /\ lost' = Lost(tracker', given')
      BY <2>3, <2>7 DEF Tick, Later, Aged
    <3>2. /\ Holds(tracker', given', heard', limit)
          /\ DOMAIN tracker'.failures = DOMAIN tracker.failures
          /\ Lost(tracker', given') \subseteq Lost(tracker, given)
      BY <2>1, <3>1, LaterHolds
    <3> QED
      BY <2>1, <2>4, <2>5, <3>1, <3>2
  <2>8. ASSUME NEW i \in IP, Health(i) PROVE AuthInv' /\ ForgetsRightly
    BY <2>6, <2>8 DEF Health
  <2>9. ASSUME NEW i \in IP, Locked(i) PROVE AuthInv' /\ ForgetsRightly
    <3>1. /\ tracker' \in Asked(tracker, i) /\ Len(Recent(Failures(tracker, i))) >= limit
          /\ heard' = [heard EXCEPT ![i] = 0] /\ given' = given
          /\ lost' = Lost(tracker', given')
      BY <2>3, <2>9 DEF Locked, IsRateLimited
    <3>2. /\ Holds(tracker', given, heard', limit)
          /\ Cardinality(DOMAIN tracker'.failures) <= MaxIPs
          /\ Lost(tracker', given) \subseteq Lost(tracker, given)
      BY <1>4, <2>1, <3>1, LockedHolds
    <3> QED
      BY <2>1, <2>4, <2>5, <3>1, <3>2
  <2>10. ASSUME NEW i \in IP, Unauthorized(i) PROVE AuthInv' /\ ForgetsRightly
    <3>1. /\ ~(Len(Recent(Failures(tracker, i))) >= limit)
          /\ heard' = [heard EXCEPT ![i] = 0]
          /\ given' = [given EXCEPT ![i] = Latest(Append(@, 0))]
          /\ lost' = Lost(tracker', given')
      BY <1>4, <2>3, <2>10 DEF Unauthorized, IsRateLimited
    <3>2. PICK t \in Asked(tracker, i) : tracker' \in Recorded(t, i)
      BY <2>10 DEF Unauthorized
    <3>3. PICK u : u = Failed(tracker, i, Recent(Failures(tracker, i)))
      OBVIOUS
    <3>4. tracker' \in Bound(u)
      BY <1>4, <2>1, <2>2, <3>2, <3>3, RecordedLimited
    <3>5. Len(Recent(Failures(tracker, i))) < limit
      <4>1. Recent(Failures(tracker, i)) \in Seq(Age)
        BY <2>2, FailuresType, RecentType
      <4> QED
        BY <2>1, <3>1, <4>1
    <3>6. Holds(u, given', heard', limit) /\ Lost(u, given') \subseteq Lost(tracker, given)
      BY <1>4, <2>1, <3>1, <3>3, <3>5, FailedHolds
    <3>7. /\ Holds(tracker', given', heard', limit)
          /\ Cardinality(DOMAIN tracker'.failures) <= MaxIPs
          /\ \A j \in Lost(tracker', given') \ Lost(u, given') :
                /\ Cardinality({k \in IP : given'[k] # <<>>}) > MaxIPs
                /\ \A k \in DOMAIN tracker'.failures : heard'[j] >= heard'[k]
      BY <3>4, <3>6, BoundHolds
    <3>8. ForgetsRightly
      BY <2>1, <3>1, <3>6, <3>7 DEF ForgetsRightly
    <3> QED
      BY <2>4, <3>1, <3>7, <3>8
  <2>11. ASSUME NEW i \in IP, Authorized(i) PROVE AuthInv' /\ ForgetsRightly
    <3>1. /\ tracker' = Reset(tracker, i) /\ given' = [given EXCEPT ![i] = <<>>]
          /\ heard' = heard /\ lost' = Lost(tracker', given')
      BY <2>3, <2>11 DEF Authorized
    <3>2. /\ Holds(tracker', given', heard', limit)
          /\ Cardinality(DOMAIN tracker'.failures) <= MaxIPs
          /\ Lost(tracker', given') \subseteq Lost(tracker, given)
      BY <2>1, <3>1, ResetHolds
    <3> QED
      BY <2>1, <2>4, <2>5, <3>1, <3>2
  <2> QED
    BY <2>6, <2>7, <2>8, <2>9, <2>10, <2>11 DEF AuthNext, auth_vars
<1> QED
  BY <1>3, <1>4

LEMMA AlwaysInv == AuthSpec => []AuthInv
<1> QED
  BY InitInv, NextInv, PTL DEF AuthSpec

\* With a limit set, whatever the requests and their order, the tracker holds
\* MaxIPs addresses at most, the same in both maps, and no more failures of each
\* than the limit (isRateLimited, recordFailure, resetFailures, evict).
THEOREM BoundedCorrect == AuthSpec => []Bounded
<1>1. AuthInv => Bounded
  <2> SUFFICES ASSUME AuthInv, Limited
               PROVE  /\ DOMAIN tracker.failures = DOMAIN tracker.lastAccess
                      /\ Cardinality(DOMAIN tracker.failures) <= MaxIPs
                      /\ \A i \in DOMAIN tracker.failures : Len(tracker.failures[i]) <= limit
    BY DEF Bounded
  <2>1. Holds(tracker, given, heard, limit) /\ Cardinality(DOMAIN tracker.failures) <= MaxIPs
    BY DEF AuthInv
  <2>2. DOMAIN tracker.failures \subseteq IP
    BY DEF AuthInv, AuthTypeOK, IsMap
  <2> QED
    BY <2>1, <2>2 DEF Holds, HoldsFor, Failures
<1> QED
  BY <1>1, AlwaysInv, PTL

\* Exactly those addresses are locked out that have failed Limit times within the
\* window since they last succeeded, but for those that the tracker forgot
\* (isRateLimited, recordFailure, resetFailures, evict).
THEOREM LockoutsCorrect == AuthSpec => []Lockouts
<1>1. AuthInv => Lockouts
  <2> SUFFICES ASSUME AuthInv PROVE Lockouts
    OBVIOUS
  <2>1. ASSUME NEW i \in IP, IsRateLimited(tracker, i) PROVE Len(given[i]) >= limit
    <3>1. /\ Len(Recent(Failures(tracker, i))) >= limit /\ TrackerOK(tracker)
          /\ EndOf(Recent(Failures(tracker, i)), given[i]) /\ given[i] \in Seq(Age)
          /\ limit \in Nat
      BY <2>1 DEF IsRateLimited, AuthInv, Holds, HoldsFor
    <3>2. Recent(Failures(tracker, i)) \in Seq(Age)
      BY <3>1, FailuresType, RecentType
    <3> QED
      BY <3>1, <3>2 DEF EndOf
  <2>2. ASSUME Limited, NEW i \in IP \ lost, Len(given[i]) >= limit
        PROVE  IsRateLimited(tracker, i)
    BY <2>2 DEF IsRateLimited, AuthInv, Lost
  <2> QED
    BY <2>1, <2>2 DEF Lockouts, NoFalseLockout, Enforced, AuthInv
<1> QED
  BY <1>1, AlwaysInv, PTL

\* A failure is forgotten before its time only when more addresses than MaxIPs
\* have failed within the window, and it is of an address heard of no later than
\* those that stay (evict).
THEOREM ForgetsOldestCorrect == AuthSpec => ForgetsOldest
<1>1. AuthInv /\ [AuthNext]_auth_vars => [ForgetsRightly]_auth_vars
  BY NextInv
<1> QED
  BY <1>1, AlwaysInv, PTL DEF AuthSpec, ForgetsOldest, ForgetsRightly

-----------------------------------------------------------------------------
(* The exchanges.                                                          *)

Entry == [level : {"debug", "info"}, status : Int]
Exchange == [status : Int, sent : Int, access : Seq(Entry), errors : Int]
ConnType ==
    [at : {"closed", "open", "reading", "working"}, gone : BOOLEAN, ex : Exchange]

\* The log has what the level l leaves of an exchange that is over.
Finished(ex, l) ==
    /\ 20 >= l => Len(ex.access) = 1 /\ ex.access[1].status = ex.status
    /\ ~(20 >= l) => ex.access = <<>>
    /\ ex.sent \in {0, 408, ex.status}

\* How far the exchange on the connection x is.
Stage(x, l) ==
    /\ x \in ConnType
    /\ x.at \in {"reading", "working"} => x.ex.sent = 0 /\ x.ex.access = <<>>
    /\ x.at \in {"closed", "open"} =>
        \/ x.ex.sent = 0 /\ x.ex.access = <<>>
        \/ Finished(x.ex, l)

FrontInv ==
    /\ level \in Int /\ conn \in [Conn -> ConnType]
    /\ \A c \in Conn : Stage(conn[c], level)
    /\ Graceful

LEMMA LevelsAre ==
    /\ DOMAIN Levels = {"debug", "info", "warn", "error"}
    /\ Levels["debug"] = 10 /\ Levels["info"] = 20 /\ Levels["warn"] = 30 /\ Levels["error"] = 40
BY DEF Levels

LEMMA ConnectionStage ==
  ASSUME NEW at \in {"closed", "open", "reading", "working"}, NEW l
  PROVE  Stage(Connection(at), l)
<1>1. <<>> \in Seq(Entry)
  OBVIOUS
<1> QED
  BY <1>1 DEF Stage, Connection, NoExchange, ConnType, Exchange

\* An exchange that ends is logged, once, with the status that was sent if any was.
LEMMA OverStage ==
  ASSUME NEW x \in ConnType, x.ex.sent = 0, x.ex.access = <<>>, NEW status \in Int,
         level \in Int
  PROVE  /\ Over(x, status) \in ConnType
         /\ Over(x, status).at = (IF x.gone THEN "closed" ELSE "open")
         /\ Finished(Over(x, status).ex, level)
<1>1. x.ex \in Exchange /\ x.gone \in BOOLEAN
  BY DEF ConnType
<1>2. PICK ex : ex = Captured(IF x.gone THEN x.ex ELSE [x.ex EXCEPT !.sent = status], status)
  OBVIOUS
<1>3. /\ ex \in Exchange /\ ex.status = status /\ ex.access = <<>>
      /\ ex.sent \in {0, status}
  <2>1. CASE x.gone
    <3>1. ex = [x.ex EXCEPT !.status = status]
      BY <1>2, <2>1 DEF Captured
    <3> QED
      BY <1>1, <3>1 DEF Exchange
  <2>2. CASE ~x.gone
    <3>1. ex = [[x.ex EXCEPT !.sent = status] EXCEPT !.status = status]
      BY <1>2, <2>2 DEF Captured
    <3> QED
      BY <1>1, <3>1 DEF Exchange
  <2> QED
    BY <2>1, <2>2
<1>4. /\ Logged(ex) \in Exchange /\ Finished(Logged(ex), level)
  <2>1. PICK name \in {"debug", "info"} :
          /\ name = IF Enabled("debug") THEN "debug" ELSE "info"
          /\ Logged(ex) = Entered(ex, name)
    BY DEF Logged
  <2>2. Enabled(name) <=> 20 >= level
    BY <2>1, LevelsAre DEF Enabled
  <2>3. PICK e \in Entry : e = [level |-> name, status |-> ex.status]
    <3>1. name \in {"debug", "info"} /\ ex.status \in Int
      BY <1>3
    <3>2. [level |-> name, status |-> ex.status] \in Entry
      BY <3>1 DEF Entry
    <3> QED
      BY <3>2
  <2>4. CASE 20 >= level
    <3>1. Logged(ex) = [ex EXCEPT !.access = Append(@, e)]
      BY <2>1, <2>2, <2>3, <2>4 DEF Entered
    <3>2. Append(<<>>, e) \in Seq(Entry) /\ Len(Append(<<>>, e)) = 1 /\ Append(<<>>, e)[1] = e
      OBVIOUS
    <3>3. Logged(ex).access = Append(<<>>, e) /\ Logged(ex) \in Exchange
          /\ Logged(ex).status = status /\ Logged(ex).sent = ex.sent
      BY <1>3, <3>1, <3>2 DEF Exchange
    <3>4. e.status = status
      BY <1>3, <2>3
    <3> QED
      BY <1>3, <2>4, <3>2, <3>3, <3>4 DEF Finished
  <2>5. CASE ~(20 >= level)
    <3>1. Logged(ex) = ex
      BY <2>1, <2>2, <2>5 DEF Entered
    <3> QED
      BY <1>3, <2>5, <3>1 DEF Finished
  <2> QED
    BY <2>4, <2>5
<1>5. Over(x, status) = [at |-> IF x.gone THEN "closed" ELSE "open", gone |-> FALSE, ex |-> Logged(ex)]
  BY <1>2 DEF Over
<1> QED
  BY <1>1, <1>4, <1>5 DEF ConnType

LEMMA FrontInitInv == FrontInit => FrontInv
<1> SUFFICES ASSUME FrontInit PROVE FrontInv
  OBVIOUS
<1>1. level \in Int
  <2>1. \A l \in LogLevels : LevelOf(l) \in Int
    BY LevelsAre DEF LevelOf
  <2> QED
    BY <2>1 DEF FrontInit
<1>2. \A c \in Conn : Stage(conn[c], level)
  BY ConnectionStage DEF FrontInit
<1>3. conn \in [Conn -> ConnType]
  BY <1>2 DEF FrontInit, Stage
<1>4. Graceful
  BY DEF FrontInit, Graceful
<1> QED
  BY <1>1, <1>2, <1>3, <1>4 DEF FrontInv

LEMMA FrontNextInv == FrontInv /\ [FrontNext]_<<auth_vars, front_vars>> => FrontInv'
<1> SUFFICES ASSUME FrontInv, [FrontNext]_<<auth_vars, front_vars>> PROVE FrontInv'
  OBVIOUS
<1>1. /\ level \in Int /\ conn \in [Conn -> ConnType]
      /\ \A c \in Conn : Stage(conn[c], level)
      /\ Graceful
  BY DEF FrontInv
<1>2. CASE UNCHANGED <<level, conn, proc>>
  BY <1>1, <1>2 DEF FrontInv, Graceful, Busy
<1>3. ASSUME NEW c \in Conn, NEW x, Stage(x, level), Ends(c, x), proc \in {"up", "closing"},
             UNCHANGED <<level, proc>>
      PROVE  FrontInv'
  <2>1. x \in ConnType
    BY <1>3 DEF Stage
  <2>2. /\ conn' \in [Conn -> ConnType]
        /\ \A d \in Conn : conn'[d] = IF d = c THEN x ELSE conn[d]
    BY <1>1, <1>3, <2>1 DEF Ends
  <2>3. Graceful'
    BY <1>3 DEF Graceful
  <2> QED
    BY <1>1, <1>3, <2>2, <2>3 DEF FrontInv
<1>4. ASSUME NEW x \in ConnType, x.ex.sent = 0, x.ex.access = <<>>, NEW status \in Int
      PROVE  Stage(Over(x, status), level) /\ Over(x, status) \in ConnType
             /\ Over(x, status).at \in {"closed", "open"}
             /\ Finished(Over(x, status).ex, level)
  BY <1>1, <1>4, OverStage DEF Stage
<1>5. \A c \in Conn : /\ conn[c] \in ConnType
                      /\ Busy(c) => conn[c].ex.sent = 0 /\ conn[c].ex.access = <<>>
  BY <1>1 DEF Stage, Busy
<1>6. ASSUME NEW c \in Conn, Busy(c)
      PROVE  \E x \in ConnType : /\ x = [conn[c] EXCEPT !.gone = TRUE]
                                 /\ x.ex.sent = 0 /\ x.ex.access = <<>>
  <2>1. PICK x : x = [conn[c] EXCEPT !.gone = TRUE]
    OBVIOUS
  <2>2. x \in ConnType /\ x.ex = conn[c].ex
    BY <1>5, <2>1 DEF ConnType
  <2>3. x.ex.sent = 0 /\ x.ex.access = <<>>
    BY <1>5, <1>6, <2>2
  <2> QED
    BY <2>1, <2>2, <2>3
<1>7. ASSUME NEW c \in Conn, Connect(c) PROVE FrontInv'
  BY <1>3, <1>7, ConnectionStage DEF Connect
<1>8. ASSUME NEW c \in Conn, NEW r \in Incoming, Comes(c, r) PROVE FrontInv'
  <2>1. proc \in {"up", "closing"} /\ UNCHANGED <<level, proc>>
    BY <1>8 DEF Comes
  <2>2. CASE answer' = 0
    <3>1. PICK at \in {"reading", "working"} : Ends(c, Connection(at))
      BY <1>8, <2>2 DEF Comes
    <3> QED
      BY <1>3, <2>1, <3>1, ConnectionStage
  <2>3. CASE answer' # 0
    <3>1. Ends(c, Over(Connection("working"), answer'))
      BY <1>8, <2>3 DEF Comes
    <3>2. answer' \in Int
      BY <1>8 DEF Comes, Health, Locked, Unauthorized, Authorized, Routed
    <3>3. /\ Connection("working") \in ConnType
          /\ Connection("working").ex.sent = 0 /\ Connection("working").ex.access = <<>>
      BY ConnectionStage DEF Stage, Connection, NoExchange
    <3>4. Stage(Over(Connection("working"), answer'), level)
      BY <1>4, <3>2, <3>3
    <3> QED
      BY <1>3, <2>1, <3>1, <3>4
  <2> QED
    BY <2>2, <2>3
<1>9. ASSUME NEW c \in Conn, Running(c) PROVE FrontInv'
  <2>1. proc \in {"up", "closing"} /\ Busy(c) /\ UNCHANGED <<level, proc>>
    BY <1>9 DEF Running, ReadBody, TooLarge, Answers, Throws, ReadTimeout, Busy
  <2>2. PICK gone \in ConnType : /\ gone = [conn[c] EXCEPT !.gone = TRUE]
                                 /\ gone.ex.sent = 0 /\ gone.ex.access = <<>>
    BY <1>6, <2>1
  <2>8. gone \in ConnType /\ gone.ex.sent = 0 /\ gone.ex.access = <<>>
    BY <2>2
  <2>3. CASE ReadBody(c)
    <3>1. PICK x : x = [conn[c] EXCEPT !.at = "working"]
      OBVIOUS
    <3>2. Stage(x, level)
      BY <1>5, <2>1, <3>1 DEF Stage, ConnType
    <3> QED
      BY <1>3, <2>1, <2>3, <3>1, <3>2 DEF ReadBody
  <2>4. CASE TooLarge(c)
    <3>1. PICK status \in {400, 413} : Ends(c, Over(gone, status))
      BY <2>2, <2>4 DEF TooLarge
    <3>2. Stage(Over(gone, status), level)
      BY <1>4, <2>8
    <3> QED
      BY <1>3, <2>1, <3>1, <3>2
  <2>5. CASE Answers(c)
    <3>1. PICK status \in {200, 412, 500} : Ends(c, Over(conn[c], status))
      BY <2>5 DEF Answers
    <3>2. Stage(Over(conn[c], status), level)
      BY <1>4, <1>5, <2>1
    <3> QED
      BY <1>3, <2>1, <3>1, <3>2
  <2>6. CASE Throws(c)
    <3>1. PICK x : x = [conn[c] EXCEPT !.ex.errors = @ + 1]
      OBVIOUS
    <3>2. x \in ConnType /\ x.ex.sent = 0 /\ x.ex.access = <<>>
      BY <1>5, <2>1, <3>1, SMTT(60) DEF ConnType, Exchange
    <3>3. Stage(Over(x, 500), level)
      BY <1>4, <3>2
    <3> QED
      BY <1>3, <2>1, <2>6, <3>1, <3>3 DEF Throws
  <2>7. CASE ReadTimeout(c)
    <3>1. PICK over : over = Over(gone, 400)
      OBVIOUS
    <3>2. PICK x : x = [over EXCEPT !.ex.sent = 408]
      OBVIOUS
    <3>3. Ends(c, x)
      BY <2>2, <2>7, <3>1, <3>2 DEF ReadTimeout
    <3>4. over \in ConnType /\ over.at \in {"closed", "open"} /\ Finished(over.ex, level)
      <4>1. /\ Over(gone, 400) \in ConnType /\ Over(gone, 400).at \in {"closed", "open"}
            /\ Finished(Over(gone, 400).ex, level)
        BY <1>4, <2>8
      <4> QED
        BY <3>1, <4>1
    <3>5. /\ x \in ConnType /\ x.at \in {"closed", "open"}
          /\ x.ex.sent = 408 /\ x.ex.access = over.ex.access /\ x.ex.status = over.ex.status
      <4>1. over.ex \in Exchange
        BY <3>4 DEF ConnType
      <4>2. PICK ex : ex = [over.ex EXCEPT !.sent = 408]
        OBVIOUS
      <4>3. /\ ex \in Exchange /\ ex.sent = 408
            /\ ex.access = over.ex.access /\ ex.status = over.ex.status
        BY <4>1, <4>2 DEF Exchange
      <4>4. x = [over EXCEPT !.ex = ex]
        BY <3>2, <4>2
      <4>5. x \in ConnType /\ x.at = over.at /\ x.ex = ex
        BY <3>4, <4>3, <4>4 DEF ConnType
      <4> QED
        BY <3>4, <4>3, <4>5
    <3>6. Stage(x, level)
      BY <3>4, <3>5 DEF Stage, Finished
    <3> QED
      BY <1>3, <2>1, <3>3, <3>6
  <2> QED
    BY <1>9, <2>3, <2>4, <2>5, <2>6, <2>7 DEF Running
<1>10. ASSUME NEW c \in Conn, Leaves(c) PROVE FrontInv'
  <2>1. proc \in {"up", "closing"} /\ UNCHANGED <<level, proc>>
    BY <1>10 DEF Leaves
  <2>2. CASE conn[c].at = "reading"
    <3>1. PICK gone \in ConnType : /\ gone = [conn[c] EXCEPT !.gone = TRUE]
                                   /\ gone.ex.sent = 0 /\ gone.ex.access = <<>>
      BY <1>6, <2>2 DEF Busy
    <3>2. Ends(c, Over(gone, 400))
      BY <1>10, <2>2, <3>1 DEF Leaves
    <3>3. Stage(Over(gone, 400), level)
      <4>1. gone \in ConnType /\ gone.ex.sent = 0 /\ gone.ex.access = <<>>
        BY <3>1
      <4> QED
        BY <1>4, <4>1
    <3> QED
      BY <1>3, <2>1, <3>2, <3>3
  <2>3. CASE conn[c].at = "working"
    <3>1. PICK gone \in ConnType : /\ gone = [conn[c] EXCEPT !.gone = TRUE]
                                   /\ gone.ex.sent = 0 /\ gone.ex.access = <<>>
      BY <1>6, <2>3 DEF Busy
    <3>2. Ends(c, gone)
      BY <1>10, <2>3, <3>1 DEF Leaves
    <3>3. gone.at = "working"
      BY <1>5, <2>3, <3>1 DEF ConnType
    <3>4. Stage(gone, level)
      BY <3>1, <3>3 DEF Stage
    <3> QED
      BY <1>3, <2>1, <3>2, <3>4
  <2>4. CASE conn[c].at = "open"
    <3>1. PICK x : x = [conn[c] EXCEPT !.at = "closed"]
      OBVIOUS
    <3>2. Ends(c, x)
      BY <1>10, <2>4, <3>1 DEF Leaves
    <3>3. Stage(x, level)
      BY <1>1, <1>5, <2>4, <3>1 DEF Stage, ConnType
    <3> QED
      BY <1>3, <2>1, <3>2, <3>3
  <2> QED
    BY <1>5, <1>10, <2>2, <2>3, <2>4 DEF Leaves, ConnType
<1>11. CASE Signal
  <2>1. proc' = "closing" /\ level' = level
    BY <1>11 DEF Signal
  <2>2. ASSUME NEW c \in Conn PROVE Stage(conn'[c], level)
    <3>1. conn'[c] = conn[c] \/ (conn[c].at = "open" /\ conn'[c] = [conn[c] EXCEPT !.at = "closed"])
      BY <1>11 DEF Signal
    <3>2. CASE conn[c].at = "open" /\ conn'[c] = [conn[c] EXCEPT !.at = "closed"]
      BY <1>1, <1>5, <3>2 DEF Stage, ConnType
    <3> QED
      BY <1>1, <3>1, <3>2
  <2>3. conn' \in [Conn -> ConnType]
    <3>1. CASE conn' = conn
      BY <1>1, <3>1
    <3>2. CASE conn' = [c \in Conn |-> IF conn[c].at = "open" THEN [conn[c] EXCEPT !.at = "closed"] ELSE conn[c]]
      BY <2>2, <3>2 DEF Stage
    <3> QED
      BY <1>11, <3>1, <3>2 DEF Signal
  <2> QED
    BY <1>1, <2>1, <2>2, <2>3 DEF FrontInv, Graceful
<1>12. CASE Closed
  BY <1>1, <1>5, <1>12 DEF Closed, NoneOpen, Alive, FrontInv, Graceful, Busy
<1>13. CASE ForcedExit
  BY <1>1, <1>13 DEF ForcedExit, FrontInv, Graceful
<1> QED
  BY <1>2, <1>7, <1>8, <1>9, <1>10, <1>11, <1>12, <1>13 DEF FrontNext, front_vars

\* Every exchange that is over has its one entry in the log, with the status
\* that the client was sent unless it got 408 or nothing, and a server that
\* stops in time breaks off no exchange that goes on (wrapResponse, logging,
\* handle, shutdown).
THEOREM ExchangesCorrect == FrontSpec => []Exchanges
<1>1. FrontInv => Exchanges
  <2> SUFFICES ASSUME FrontInv, NEW c \in Conn
               PROVE  LET ex == conn[c].ex
                          over == ~Busy(c) /\ (ex.sent # 0 \/ ex.access # <<>>)
                      IN /\ over /\ Enabled("info") => Len(ex.access) = 1
                         /\ ~over \/ ~Enabled("info") => ex.access = <<>>
                         /\ ex.access # <<>> /\ ex.sent \notin {0, 408} => ex.access[1].status = ex.sent
    BY DEF FrontInv, Exchanges, Accounted
  <2>1. PICK ex : ex = conn[c].ex
    OBVIOUS
  <2>2. Enabled("info") <=> 20 >= level
    BY LevelsAre DEF Enabled
  <2>3. \/ ex.sent = 0 /\ ex.access = <<>>
        \/ ~Busy(c) /\ Finished(ex, level)
    BY <2>1 DEF FrontInv, Stage, ConnType, Busy
  <2>4. /\ Finished(ex, level) /\ 20 >= level => ex.access # <<>>
    BY DEF Finished
  <2>5. /\ ~Busy(c) /\ (ex.sent # 0 \/ ex.access # <<>>) /\ Enabled("info") => Len(ex.access) = 1
        /\ ~(~Busy(c) /\ (ex.sent # 0 \/ ex.access # <<>>)) \/ ~Enabled("info") => ex.access = <<>>
        /\ ex.access # <<>> /\ ex.sent \notin {0, 408} => ex.access[1].status = ex.sent
    BY <2>2, <2>3, <2>4 DEF Finished
  <2> QED
    BY <2>1, <2>5
<1> QED
  BY <1>1, FrontInitInv, FrontNextInv, PTL DEF FrontSpec

\* The exchanges use the limit as AuthLimit has it: what is proved of that holds
\* of a server on which connections come and go and requests are under way.
THEOREM FrontLimits == FrontSpec => []Bounded /\ []Lockouts /\ ForgetsOldest
<1>1. FrontInit => AuthInit
  BY DEF FrontInit
<1>2. [FrontNext]_<<auth_vars, front_vars>> => [AuthNext]_auth_vars
  <2> SUFFICES ASSUME [FrontNext]_<<auth_vars, front_vars>> PROVE [AuthNext]_auth_vars
    OBVIOUS
  <2>1. ASSUME NEW c \in Conn, NEW r \in Incoming, Comes(c, r) PROVE AuthNext
    <3>1. ClientIP(r) \in IP
      BY DEF ClientIP, Incoming
    <3> QED
      BY <2>1, <3>1 DEF Comes, AuthNext
  <2> QED
    BY <2>1, ZenonT(60) DEF FrontNext, Connect, Running, ReadBody, TooLarge, Answers, Throws, ReadTimeout, Leaves,
                Signal, Closed, ForcedExit
<1>3. FrontSpec => AuthSpec
  BY <1>1, <1>2, PTL DEF FrontSpec, AuthSpec
<1> QED
  BY <1>3, BoundedCorrect, LockoutsCorrect, ForgetsOldestCorrect, PTL

================================================================================
