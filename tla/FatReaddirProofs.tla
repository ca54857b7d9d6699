-------------------------- MODULE FatReaddirProofs --------------------------
(***************************************************************************)
(* That a listing returns every entry of the first cluster that stays, and *)
(* once if no call resumed behind it (ListedOnce), for every size of       *)
(* clusters and entries, any number of clusters, names and entries in a    *)
(* call, whatever the bytes between the entries spell and whatever is      *)
(* added and removed between the calls.                                    *)
(***************************************************************************)
EXTENDS FatReaddir, FiniteSetTheorems, SequenceTheorems, TLAPS

-----------------------------------------------------------------------------
(* The inductive invariant *)

\* The name of a free slot.
NoName == ""

SlotNames == Names \cup {"", ".", ".."}

DirSlots == 0 .. PerCluster - 1

DirType == Seq([DirSlots -> SlotNames])

ListedNames == Names \cup {".", ".."} \cup Spelled

\* A directory of at least one cluster, and the state of a listing.
ReaddirType ==
    /\ dir \in DirType
    /\ Len(dir) >= 1
    /\ offset \in Nat
    /\ listed \in [ListedNames -> 0 .. 2]
    /\ done \in BOOLEAN

Clusters == 1 .. Len(dir)

\* No two slots s of clusters c have the same name.
Unique(d, C, S) ==
    \A k \in C, l \in C, t \in S, u \in S :
        d[k][t] = d[l][u] /\ d[k][t] # NoName => k = l /\ t = u

\* x is no name, or one that no slot has.
Fresh(x, d, C, S) == x = NoName \/ \A k \in C, t \in S : d[k][t] # x

\* A slot has the name x.
Present(x, d, C, S) == x # NoName /\ \E k \in C, t \in S : d[k][t] = x

\* A name is in one slot.
OneSlot == Unique(dir, Clusters, DirSlots)

\* What has been there all the time still is.
StayedThere == \A x \in stayed : Present(x, dir, Clusters, DirSlots)

\* In the first cluster calls resume where a slot begins.
Aligned == offset < BYTE_PER_CLUSTER => offset % DIR_ENTRY_SIZE = 0

\* A call has read the slot s of the first cluster.
Passed(s) == done \/ DIR_ENTRY_SIZE * s < offset

\* Of the names that stayed in the first cluster, the ones in front of the
\* offset have been returned; once, and the others not yet, if no call resumed
\* behind the first cluster.  When the listing has ended, all of them have.
ReturnedSoFar ==
    \A s \in DirSlots : dir[1][s] \in stayed =>
        /\ Passed(s) => listed[dir[1][s]] >= 1
        /\ NeverBehind => listed[dir[1][s]] = IF Passed(s) THEN 1 ELSE 0

\* What is no name comes from a second cluster only.
NothingForeign == NeverBehind => \A x \in Foreign : listed[x] = 0

ReaddirInv == ReaddirType /\ OneSlot /\ StayedThere /\ Aligned /\ ReturnedSoFar /\ NothingForeign

-----------------------------------------------------------------------------
(* Places of entries *)

\* Dividing.
LEMMA DivMod ==
  ASSUME NEW x \in Nat, NEW b \in Nat \ {0}
  PROVE  /\ x \div b \in Nat
         /\ x % b \in 0 .. b - 1
         /\ x = b * (x \div b) + (x % b)
  BY SMT

\* More slots have more bytes.
LEMMA TimesMonotone ==
  ASSUME NEW b \in Nat, NEW m \in Nat, NEW n \in Nat, m <= n
  PROVE  b * m <= b * n /\ b * m \in Nat /\ b * n \in Nat
  BY SMT

\* One more slot.
LEMMA TimesNext ==
  ASSUME NEW b \in Nat, NEW m \in Nat
  PROVE  b * (m + 1) = b * m + b /\ b * m \in Nat
  BY SMT

\* The order of the slots is the order of their first bytes.
LEMMA SlotOrder ==
  ASSUME NEW b \in Nat \ {0}, NEW m \in Nat, NEW n \in Nat
  PROVE  (m < n) <=> (b * m < b * n)
<1>1. b * m \in Nat /\ b * n \in Nat
  BY TimesNext
<1>2. ASSUME m < n PROVE b * m < b * n
  <2>1. b * (m + 1) <= b * n
    BY <1>2, TimesMonotone, m + 1 \in Nat, m + 1 <= n
  <2>2. b * (m + 1) = b * m + b
    BY TimesNext
  <2> QED
    BY <1>1, <2>1, <2>2
<1>3. ASSUME n <= m PROVE b * n <= b * m
  BY <1>3, TimesMonotone
<1> QED
  BY <1>1, <1>2, <1>3

\* A multiple is divided without remainder.
LEMMA DivTimes ==
  ASSUME NEW b \in Nat \ {0}, NEW m \in Nat
  PROVE  (b * m) \div b = m /\ (b * m) % b = 0
<1> DEFINE q == (b * m) \div b
           r == (b * m) % b
<1>1. b * m \in Nat
  BY TimesNext
<1>2. q \in Nat /\ r \in 0 .. b - 1 /\ b * m = b * q + r
  BY <1>1, DivMod
<1>3. b * (q + 1) = b * q + b /\ b * q \in Nat
  BY <1>2, TimesNext
<1> HIDE DEF q, r
<1>4. ~ (b * m < b * q) /\ b * m < b * (q + 1)
  BY <1>1, <1>2, <1>3
<1>5. ~ (m < q) /\ m < q + 1
  BY <1>2, <1>4, SlotOrder, q + 1 \in Nat
<1>6. m = q
  BY <1>2, <1>5
<1>7. r = 0
  BY <1>1, <1>2, <1>6
<1> QED
  BY <1>6, <1>7 DEF q, r

\* How many entries of e bytes begin within x bytes.
LEMMA Ceiling ==
  ASSUME NEW x \in Nat \ {0}, NEW e \in Nat \ {0}
  PROVE  LET f == (x + e - 1) \div e
         IN  f \in Nat \ {0} /\ e * f >= x /\ \A m \in Nat : m < f => e * m < x
<1> DEFINE y == x + e - 1
           f == y \div e
<1>1. y \in Nat /\ y >= e
  OBVIOUS
<1>2. f \in Nat /\ y % e \in 0 .. e - 1 /\ y = e * f + (y % e)
  BY <1>1, DivMod
<1>3. e * f \in Nat
  BY <1>2, TimesNext
<1>4. PICK r : r = y % e
  OBVIOUS
<1> HIDE DEF f
<1>5. f # 0
  <2>1. e * 0 = 0
    OBVIOUS
  <2>2. SUFFICES ASSUME f = 0 PROVE FALSE
    OBVIOUS
  <2> QED
    BY <1>1, <1>2, <1>4, <2>1, <2>2
<1>6. e * f >= x
  BY <1>2, <1>3, <1>4
<1>7. ASSUME NEW m \in Nat, m < f PROVE e * m < x
  <2>1. e * (m + 1) <= e * f
    BY <1>2, <1>7, TimesMonotone, m + 1 \in Nat, m + 1 <= f
  <2>2. e * (m + 1) = e * m + e /\ e * m \in Nat
    BY TimesNext
  <2> QED
    BY <1>2, <1>3, <1>4, <2>1, <2>2
<1> QED
  BY <1>2, <1>5, <1>6, <1>7 DEF f

\* A cluster is larger than an entry.
LEMMA Sizes ==
  /\ DIR_ENTRY_SIZE \in Nat \ {0}
  /\ BYTE_PER_CLUSTER \in Nat \ {0}
  /\ DIR_ENTRY_SIZE < BYTE_PER_CLUSTER
<1>1. DIR_ENTRY_SIZE \in Nat \ {0} /\ BYTE_PER_CLUSTER \in Nat /\ BYTE_PER_CLUSTER > DIR_ENTRY_SIZE
  BY ReaddirAssumption, Zenon
<1> QED
  BY <1>1

\* The slots of a cluster are those that begin in it.
LEMMA SlotsBegin ==
  /\ PerCluster \in Nat \ {0}
  /\ \A m \in Nat : (m \in DirSlots) <=> (DIR_ENTRY_SIZE * m < BYTE_PER_CLUSTER)
<1> DEFINE E == DIR_ENTRY_SIZE
           B == BYTE_PER_CLUSTER
<1>1. E \in Nat \ {0} /\ B \in Nat \ {0}
  BY Sizes
<1>2. /\ PerCluster \in Nat \ {0} /\ E * PerCluster >= B
      /\ \A m \in Nat : m < PerCluster => E * m < B
  BY <1>1, Ceiling DEF PerCluster
<1>3. ASSUME NEW m \in Nat PROVE (m \in DirSlots) <=> (E * m < B)
  <2>1. (m \in DirSlots) <=> (m < PerCluster)
    BY <1>2 DEF DirSlots
  <2>2. ASSUME ~ (m < PerCluster) PROVE ~ (E * m < B)
    <3>1. E * PerCluster <= E * m /\ E * m \in Nat /\ E * PerCluster \in Nat
      BY <1>1, <1>2, <2>2, TimesMonotone
    <3> QED
      BY <1>1, <1>2, <3>1
  <2> QED
    BY <1>2, <2>1, <2>2
<1> QED
  BY <1>2, <1>3

\* The entries that a call reads in the first cluster.
InFirst(start) == (BYTE_PER_CLUSTER - start + DIR_ENTRY_SIZE - 1) \div DIR_ENTRY_SIZE

\* A call that resumes in the first cluster reads on there, slot by slot, and
\* then goes to other clusters.
LEMMA PlaceFirst ==
  ASSUME NEW start \in Nat, start < BYTE_PER_CLUSTER, NEW n \in Nat \ {0}
  PROVE  /\ InFirst(start) \in Nat
         /\ (n <= InFirst(start)) <=> (start + DIR_ENTRY_SIZE * (n - 1) < BYTE_PER_CLUSTER)
         /\ n <= InFirst(start) => Place(start, n) = <<1, start + DIR_ENTRY_SIZE * (n - 1)>>
         /\ n > InFirst(start) => /\ Place(start, n)[1] \in Nat /\ Place(start, n)[1] >= 2
                                  /\ Place(start, n)[2] % DIR_ENTRY_SIZE = 0
<1> DEFINE E == DIR_ENTRY_SIZE
           B == BYTE_PER_CLUSTER
           f == InFirst(start)
<1>1. E \in Nat \ {0} /\ B \in Nat \ {0} /\ PerCluster \in Nat \ {0}
  BY Sizes, SlotsBegin
<1>2. B - start \in Nat \ {0} /\ n - 1 \in Nat
  BY <1>1
<1>3. f \in Nat \ {0} /\ E * f >= B - start /\ \A m \in Nat : m < f => E * m < B - start
  BY <1>1, <1>2, Ceiling DEF InFirst
<1>4. start \div B = 0 /\ start % B = start
  BY <1>1
<1>5. Place(start, n) = IF n <= f THEN <<0 + 1, start + (n - 1) * E>>
                        ELSE <<0 + 2 + (n - f - 1) \div PerCluster,
                               ((n - f - 1) % PerCluster) * E>>
  BY <1>4 DEF Place, InFirst
<1> HIDE DEF f
<1>6. (n - 1) * E = E * (n - 1) /\ E * (n - 1) \in Nat
  BY <1>1, <1>2
<1>7. (n <= f) <=> (start + E * (n - 1) < B)
  <2>1. ASSUME n <= f PROVE start + E * (n - 1) < B
    <3>1. n - 1 < f
      BY <1>3, <2>1
    <3>2. E * (n - 1) < B - start
      BY <1>2, <1>3, <3>1
    <3> QED
      BY <1>1, <1>6, <3>2
  <2>2. ASSUME n > f PROVE ~ (start + E * (n - 1) < B)
    <3>1. E * f <= E * (n - 1) /\ E * f \in Nat
      BY <1>1, <1>2, <1>3, <2>2, TimesMonotone
    <3> QED
      BY <1>1, <1>3, <1>6, <3>1
  <2> QED
    BY <1>3, <2>1, <2>2
<1>8. n > f => /\ Place(start, n)[1] \in Nat /\ Place(start, n)[1] >= 2
               /\ Place(start, n)[2] % E = 0
  <2>1. SUFFICES ASSUME n > f
                 PROVE  /\ Place(start, n)[1] \in Nat /\ Place(start, n)[1] >= 2
                        /\ Place(start, n)[2] % E = 0
    OBVIOUS
  <2>2. n - f - 1 \in Nat
    BY <1>3, <2>1
  <2>3. PICK q, t : q = (n - f - 1) \div PerCluster /\ t = (n - f - 1) % PerCluster
    OBVIOUS
  <2>4. q \in Nat /\ t \in Nat
    <3>1. q \in Nat /\ t \in 0 .. PerCluster - 1
      BY <1>1, <2>2, <2>3, DivMod, Zenon
    <3> QED
      BY <1>1, <3>1
  <2>5. Place(start, n) = <<0 + 2 + q, t * E>>
    BY <1>3, <1>5, <2>1, <2>3
  <2>6. t * E = E * t /\ (E * t) % E = 0
    BY <1>1, <2>4, DivTimes
  <2> QED
    BY <2>4, <2>5, <2>6
<1>9. n <= f => Place(start, n) = <<1, start + E * (n - 1)>>
  BY <1>5, <1>6
<1> QED
  BY <1>3, <1>7, <1>8, <1>9 DEF f

\* A call that resumes behind the first cluster reads nothing in it.
LEMMA PlaceBehind ==
  ASSUME NEW start \in Nat, start >= BYTE_PER_CLUSTER, NEW n \in Nat \ {0}
  PROVE  Place(start, n)[1] \in Nat /\ Place(start, n)[1] >= 2
<1> DEFINE E == DIR_ENTRY_SIZE
           B == BYTE_PER_CLUSTER
           c == start \div B
           b == start % B
           f == (B - b + E - 1) \div E
<1>1. E \in Nat \ {0} /\ B \in Nat \ {0} /\ PerCluster \in Nat \ {0}
  BY Sizes, SlotsBegin
<1>2. c \in Nat /\ b \in 0 .. B - 1 /\ start = B * c + b
  BY <1>1, DivMod
<1>3. c >= 1
  <2>1. B * 0 = 0
    BY <1>1
  <2>2. SUFFICES ASSUME c = 0 PROVE FALSE
    BY <1>2
  <2> HIDE DEF c, b
  <2> QED
    BY <1>1, <1>2, <2>1, <2>2
<1>4. B - b \in Nat \ {0}
  BY <1>1, <1>2
<1>5. f \in Nat
  BY <1>1, <1>4, Ceiling
<1>6. Place(start, n)[1] = IF n <= f THEN c + 1 ELSE c + 2 + (n - f - 1) \div PerCluster
  BY DEF Place
<1> HIDE DEF c, f
<1>7. n > f => (n - f - 1) \div PerCluster \in Nat
  <2>1. n > f => n - f - 1 \in Nat
    BY <1>5
  <2> QED
    BY <1>1, <2>1, DivMod
<1> QED
  BY <1>2, <1>3, <1>5, <1>6, <1>7

\* Wherever a call resumes, what it reads is taken for the entry of a slot.
LEMMA PlaceSlot ==
  ASSUME NEW start \in Nat, NEW n \in Nat \ {0}
  PROVE  /\ Place(start, n)[1] \in Nat \ {0}
         /\ Place(start, n)[2] \in Nat
         /\ Place(start, n)[2] \div DIR_ENTRY_SIZE \in DirSlots
<1> DEFINE E == DIR_ENTRY_SIZE
           B == BYTE_PER_CLUSTER
           c == start \div B
           b == start % B
           f == (B - b + E - 1) \div E
           x == n - f - 1
<1>1. E \in Nat \ {0} /\ B \in Nat \ {0} /\ PerCluster \in Nat \ {0}
  BY Sizes, SlotsBegin
<1>2. c \in Nat /\ b \in 0 .. B - 1
  BY <1>1, DivMod
<1>3. B - b \in Nat \ {0} /\ n - 1 \in Nat
  BY <1>1, <1>2
<1>4. f \in Nat \ {0} /\ \A m \in Nat : m < f => E * m < B - b
  BY <1>1, <1>3, Ceiling
<1>5. Place(start, n) = IF n <= f THEN <<c + 1, b + (n - 1) * E>>
                        ELSE <<c + 2 + x \div PerCluster, (x % PerCluster) * E>>
  BY DEF Place
<1>6. CASE n <= f
  <2>1. Place(start, n)[1] = c + 1 /\ Place(start, n)[2] = b + (n - 1) * E
    BY <1>5, <1>6
  <2>2. n - 1 < f
    BY <1>4, <1>6
  <2>3. E * (n - 1) < B - b
    BY <1>3, <1>4, <2>2
  <2>4. PICK y : y = b + (n - 1) * E
    OBVIOUS
  <2>5. y \in Nat /\ y < B
    <3>1. (n - 1) * E = E * (n - 1) /\ E * (n - 1) \in Nat
      BY <1>1, <1>3
    <3> HIDE DEF b, f
    <3> QED
      BY <1>1, <1>2, <2>3, <2>4, <3>1
  <2>6. y \div E \in Nat /\ E * (y \div E) \in Nat /\ E * (y \div E) <= y
    <3>1. y \div E \in Nat /\ y % E \in 0 .. E - 1 /\ y = E * (y \div E) + (y % E)
      BY <1>1, <2>5, DivMod
    <3>2. E * (y \div E) \in Nat
      BY <1>1, <3>1, TimesNext
    <3>3. PICK r : r = y % E
      OBVIOUS
    <3> QED
      BY <3>1, <3>2, <3>3
  <2>7. E * (y \div E) < B
    BY <1>1, <2>5, <2>6
  <2>8. y \div E \in DirSlots
    BY <2>6, <2>7, SlotsBegin
  <2> QED
    BY <1>2, <2>1, <2>4, <2>5, <2>8
<1>7. CASE ~ (n <= f)
  <2>1. Place(start, n)[1] = c + 2 + x \div PerCluster /\ Place(start, n)[2] = (x % PerCluster) * E
    BY <1>5, <1>7
  <2>2. x \in Nat
    BY <1>4, <1>7
  <2>3. x \div PerCluster \in Nat /\ x % PerCluster \in 0 .. PerCluster - 1
    BY <1>1, <2>2, DivMod
  <2>4. PICK r \in DirSlots : r = x % PerCluster
    BY <2>3 DEF DirSlots
  <2>5. r \in Nat
    BY <1>1, <2>4 DEF DirSlots
  <2>6. E * r \in Nat /\ (E * r) \div E = r /\ r * E = E * r
    BY <1>1, <2>5, TimesNext, DivTimes
  <2>7. Place(start, n)[2] = E * r
    BY <2>1, <2>4, <2>6
  <2> HIDE DEF c, x
  <2> QED
    BY <1>2, <2>1, <2>3, <2>4, <2>6, <2>7
<1> QED
  BY <1>6, <1>7

\* From a slot s of the first cluster on: the entry of a call that reads it,
\* and no other does.
LEMMA PlaceOfSlot ==
  ASSUME NEW start \in Nat, start < BYTE_PER_CLUSTER, start % DIR_ENTRY_SIZE = 0,
         NEW s \in DirSlots, start <= DIR_ENTRY_SIZE * s
  PROVE  \E n \in 1 .. PerCluster :
            /\ Place(start, n) = <<1, DIR_ENTRY_SIZE * s>>
            /\ start + DIR_ENTRY_SIZE * (n - 1) = DIR_ENTRY_SIZE * s
<1> DEFINE E == DIR_ENTRY_SIZE
           B == BYTE_PER_CLUSTER
           k == start \div E
           n == s - k + 1
<1>1. E \in Nat \ {0} /\ B \in Nat \ {0} /\ PerCluster \in Nat \ {0}
  BY Sizes, SlotsBegin
<1>2. s \in Nat /\ s < PerCluster /\ E * s < B /\ E * s \in Nat
  <2>1. s \in Nat /\ s < PerCluster
    BY <1>1 DEF DirSlots
  <2> QED
    BY <1>1, <2>1, SlotsBegin, TimesNext
<1>3. k \in Nat /\ start = E * k
  <2>1. k \in Nat /\ start = E * k + 0
    BY <1>1, DivMod
  <2>2. E * k \in Nat
    BY <1>1, <2>1, TimesNext
  <2> QED
    BY <2>1, <2>2
<1> HIDE DEF k
<1>4. k <= s
  BY <1>1, <1>2, <1>3, SlotOrder
<1>5. n \in 1 .. PerCluster /\ n - 1 = s - k
  BY <1>1, <1>2, <1>3, <1>4
<1>6. start + E * (n - 1) = E * s
  <2>1. E * (s - k) = E * s - E * k
    BY <1>1, <1>2, <1>3
  <2> HIDE DEF n
  <2> QED
    BY <1>2, <1>3, <1>5, <2>1
<1>7. Place(start, n) = <<1, start + E * (n - 1)>>
  <2>1. n \in Nat \ {0}
    BY <1>1, <1>5
  <2> HIDE DEF n
  <2> QED
    BY <1>2, <1>6, <2>1, PlaceFirst
<1> QED
  BY <1>5, <1>6, <1>7

-----------------------------------------------------------------------------
(* Changes of the directory *)

\* No name of an object is the name of a free slot.
LEMMA NamesDiffer ==
  \A name \in Names : name # "" /\ name # "." /\ name # ".."
<1>1. Names \cap {"", ".", ".."} = {}
  BY ReaddirAssumption, Zenon
<1> QED
  BY <1>1, Zenon

\* The names of e are those of d, except that the slot s of cluster c has the
\* name x; clusters that d has not are empty.
Differs(d, C, e, D, S, c, s, x) ==
    \A k \in D, t \in S :
        e[k][t] = IF k = c /\ t = s THEN x ELSE IF k \in C THEN d[k][t] ELSE NoName

\* Two slots with the same name are one slot.
LEMMA UniqueSlot ==
  ASSUME NEW d, NEW C, NEW S, Unique(d, C, S),
         NEW k \in C, NEW l \in C, NEW t \in S, NEW u \in S
  PROVE  d[k][t] = d[l][u] /\ d[k][t] # NoName => k = l /\ t = u
  BY DEF Unique

\* A name that is new does not come twice.
LEMMA UniqueAgain ==
  ASSUME NEW d, NEW e, NEW C, NEW D, NEW S, NEW c, NEW s, NEW x,
         Unique(d, C, S), Differs(d, C, e, D, S, c, s, x),
         Fresh(x, d, C, S)
  PROVE  Unique(e, D, S)
<1>1. SUFFICES ASSUME NEW k1 \in D, NEW k2 \in D, NEW t1 \in S, NEW t2 \in S,
                      e[k1][t1] = e[k2][t2] /\ e[k1][t1] # NoName
               PROVE  k1 = k2 /\ t1 = t2
  BY Zenon DEF Unique
<1>2. PICK a, b : a = d[k1][t1] /\ b = d[k2][t2]
  OBVIOUS
<1>3. /\ e[k1][t1] = IF k1 = c /\ t1 = s THEN x ELSE IF k1 \in C THEN a ELSE NoName
      /\ e[k2][t2] = IF k2 = c /\ t2 = s THEN x ELSE IF k2 \in C THEN b ELSE NoName
  BY <1>2, Zenon DEF Differs
<1>4. CASE k1 = c /\ t1 = s
  <2>1. x # NoName /\ e[k1][t1] = x
    BY <1>1, <1>3, <1>4
  <2>2. k2 \in C => b # x
    BY <1>2, <2>1, Zenon DEF Fresh
  <2> QED
    BY <1>1, <1>3, <1>4, <2>1, <2>2, Zenon
<1>5. CASE k2 = c /\ t2 = s
  <2>1. x # NoName /\ e[k2][t2] = x
    BY <1>1, <1>3, <1>5
  <2>2. k1 \in C => a # x
    BY <1>2, <2>1, Zenon DEF Fresh
  <2> QED
    BY <1>1, <1>3, <1>5, <2>1, <2>2, Zenon
<1>6. CASE ~ (k1 = c /\ t1 = s) /\ ~ (k2 = c /\ t2 = s)
  <2>1. k1 \in C /\ k2 \in C /\ a = b /\ a # NoName
    BY <1>1, <1>3, <1>6, Zenon
  <2>2. d[k1][t1] = d[k2][t2] /\ d[k1][t1] # NoName => k1 = k2 /\ t1 = t2
    BY <2>1 DEF Unique
  <2> QED
    BY <1>2, <2>1, <2>2, Zenon
<1> QED
  BY <1>4, <1>5, <1>6, Zenon

\* A name stays that is not in the slot.
LEMMA PresentAgain ==
  ASSUME NEW d, NEW e, NEW C, NEW D, NEW S, NEW c, NEW s, NEW x, NEW y,
         Differs(d, C, e, D, S, c, s, x), C \subseteq D,
         Present(y, d, C, S), c \in C => d[c][s] # y
  PROVE  Present(y, e, D, S)
<1>1. PICK k \in C, t \in S : y # NoName /\ d[k][t] = y
  BY Zenon DEF Present
<1>2. k \in D /\ ~ (k = c /\ t = s)
  BY <1>1, Zenon
<1>3. e[k][t] = IF k = c /\ t = s THEN x ELSE IF k \in C THEN d[k][t] ELSE NoName
  BY <1>2, Zenon DEF Differs
<1>4. e[k][t] = y
  BY <1>1, <1>2, <1>3, Zenon
<1> QED
  BY <1>1, <1>2, <1>4, Zenon DEF Present

\* Where there is one now there was one before.
LEMMA OneAtMost ==
  ASSUME NEW m \in Nat, NEW n \in Nat, m >= 1, n >= m
  PROVE  n = 1 => m = 1
  OBVIOUS

\* The clusters are counted, and their slots have names.
LEMMA DirLen ==
  ASSUME NEW d \in DirType
  PROVE  Len(d) \in Nat /\ \A k \in 1 .. Len(d) : d[k] \in [DirSlots -> SlotNames]
  BY LenProperties, ElementOfSeq DEF DirType

\* One slot of the directory gets another name: a new name, or none.  What it
\* loses is no longer among those that stayed.
LEMMA DirChanged ==
  ASSUME ReaddirInv, NEW c, NEW s \in DirSlots, NEW x,
         dir' \in DirType, Len(dir') >= Len(dir),
         Differs(dir, Clusters, dir', Clusters', DirSlots, c, s, x),
         Fresh(x, dir, Clusters, DirSlots),
         UNCHANGED <<offset, listed, done>>, stayed' \subseteq stayed,
         c \in Clusters => dir[c][s] \notin stayed'
  PROVE  ReaddirInv'
<1>1. /\ ReaddirType /\ OneSlot /\ StayedThere /\ Aligned /\ ReturnedSoFar /\ NothingForeign
  BY DEF ReaddirInv
<1>2. Len(dir) \in Nat /\ Len(dir) >= 1 /\ Len(dir') \in Nat
  BY <1>1, DirLen DEF ReaddirType
<1>3. Clusters \subseteq Clusters' /\ 1 \in Clusters
  BY <1>2 DEF Clusters
<1>4. ReaddirType'
  <2>1. Len(dir') >= 1
    BY <1>2
  <2>2. DirType' = DirType /\ ListedNames' = ListedNames
    BY DEF DirType, DirSlots, PerCluster, SlotNames, ListedNames
  <2>3. offset' = offset /\ listed' = listed /\ done' = done
    OBVIOUS
  <2> QED
    BY <1>1, <2>1, <2>2, <2>3, Zenon DEF ReaddirType
<1>5. DirSlots' = DirSlots
  BY DEF DirSlots, PerCluster
<1>6. OneSlot'
  <2>1. Unique(dir, Clusters, DirSlots)
    BY <1>1 DEF OneSlot
  <2>2. Unique(dir', Clusters', DirSlots)
    BY <2>1, UniqueAgain, Zenon
  <2> QED
    BY <1>5, <2>2 DEF OneSlot
<1>7. ASSUME NEW y \in stayed'
      PROVE  Present(y, dir', Clusters', DirSlots)
  <2>1. Present(y, dir, Clusters, DirSlots)
    BY <1>1 DEF StayedThere
  <2>2. c \in Clusters => dir[c][s] # y
    BY Zenon
  <2> QED
    BY <1>3, <2>1, <2>2, PresentAgain, Zenon
<1>8. StayedThere'
  BY <1>5, <1>7, Zenon DEF StayedThere
<1>9. ASSUME NEW t \in DirSlots, dir'[1][t] \in stayed'
      PROVE  dir'[1][t] = dir[1][t]
  <2>1. dir'[1][t] = IF 1 = c /\ t = s THEN x ELSE IF 1 \in Clusters THEN dir[1][t] ELSE NoName
    BY <1>3, Zenon DEF Differs
  <2>2. CASE 1 = c /\ t = s
    <3>1. Present(x, dir, Clusters, DirSlots)
      BY <1>1, <1>9, <2>1, <2>2, Zenon DEF StayedThere
    <3> QED
      BY <3>1, Zenon DEF Present, Fresh
  <2>3. CASE ~ (1 = c /\ t = s)
    BY <1>3, <2>1, <2>3, Zenon
  <2> QED
    BY <2>2, <2>3
<1>10. NeverBehind' => NeverBehind
  <2>1. Len(dir') = 1 => Len(dir) = 1
    BY <1>2, OneAtMost, Zenon
  <2> QED
    BY <2>1, Zenon DEF NeverBehind
<1>11. ReturnedSoFar'
  <2>1. SUFFICES ASSUME NEW t \in DirSlots, dir'[1][t] \in stayed'
                 PROVE  /\ Passed(t) => listed[dir'[1][t]] >= 1
                        /\ NeverBehind => listed[dir'[1][t]] = IF Passed(t) THEN 1 ELSE 0
    BY <1>5, <1>10, Zenon DEF ReturnedSoFar, Passed
  <2>2. dir'[1][t] = dir[1][t] /\ dir[1][t] \in stayed
    BY <1>9, <2>1
  <2> QED
    BY <1>1, <2>2, Zenon DEF ReturnedSoFar
<1>12. Aligned'
  <2>1. offset' = offset
    OBVIOUS
  <2> QED
    BY <1>1, <2>1, Zenon DEF Aligned
<1>13. NothingForeign'
  <2>1. listed' = listed
    OBVIOUS
  <2> QED
    BY <1>1, <1>10, <2>1, Zenon DEF NothingForeign, Foreign
<1> QED
  BY <1>4, <1>6, <1>8, <1>11, <1>12, <1>13 DEF ReaddirInv

\* A slot is written.
LEMMA SlotWritten ==
  ASSUME ReaddirType, NEW p \in Positions, NEW x \in SlotNames,
         dir' = [dir EXCEPT ![p[1]][p[2]] = x]
  PROVE  /\ dir' \in DirType
         /\ Len(dir') = Len(dir)
         /\ p[1] \in Clusters /\ p[2] \in DirSlots
         /\ Differs(dir, Clusters, dir', Clusters', DirSlots, p[1], p[2], x)
<1>1. dir \in DirType /\ p[1] \in 1 .. Len(dir) /\ p[2] \in DirSlots
  BY DEF ReaddirType, Positions, DirSlots
<1>2. dir[p[1]] \in [DirSlots -> SlotNames]
  BY <1>1, DirLen
<1>3. PICK f : f = [dir[p[1]] EXCEPT ![p[2]] = x]
  OBVIOUS
<1>4. /\ f \in [DirSlots -> SlotNames]
      /\ \A s \in DirSlots : f[s] = IF s = p[2] THEN x ELSE dir[p[1]][s]
  BY <1>1, <1>2, <1>3
<1>5. dir' = [dir EXCEPT ![p[1]] = f]
  BY <1>3
<1>6. /\ dir' \in DirType /\ Len(dir') = Len(dir)
      /\ \A c \in 1 .. Len(dir) : dir'[c] = IF c = p[1] THEN f ELSE dir[c]
  BY <1>1, <1>4, <1>5 DEF DirType
<1>7. \A c \in 1 .. Len(dir), s \in DirSlots :
         dir'[c][s] = IF c = p[1] /\ s = p[2] THEN x ELSE dir[c][s]
  BY <1>1, <1>4, <1>6
<1>8. Clusters' = Clusters /\ Clusters = 1 .. Len(dir)
  BY <1>6 DEF Clusters
<1>9. Differs(dir, Clusters, dir', Clusters', DirSlots, p[1], p[2], x)
  BY <1>7, <1>8 DEF Differs
<1> QED
  BY <1>1, <1>6, <1>8, <1>9

\* A new cluster has one name.
LEMMA ClusterAdded ==
  ASSUME ReaddirType, NEW x \in SlotNames,
         dir' = Append(dir, [EmptyCluster EXCEPT ![0] = x])
  PROVE  /\ dir' \in DirType
         /\ Len(dir') = Len(dir) + 1
         /\ 0 \in DirSlots
         /\ Differs(dir, Clusters, dir', Clusters', DirSlots, Len(dir) + 1, 0, x)
<1> DEFINE new == [EmptyCluster EXCEPT ![0] = x]
<1>1. PerCluster \in Nat \ {0} /\ 0 \in DirSlots
  BY SlotsBegin DEF DirSlots
<1>2. NoName \in SlotNames
  BY DEF SlotNames, NoName
<1>3. EmptyCluster \in [DirSlots -> SlotNames] /\ \A s \in DirSlots : EmptyCluster[s] = NoName
  BY <1>2 DEF EmptyCluster, DirSlots, NoName
<1>4. /\ new \in [DirSlots -> SlotNames]
      /\ \A s \in DirSlots : new[s] = IF s = 0 THEN x ELSE NoName
  BY <1>1, <1>3
<1>5. dir' = Append(dir, new)
  OBVIOUS
<1> HIDE DEF new
<1>6. Len(dir) \in Nat /\ dir \in DirType
  BY DirLen DEF ReaddirType
<1>7. PICK F : F = [DirSlots -> SlotNames]
  OBVIOUS
<1>8. /\ dir' \in Seq(F) /\ Len(dir') = Len(dir) + 1
      /\ \A c \in 1 .. Len(dir) : dir'[c] = dir[c]
      /\ dir'[Len(dir) + 1] = new
  <2>1. dir \in Seq(F) /\ new \in F
    BY <1>4, <1>6, <1>7 DEF DirType
  <2> QED
    BY <1>5, <2>1, AppendProperties
<1>9. ASSUME NEW k \in Clusters', NEW t \in DirSlots
      PROVE  dir'[k][t] = IF k = Len(dir) + 1 /\ t = 0 THEN x
                          ELSE IF k \in Clusters THEN dir[k][t] ELSE NoName
  <2>1. CASE k = Len(dir) + 1
    <3>1. k \notin Clusters
      BY <1>6, <2>1 DEF Clusters
    <3>2. dir'[k][t] = IF t = 0 THEN x ELSE NoName
      BY <1>4, <1>8, <2>1
    <3> QED
      BY <2>1, <3>1, <3>2
  <2>2. CASE k # Len(dir) + 1
    <3>1. k \in 1 .. Len(dir)
      BY <1>6, <1>8, <2>2 DEF Clusters
    <3>2. dir'[k][t] = dir[k][t]
      BY <1>8, <3>1
    <3> QED
      BY <2>2, <3>1, <3>2 DEF Clusters
  <2> QED
    BY <2>1, <2>2
<1>10. Differs(dir, Clusters, dir', Clusters', DirSlots, Len(dir) + 1, 0, x)
  BY <1>9, Zenon DEF Differs
<1> QED
  BY <1>1, <1>7, <1>8, <1>10 DEF DirType

\* The clusters have slots, and the slots names.
LEMMA FirstCluster ==
  ASSUME ReaddirType
  PROVE  /\ Len(dir) \in Nat /\ 1 \in Clusters
         /\ \A c \in Clusters, s \in DirSlots : dir[c][s] \in SlotNames
<1>1. dir \in DirType /\ Len(dir) \in Nat /\ Len(dir) >= 1
  BY DirLen DEF ReaddirType
<1>2. ASSUME NEW c \in Clusters, NEW s \in DirSlots PROVE dir[c][s] \in SlotNames
  <2>1. dir[c] \in [DirSlots -> SlotNames]
    BY <1>1, DirLen DEF Clusters
  <2> QED
    BY <2>1
<1> QED
  BY <1>1, <1>2 DEF Clusters

\* Names that the directory has are those in its slots.
LEMMA NamesInSlots ==
  ASSUME NEW c \in Clusters, NEW s \in DirSlots, dir[c][s] # NoName
  PROVE  dir[c][s] \in NamesIn
<1>1. <<c, s>> \in Positions /\ <<c, s>>[1] = c /\ <<c, s>>[2] = s
  BY DEF Positions, DirSlots, Clusters
<1> QED
  BY <1>1 DEF NamesIn, NoName

\* A new entry has a name that no slot has, and goes where there was none.
LEMMA AddInv ==
  ASSUME ReaddirInv, NEW name \in Names, Add(name)
  PROVE  ReaddirInv'
<1>1. /\ ReaddirType /\ StayedThere /\ UNCHANGED <<offset, listed, stayed, done>>
  BY DEF ReaddirInv, Add
<1>2. name # NoName /\ name \in SlotNames /\ name \notin NamesIn
  BY NamesDiffer DEF SlotNames, Add, NoName
<1>3. Fresh(name, dir, Clusters, DirSlots)
  BY <1>2, NamesInSlots, Zenon DEF Fresh
<1>4. NoName \notin stayed
  BY <1>1, Zenon DEF StayedThere, Present
<1>5. CASE \E p \in Positions : dir[p[1]][p[2]] = "" /\ dir' = [dir EXCEPT ![p[1]][p[2]] = name]
  <2>1. PICK p \in Positions : dir[p[1]][p[2]] = NoName /\ dir' = [dir EXCEPT ![p[1]][p[2]] = name]
    BY <1>5 DEF NoName
  <2>2. /\ dir' \in DirType
        /\ Len(dir') = Len(dir) /\ Len(dir) \in Nat
        /\ p[2] \in DirSlots
        /\ Differs(dir, Clusters, dir', Clusters', DirSlots, p[1], p[2], name)
    BY <1>1, <1>2, <2>1, SlotWritten, FirstCluster
  <2>3. Len(dir') >= Len(dir)
    BY <2>2
  <2>4. dir[p[1]][p[2]] \notin stayed' /\ stayed' \subseteq stayed
    BY <1>1, <1>4, <2>1, Zenon
  <2> QED
    BY <1>1, <1>3, <2>2, <2>3, <2>4, DirChanged, Zenon
<1>6. CASE dir' = Append(dir, [EmptyCluster EXCEPT ![0] = name])
  <2>1. /\ dir' \in DirType
        /\ Len(dir') = Len(dir) + 1 /\ Len(dir) \in Nat
        /\ 0 \in DirSlots
        /\ Differs(dir, Clusters, dir', Clusters', DirSlots, Len(dir) + 1, 0, name)
    BY <1>1, <1>2, <1>6, ClusterAdded, FirstCluster
  <2>2. Len(dir') >= Len(dir) /\ Len(dir) + 1 \notin Clusters
    BY <2>1 DEF Clusters
  <2>3. stayed' \subseteq stayed
    BY <1>1
  <2> QED
    BY <1>1, <1>3, <2>1, <2>2, <2>3, DirChanged, Zenon
<1> QED
  BY <1>5, <1>6 DEF Add

\* A removed entry is not among those that stayed.
LEMMA RemoveInv ==
  ASSUME ReaddirInv, NEW name \in Names, Remove(name)
  PROVE  ReaddirInv'
<1>1. ReaddirType /\ UNCHANGED <<offset, listed, done>> /\ stayed' = stayed \ {name}
  BY DEF ReaddirInv, Remove
<1>2. PICK p \in Positions : dir[p[1]][p[2]] = name /\ dir' = [dir EXCEPT ![p[1]][p[2]] = NoName]
  BY DEF Remove, NoName
<1>3. NoName \in SlotNames
  BY DEF SlotNames, NoName
<1>4. /\ dir' \in DirType
      /\ Len(dir') = Len(dir) /\ Len(dir) \in Nat
      /\ p[2] \in DirSlots
      /\ Differs(dir, Clusters, dir', Clusters', DirSlots, p[1], p[2], NoName)
  BY <1>1, <1>2, <1>3, SlotWritten, FirstCluster
<1>5. Len(dir') >= Len(dir)
  <2>1. Len(dir') = Len(dir) /\ Len(dir) \in Nat
    BY <1>4, Zenon
  <2> QED
    BY <2>1
<1>6. dir[p[1]][p[2]] \notin stayed' /\ stayed' \subseteq stayed
  BY <1>1, <1>2, Zenon
<1>7. Fresh(NoName, dir, Clusters, DirSlots)
  BY DEF Fresh
<1> QED
  BY <1>1, <1>4, <1>5, <1>6, <1>7, DirChanged, Zenon

-----------------------------------------------------------------------------
(* A call *)

\* A set of numbers that is not empty has a least one.
LEMMA LeastNumber ==
  ASSUME NEW F \in SUBSET Nat, F # {}
  PROVE  \E x \in F : \A y \in F : x <= y
<1>1. PICK R : R = OpToRel(<, Nat)
  OBVIOUS
<1>2. R = {ss \in Nat \X Nat : ss[1] < ss[2]}
  BY <1>1 DEF OpToRel
<1>3. IsWellFoundedOn(R, Nat)
  BY <1>1, NatLessThanWellFounded
<1>4. PICK x \in F : \A y \in F : ~ (<<y, x>> \in R)
  BY <1>3, WFMin
<1>5. ASSUME NEW y \in F PROVE x <= y
  <2>1. x \in Nat /\ y \in Nat
    OBVIOUS
  <2>2. <<y, x>> \notin R
    BY <1>4
  <2>3. ~ (y < x)
    BY <1>2, <2>1, <2>2
  <2> QED
    BY <2>1, <2>3
<1> QED
  BY <1>5

\* The first of the numbers F, as many as there is room for.
FirstOf(F, room) == {n \in F : Cardinality({m \in F : m <= n}) <= room}

\* With room for one or more, some number is among the first if there is any,
\* and with a number all smaller ones are.
LEMMA FirstNumbers ==
  ASSUME NEW F \in SUBSET Nat, IsFiniteSet(F), NEW room \in Nat \ {0}
  PROVE  /\ FirstOf(F, room) = {} => F = {}
         /\ \A last \in FirstOf(F, room) : \A n \in F : n <= last => n \in FirstOf(F, room)
<1> DEFINE Upto(n) == {m \in F : m <= n}
<1>1. ASSUME NEW n \in F PROVE IsFiniteSet(Upto(n)) /\ Cardinality(Upto(n)) \in Nat
  <2>1. Upto(n) \in SUBSET F
    OBVIOUS
  <2> HIDE DEF Upto
  <2>2. IsFiniteSet(Upto(n))
    BY <2>1, FS_Subset
  <2> QED
    BY <2>2, FS_CardinalityType
<1>2. ASSUME F # {} PROVE FirstOf(F, room) # {}
  <2>1. PICK x \in F : \A y \in F : x <= y
    BY <1>2, LeastNumber
  <2>2. Upto(x) = {x}
    <3>1. ASSUME NEW y \in Upto(x) PROVE y = x
      <4>1. y \in Nat /\ x \in Nat /\ x <= y /\ y <= x
        BY <2>1, <3>1
      <4> QED
        BY <4>1
    <3>2. x \in Upto(x)
      <4>1. x \in Nat
        OBVIOUS
      <4>2. x <= x
        BY <4>1
      <4> QED
        BY <4>2
    <3> HIDE DEF Upto
    <3> QED
      BY <3>1, <3>2, Zenon
  <2>3. Cardinality(Upto(x)) = 1
    BY <2>2, FS_Singleton, Zenon
  <2>4. 1 <= room
    OBVIOUS
  <2>5. Cardinality(Upto(x)) <= room
    BY <2>3, <2>4, Zenon
  <2> QED
    BY <2>5, Zenon DEF FirstOf
<1>3. ASSUME NEW last \in FirstOf(F, room), NEW n \in F, n <= last
      PROVE  n \in FirstOf(F, room)
  <2>1. last \in F /\ Cardinality(Upto(last)) <= room
    BY DEF FirstOf
  <2>2. Upto(n) \in SUBSET Upto(last)
    <3>1. ASSUME NEW m \in Upto(n) PROVE m \in Upto(last)
      <4>1. m \in F /\ m \in Nat /\ n \in Nat /\ last \in Nat /\ m <= n
        BY <2>1
      <4>2. m <= last
        BY <1>3, <4>1
      <4> QED
        BY <4>1, <4>2
    <3> HIDE DEF Upto
    <3> QED
      BY <3>1
  <2> HIDE DEF Upto
  <2>3. Cardinality(Upto(n)) <= Cardinality(Upto(last))
    BY <1>1, <2>1, <2>2, FS_Subset
  <2>4. /\ Cardinality(Upto(n)) \in Nat /\ Cardinality(Upto(last)) \in Nat /\ room \in Nat
    BY <1>1, <2>1
  <2>5. Cardinality(Upto(n)) <= room
    BY <2>1, <2>3, <2>4
  <2> QED
    BY <2>5, Zenon DEF FirstOf, Upto
<1> QED
  BY <1>2, <1>3

\* The entries that a call can read.
LEMMA ScannedEntries ==
  ASSUME ReaddirType
  PROVE  /\ Scanned(offset) \subseteq Nat \ {0}
         /\ IsFiniteSet(Scanned(offset))
         /\ \A n \in Scanned(offset) :
               /\ Place(offset, n)[1] \in Clusters
               /\ Place(offset, n)[2] \div DIR_ENTRY_SIZE \in DirSlots
         /\ \A n \in 1 .. PerCluster : Place(offset, n)[1] = 1 => n \in Scanned(offset)
<1>1. Len(dir) \in Nat /\ Len(dir) >= 1 /\ offset \in Nat
  BY FirstCluster DEF ReaddirType
<1>2. PerCluster \in Nat \ {0}
  BY SlotsBegin
<1>3. PICK K \in Nat : K = Len(dir) * PerCluster /\ K >= PerCluster
  <2>1. PerCluster * 1 <= PerCluster * Len(dir) /\ PerCluster * Len(dir) \in Nat
    BY <1>1, <1>2, TimesMonotone
  <2>2. PerCluster * Len(dir) = Len(dir) * PerCluster /\ PerCluster * 1 = PerCluster
    BY <1>1, <1>2
  <2> QED
    BY <2>1, <2>2
<1>4. Scanned(offset) = {n \in 1 .. K : Place(offset, n)[1] <= Len(dir)}
  BY <1>3 DEF Scanned
<1>5. IsFiniteSet(1 .. K)
  BY FS_Interval
<1>6. Scanned(offset) \in SUBSET (1 .. K)
  BY <1>4
<1>7. IsFiniteSet(Scanned(offset))
  BY <1>5, <1>6, FS_Subset
<1>8. ASSUME NEW n \in Scanned(offset)
      PROVE  /\ Place(offset, n)[1] \in Clusters
             /\ Place(offset, n)[2] \div DIR_ENTRY_SIZE \in DirSlots
  <2>1. n \in Nat \ {0} /\ Place(offset, n)[1] <= Len(dir)
    BY <1>4
  <2>2. Place(offset, n)[1] \in Nat \ {0} /\ Place(offset, n)[2] \div DIR_ENTRY_SIZE \in DirSlots
    BY <1>1, <2>1, PlaceSlot
  <2> QED
    BY <1>1, <2>1, <2>2 DEF Clusters
<1>9. ASSUME NEW n \in 1 .. PerCluster, Place(offset, n)[1] = 1 PROVE n \in Scanned(offset)
  <2>1. n \in 1 .. K
    BY <1>2, <1>3
  <2> QED
    BY <1>1, <1>4, <1>9, <2>1
<1>10. Scanned(offset) \subseteq Nat \ {0}
  BY <1>6
<1> QED
  BY <1>7, <1>8, <1>9, <1>10

\* A call from the first cluster, or of a directory that has no other, reads
\* where slots begin.
LEMMA ReadsSlots ==
  ASSUME ReaddirInv, NeverBehind, NEW n \in Scanned(offset)
  PROVE  ~ Misplaced(n)
<1> DEFINE E == DIR_ENTRY_SIZE
           B == BYTE_PER_CLUSTER
<1>1. ReaddirType /\ Aligned
  BY DEF ReaddirInv
<1>2. E \in Nat \ {0} /\ B \in Nat \ {0} /\ offset \in Nat
  BY <1>1, Sizes DEF ReaddirType
<1>3. PICK p : p = Place(offset, n)
  OBVIOUS
<1>4. n \in Nat \ {0} /\ p[1] \in Clusters
  BY <1>1, <1>3, ScannedEntries
<1>5. offset < B
  <2>1. SUFFICES ASSUME Len(dir) = 1, offset >= B PROVE FALSE
    BY <1>2 DEF NeverBehind
  <2>2. p[1] >= 2 /\ p[1] = 1
    BY <1>2, <1>3, <1>4, <2>1, PlaceBehind DEF Clusters
  <2> QED
    BY <2>2
<1>6. CASE n > InFirst(offset)
  BY <1>2, <1>4, <1>5, <1>6, PlaceFirst DEF Misplaced
<1>7. CASE ~ (n > InFirst(offset))
  <2>1. n <= InFirst(offset)
    BY <1>2, <1>4, <1>5, <1>7, PlaceFirst
  <2>2. p[2] = offset + E * (n - 1)
    BY <1>2, <1>3, <1>4, <1>5, <2>1, PlaceFirst
  <2>3. offset % E = 0
    BY <1>1, <1>5 DEF Aligned
  <2>4. PICK k \in Nat : k = offset \div E /\ offset = E * k
    <3>1. offset \div E \in Nat /\ offset = E * (offset \div E) + 0
      BY <1>2, <2>3, DivMod
    <3>2. E * (offset \div E) \in Nat
      BY <1>2, <3>1, TimesNext
    <3> QED
      BY <3>1, <3>2
  <2>5. k + (n - 1) \in Nat /\ E * k + E * (n - 1) = E * (k + (n - 1))
    BY <1>2, <1>4, <2>4
  <2>6. p[2] = E * (k + (n - 1))
    BY <2>2, <2>4, <2>5
  <2>7. p[2] % E = 0
    BY <1>2, <2>5, <2>6, DivTimes
  <2> QED
    BY <1>3, <2>7 DEF Misplaced
<1> QED
  BY <1>6, <1>7

\* Where a slot begins its name is read.
LEMMA NameReadThere ==
  ASSUME NEW n, ~ Misplaced(n), NEW misread
  PROVE  NameRead(n, misread) = dir[Place(offset, n)[1]][Place(offset, n)[2] \div DIR_ENTRY_SIZE]
  BY Zenon DEF NameRead

\* The slots of the first cluster from the offset on are read, and what stays
\* is read from its slot only, unless the call resumes behind the cluster.
LEMMA ReadsStaying ==
  ASSUME ReaddirInv, NEW s \in DirSlots, dir[1][s] \in stayed, NEW misread
  PROVE  /\ NeverBehind => \A n \in Scanned(offset) :
               NameRead(n, misread) = dir[1][s]
                   => offset + DIR_ENTRY_SIZE * (n - 1) = DIR_ENTRY_SIZE * s
         /\ offset <= DIR_ENTRY_SIZE * s =>
               \E n \in Scanned(offset) :
                  /\ NameRead(n, misread) = dir[1][s]
                  /\ offset + DIR_ENTRY_SIZE * (n - 1) = DIR_ENTRY_SIZE * s
<1> DEFINE E == DIR_ENTRY_SIZE
           B == BYTE_PER_CLUSTER
           x == dir[1][s]
<1>1. ReaddirType /\ OneSlot /\ StayedThere /\ Aligned
  BY DEF ReaddirInv
<1>2. /\ E \in Nat \ {0} /\ B \in Nat \ {0} /\ offset \in Nat
      /\ s \in Nat /\ E * s \in Nat /\ E * s < B
  <2>1. s \in Nat
    BY SlotsBegin DEF DirSlots
  <2> QED
    BY <1>1, <2>1, Sizes, SlotsBegin, TimesNext DEF ReaddirType
<1>3. x # NoName /\ 1 \in Clusters
  BY <1>1, FirstCluster DEF StayedThere, Present
<1>4. ASSUME NeverBehind, NEW n \in Scanned(offset), NameRead(n, misread) = x
      PROVE  offset + E * (n - 1) = E * s
  <2>1. PICK p : p = Place(offset, n)
    OBVIOUS
  <2>2. n \in Nat \ {0} /\ p[1] \in Clusters /\ p[2] \div E \in DirSlots
    BY <1>1, <2>1, ScannedEntries
  <2>3. ~ Misplaced(n)
    BY <1>4, ReadsSlots
  <2>4. dir[p[1]][p[2] \div E] = x
    BY <1>4, <2>1, <2>3, NameReadThere, Zenon
  <2>5. PICK t \in DirSlots : t = p[2] \div E
    BY <2>2
  <2>6. dir[p[1]][t] = dir[1][s] /\ dir[p[1]][t] # NoName
    BY <1>3, <2>4, <2>5
  <2>7. p[1] = 1 /\ t = s
    BY <1>1, <1>3, <2>2, <2>6, UniqueSlot DEF OneSlot
  <2>8. offset < B
    <3>1. SUFFICES ASSUME offset >= B PROVE FALSE
      BY <1>2
    <3>2. p[1] >= 2
      BY <1>2, <2>1, <2>2, <3>1, PlaceBehind
    <3> QED
      BY <2>7, <3>2
  <2>9. n <= InFirst(offset)
    <3>1. SUFFICES ASSUME n > InFirst(offset) PROVE FALSE
      BY <1>2, <2>2, <2>8, PlaceFirst
    <3>2. p[1] >= 2
      BY <1>2, <2>1, <2>2, <2>8, <3>1, PlaceFirst
    <3> QED
      BY <2>7, <3>2
  <2>10. p[2] = offset + E * (n - 1)
    BY <1>2, <2>1, <2>2, <2>8, <2>9, PlaceFirst
  <2>11. p[2] \in Nat /\ p[2] % E = 0
    BY <1>2, <2>1, <2>2, <2>3, PlaceSlot DEF Misplaced
  <2>12. p[2] = E * s
    <3>1. p[2] = E * (p[2] \div E) + (p[2] % E)
      BY <1>2, <2>11, DivMod
    <3> QED
      BY <1>2, <2>5, <2>7, <2>11, <3>1
  <2> QED
    BY <2>10, <2>12
<1>5. ASSUME offset <= E * s
      PROVE  \E n \in Scanned(offset) :
                /\ NameRead(n, misread) = x
                /\ offset + E * (n - 1) = E * s
  <2>1. offset < B
    BY <1>2, <1>5
  <2>2. offset % E = 0
    BY <1>1, <2>1 DEF Aligned
  <2>3. PICK n \in 1 .. PerCluster : Place(offset, n) = <<1, E * s>> /\ offset + E * (n - 1) = E * s
    BY <1>2, <1>5, <2>1, <2>2, PlaceOfSlot
  <2>4. PICK p : p = Place(offset, n)
    OBVIOUS
  <2>5. p[1] = 1 /\ p[2] = E * s
    BY <2>3, <2>4
  <2>6. n \in Scanned(offset)
    BY <1>1, <2>4, <2>5, ScannedEntries
  <2>7. p[2] \div E = s /\ p[2] % E = 0
    BY <1>2, <2>5, DivTimes
  <2>8. ~ Misplaced(n)
    BY <2>4, <2>7 DEF Misplaced
  <2>9. NameRead(n, misread) = x
    BY <2>4, <2>5, <2>7, <2>8, NameReadThere, Zenon
  <2> QED
    BY <2>3, <2>6, <2>9
<1> QED
  BY <1>4, <1>5

\* Nothing foreign is read unless a call resumes behind the first cluster.
LEMMA ReadsNothingForeign ==
  ASSUME ReaddirInv, NeverBehind, NEW n \in Scanned(offset), NEW misread,
         NameRead(n, misread) # NoName
  PROVE  NameRead(n, misread) \notin Foreign
<1>1. ~ Misplaced(n)
  BY ReadsSlots
<1>2. PICK p : p = Place(offset, n)
  OBVIOUS
<1>3. NameRead(n, misread) = dir[p[1]][p[2] \div DIR_ENTRY_SIZE]
  BY <1>1, <1>2, NameReadThere, Zenon
<1>4. ReaddirType
  BY DEF ReaddirInv
<1>5. NameRead(n, misread) \in SlotNames
  BY <1>2, <1>3, <1>4, ScannedEntries, FirstCluster
<1> QED
  BY <1>5, Zenon DEF SlotNames, Foreign, NoName

\* The entries that a call finds.
Found(misread) == {n \in Scanned(offset) : NameRead(n, misread) # NoName}

\* What a call does that has room for room entries, where the misplaced ones
\* spell misread.
CallWith(misread, room) ==
    LET taken == FirstOf(Found(misread), room)
    IN  /\ listed' = [name \in DOMAIN listed |->
                         IF \E n \in taken : NameRead(n, misread) = name
                         THEN OnceMore(listed[name]) ELSE listed[name]]
        /\ \/ taken = {} /\ done' = TRUE /\ offset' = offset
           \/ \E last \in taken :
                 /\ \A n \in taken : n <= last
                 /\ offset' = offset + last * DIR_ENTRY_SIZE
                 /\ done' = done

\* Every call is one of these.
LEMMA CallEffect ==
  ASSUME fat_readdir
  PROVE  \E misread : \E room \in Nat \ {0} : CallWith(misread, room)
<1>1. PICK misread : \E room \in 1 .. PerCall : CallWith(misread, room)
  BY Zenon DEF fat_readdir, CallWith, FirstOf, Found, NoName, entry_offset
<1>2. 1 .. PerCall \subseteq Nat \ {0}
  OBVIOUS
<1> QED
  BY <1>1, <1>2, Zenon

\* A call returns the names that stayed in the slots between its offset and
\* the one that it leaves.
LEMMA CallInv ==
  ASSUME ReaddirInv, fat_readdir
  PROVE  ReaddirInv'
<1> DEFINE E == DIR_ENTRY_SIZE
           B == BYTE_PER_CLUSTER
<1>1. /\ ReaddirType /\ OneSlot /\ StayedThere /\ Aligned /\ ReturnedSoFar /\ NothingForeign
  BY DEF ReaddirInv
<1>2. done = FALSE /\ dir' = dir /\ stayed' = stayed
  BY <1>1 DEF fat_readdir, ReaddirType
<1>3. E \in Nat \ {0} /\ B \in Nat \ {0} /\ offset \in Nat /\ PerCluster \in Nat \ {0}
  BY <1>1, Sizes, SlotsBegin DEF ReaddirType
<1>4. PICK misread : \E room \in Nat \ {0} : CallWith(misread, room)
  BY CallEffect
<1>5. PICK room \in Nat \ {0} : CallWith(misread, room)
  BY <1>4
<1>6. PICK found, taken : found = Found(misread) /\ taken = FirstOf(found, room)
  OBVIOUS
<1>7. DEFINE Read(name) == \E n \in taken : NameRead(n, misread) = name
<1>8. listed' = [name \in DOMAIN listed |->
                    IF Read(name) THEN OnceMore(listed[name]) ELSE listed[name]]
  BY <1>5, <1>6, Zenon DEF CallWith
<1>9. \/ taken = {} /\ done' = TRUE /\ offset' = offset
      \/ \E last \in taken : /\ \A n \in taken : n <= last
                             /\ offset' = offset + last * E
                             /\ done' = done
  BY <1>5, <1>6, Zenon DEF CallWith
<1>10. found \subseteq Scanned(offset) /\ \A n \in Scanned(offset) : NameRead(n, misread) # NoName => n \in found
  BY <1>6, Zenon DEF Found
<1>11. Scanned(offset) \subseteq Nat \ {0} /\ IsFiniteSet(Scanned(offset))
  BY <1>1, ScannedEntries
<1>12. found \in SUBSET Nat /\ IsFiniteSet(found)
  BY <1>10, <1>11, FS_Subset
<1>13. /\ taken = {} => found = {}
       /\ \A last \in taken : \A n \in found : n <= last => n \in taken
       /\ taken \subseteq found
  <2>1. taken \subseteq found
    BY <1>6, Zenon DEF FirstOf
  <2> QED
    BY <1>6, <1>12, <2>1, FirstNumbers
<1>14. ASSUME NEW s \in DirSlots, dir[1][s] \in stayed
       PROVE  /\ NeverBehind => \A n \in taken :
                    NameRead(n, misread) = dir[1][s] => offset + E * (n - 1) = E * s
              /\ offset <= E * s => \E n \in found : NameRead(n, misread) = dir[1][s] /\ offset + E * (n - 1) = E * s
  <2>1. /\ NeverBehind => \A n \in Scanned(offset) :
              NameRead(n, misread) = dir[1][s] => offset + E * (n - 1) = E * s
        /\ offset <= E * s =>
              \E n \in Scanned(offset) : NameRead(n, misread) = dir[1][s] /\ offset + E * (n - 1) = E * s
    BY <1>14, ReadsStaying, Zenon
  <2>2. dir[1][s] # NoName
    BY <1>1, <1>14, Zenon DEF StayedThere, Present
  <2> QED
    BY <1>10, <1>13, <2>1, <2>2, Zenon
<1>15. ASSUME NEW s \in DirSlots, dir[1][s] \in stayed
       PROVE  /\ dir[1][s] \in ListedNames /\ s \in Nat /\ E * s \in Nat /\ E * s < B
              /\ listed[dir[1][s]] \in 0 .. 2
              /\ E * s < offset => listed[dir[1][s]] >= 1
              /\ NeverBehind => listed[dir[1][s]] = IF E * s < offset THEN 1 ELSE 0
              /\ listed'[dir[1][s]] = IF Read(dir[1][s]) THEN OnceMore(listed[dir[1][s]])
                                      ELSE listed[dir[1][s]]
  <2>1. dir[1][s] \in SlotNames /\ dir[1][s] # NoName
    BY <1>1, <1>15, FirstCluster DEF StayedThere, Present
  <2>2. dir[1][s] \in ListedNames
    BY <2>1, Zenon DEF SlotNames, ListedNames, NoName
  <2>3. s \in Nat /\ E * s \in Nat /\ E * s < B
    <3>1. s \in Nat
      BY <1>3 DEF DirSlots
    <3> QED
      BY <1>3, <3>1, TimesNext, SlotsBegin
  <2>4. /\ E * s < offset => listed[dir[1][s]] >= 1
        /\ NeverBehind => listed[dir[1][s]] = IF E * s < offset THEN 1 ELSE 0
    BY <1>1, <1>2, <1>15, Zenon DEF ReturnedSoFar, Passed
  <2>5. DOMAIN listed = ListedNames /\ listed \in [ListedNames -> 0 .. 2]
    BY <1>1 DEF ReaddirType
  <2> HIDE DEF Read
  <2>6. listed'[dir[1][s]] = IF Read(dir[1][s]) THEN OnceMore(listed[dir[1][s]]) ELSE listed[dir[1][s]]
    BY <1>8, <2>2, <2>5, Zenon
  <2>7. listed[dir[1][s]] \in 0 .. 2
    BY <2>2, <2>5
  <2> QED
    BY <2>2, <2>3, <2>4, <2>6, <2>7
<1>16. listed' \in [ListedNames -> 0 .. 2]
  <2>1. listed \in [ListedNames -> 0 .. 2]
    BY <1>1 DEF ReaddirType
  <2> HIDE DEF Read
  <2> QED
    BY <1>8, <2>1 DEF OnceMore
<1>17. NeverBehind' => NeverBehind
  <2>1. offset' = offset => (NeverBehind' => NeverBehind)
    BY <1>2, Zenon DEF NeverBehind
  <2>2. ASSUME NEW last \in taken, offset' = offset + last * E, NeverBehind' PROVE NeverBehind
    <3>1. last \in Nat
      BY <1>10, <1>11, <1>13
    <3>2. E * last \in Nat /\ last * E = E * last
      BY <1>3, <3>1, TimesNext
    <3>3. offset' >= offset
      BY <1>3, <2>2, <3>2
    <3> QED
      BY <1>2, <1>3, <2>2, <3>2, <3>3 DEF NeverBehind
  <2> QED
    BY <1>9, <2>1, <2>2
<1>18. NothingForeign'
  <2>1. SUFFICES ASSUME NeverBehind, NEW x \in Foreign PROVE listed'[x] = 0
    BY <1>17, Zenon DEF NothingForeign, Foreign
  <2>2. ~ Read(x)
    <3>1. ASSUME NEW n \in taken PROVE NameRead(n, misread) # x
      <4>1. n \in Scanned(offset) /\ NameRead(n, misread) # NoName
        BY <1>6, <1>13, Zenon DEF Found
      <4> QED
        BY <2>1, <4>1, ReadsNothingForeign
    <3> QED
      BY <3>1
  <2>3. x \in DOMAIN listed
    BY <1>1 DEF ReaddirType, ListedNames, Foreign
  <2>4. listed[x] = 0
    BY <1>1, <2>1 DEF NothingForeign
  <2> HIDE DEF Read
  <2> QED
    BY <1>8, <2>2, <2>3, <2>4
<1>19. OneSlot' /\ StayedThere' /\ DirSlots' = DirSlots
  <2>1. DirSlots' = DirSlots
    BY DEF DirSlots, PerCluster
  <2> QED
    BY <1>1, <1>2, <2>1, Zenon DEF OneSlot, StayedThere, Clusters
<1>20. CASE taken = {} /\ done' = TRUE /\ offset' = offset
  <2>1. found = {}
    BY <1>13, <1>20
  <2>2. ASSUME NEW s \in DirSlots, dir[1][s] \in stayed
        PROVE  listed'[dir[1][s]] >= 1 /\ (NeverBehind => listed'[dir[1][s]] = 1)
    <3>1. ~ Read(dir[1][s])
      BY <1>20
    <3>2. ~ (offset <= E * s)
      BY <1>14, <2>1, <2>2
    <3>3. E * s < offset
      BY <1>3, <1>15, <2>2, <3>2
    <3> HIDE DEF Read
    <3> QED
      BY <1>15, <2>2, <3>1, <3>3
  <2>3. ReturnedSoFar'
    <3>1. SUFFICES ASSUME NEW s \in DirSlots, dir[1][s] \in stayed
                   PROVE  /\ listed'[dir[1][s]] >= 1
                          /\ NeverBehind => listed'[dir[1][s]] = 1
      BY <1>2, <1>19, <1>20, <1>17, Zenon DEF ReturnedSoFar, Passed
    <3> QED
      BY <2>2, <3>1
  <2>4. Aligned'
    BY <1>1, <1>20, Zenon DEF Aligned
  <2>6. ReaddirType'
    BY <1>1, <1>2, <1>16, <1>20 DEF ReaddirType, DirType, DirSlots, PerCluster, SlotNames, ListedNames
  <2> QED
    BY <1>18, <1>19, <2>3, <2>4, <2>6 DEF ReaddirInv
<1>21. CASE \E last \in taken : /\ \A n \in taken : n <= last
                                /\ offset' = offset + last * E
                                /\ done' = done
  <2>1. PICK last \in taken : /\ \A n \in taken : n <= last
                              /\ offset' = offset + last * E
                              /\ done' = done
    BY <1>21
  <2>2. last \in Nat \ {0} /\ E * last \in Nat /\ last * E = E * last
    <3>1. last \in Nat \ {0}
      BY <1>10, <1>11, <1>13
    <3> QED
      BY <1>3, <3>1, TimesNext
  <2>3. PICK end \in Nat : end = offset + E * last /\ offset' = end
    BY <1>3, <2>1, <2>2
  <2>4. ASSUME NEW s \in DirSlots, dir[1][s] \in stayed, NeverBehind
        PROVE  listed'[dir[1][s]] = IF E * s < end THEN 1 ELSE 0
    <3>1. /\ s \in Nat /\ E * s \in Nat
          /\ listed[dir[1][s]] = IF E * s < offset THEN 1 ELSE 0
      BY <1>15, <2>4
    <3>2. ASSUME NEW n \in found, offset + E * (n - 1) = E * s
          PROVE  (n <= last <=> E * s < end) /\ offset <= E * s
      <4>1. n \in Nat \ {0} /\ n - 1 \in Nat
        BY <1>10, <1>11
      <4>2. E * (n - 1) \in Nat
        BY <1>3, <4>1, TimesNext
      <4>3. n - 1 < last <=> E * (n - 1) < E * last
        BY <1>3, <2>2, <4>1, SlotOrder
      <4> QED
        BY <1>3, <2>2, <2>3, <3>1, <3>2, <4>1, <4>2, <4>3
    <3>3. CASE Read(dir[1][s])
      <4>1. PICK n \in taken : NameRead(n, misread) = dir[1][s]
        BY <3>3
      <4>2. n \in found /\ n <= last /\ offset + E * (n - 1) = E * s
        BY <1>13, <1>14, <2>1, <2>4, <4>1
      <4>3. E * s < end /\ offset <= E * s
        BY <3>2, <4>2
      <4>4. listed[dir[1][s]] = 0
        BY <1>3, <3>1, <4>3
      <4>5. listed'[dir[1][s]] = OnceMore(listed[dir[1][s]])
        BY <1>15, <2>4, <3>3
      <4> QED
        BY <4>3, <4>4, <4>5 DEF OnceMore
    <3>4. CASE ~ Read(dir[1][s])
      <4>1. listed'[dir[1][s]] = listed[dir[1][s]]
        BY <1>15, <2>4, <3>4
      <4>2. CASE E * s < offset
        <5>1. E * s < end
          BY <1>3, <2>2, <2>3, <3>1, <4>2
        <5> QED
          BY <3>1, <4>1, <4>2, <5>1
      <4>3. CASE offset <= E * s
        <5>1. PICK n \in found : NameRead(n, misread) = dir[1][s] /\ offset + E * (n - 1) = E * s
          BY <1>14, <2>4, <4>3
        <5>2. n \notin taken
          BY <3>4, <5>1
        <5>3. ~ (n <= last)
          BY <1>13, <5>2
        <5>4. ~ (E * s < end)
          BY <3>2, <5>1, <5>3
        <5>5. ~ (E * s < offset)
          BY <1>3, <3>1, <4>3
        <5> QED
          BY <3>1, <4>1, <5>4, <5>5
      <4> QED
        BY <1>3, <3>1, <4>2, <4>3
    <3> QED
      BY <3>3, <3>4
  <2>5. ASSUME NEW s \in DirSlots, dir[1][s] \in stayed, E * s < end
        PROVE  listed'[dir[1][s]] >= 1
    <3>1. CASE NeverBehind
      BY <2>4, <2>5, <3>1
    <3>2. CASE ~ NeverBehind
      <4>1. E * s < offset
        BY <1>3, <1>15, <2>5, <3>2 DEF NeverBehind
      <4>2. listed[dir[1][s]] \in 0 .. 2 /\ listed[dir[1][s]] >= 1
        BY <1>15, <2>5, <4>1
      <4>3. listed'[dir[1][s]] \in {OnceMore(listed[dir[1][s]]), listed[dir[1][s]]}
        BY <1>15, <2>5, Zenon
      <4> QED
        BY <4>2, <4>3 DEF OnceMore
    <3> QED
      BY <3>1, <3>2
  <2>6. ReturnedSoFar'
    <3>1. SUFFICES ASSUME NEW s \in DirSlots, dir[1][s] \in stayed
                   PROVE  /\ E * s < end => listed'[dir[1][s]] >= 1
                          /\ NeverBehind => listed'[dir[1][s]] = IF E * s < end THEN 1 ELSE 0
      BY <1>2, <1>19, <1>17, <2>1, <2>3, Zenon DEF ReturnedSoFar, Passed
    <3> QED
      BY <2>4, <2>5, <3>1
  <2>7. Aligned'
    <3>1. SUFFICES ASSUME end < B PROVE end % E = 0
      BY <2>3, Zenon DEF Aligned
    <3>2. offset < B
      BY <1>3, <2>2, <2>3, <3>1
    <3>3. offset % E = 0
      BY <1>1, <3>2 DEF Aligned
    <3>4. PICK k \in Nat : offset = E * k
      <4>1. offset \div E \in Nat /\ offset = E * (offset \div E) + 0
        BY <1>3, <3>3, DivMod
      <4>2. E * (offset \div E) \in Nat
        BY <1>3, <4>1, TimesNext
      <4> QED
        BY <4>1, <4>2
    <3>5. end = E * (k + last) /\ k + last \in Nat
      <4>1. E * k + E * last = E * (k + last)
        BY <1>3, <2>2
      <4> QED
        BY <2>2, <2>3, <3>4, <4>1
    <3> QED
      BY <1>3, <3>5, DivTimes
  <2>8. ReaddirType'
    <3>1. DirType' = DirType /\ ListedNames' = ListedNames
      BY DEF DirType, DirSlots, PerCluster, SlotNames, ListedNames
    <3>2. offset' \in Nat /\ done' \in BOOLEAN
      BY <1>2, <2>1, <2>3
    <3> QED
      BY <1>1, <1>2, <1>16, <3>1, <3>2 DEF ReaddirType
  <2> QED
    BY <1>18, <1>19, <2>6, <2>7, <2>8 DEF ReaddirInv
<1> QED
  BY <1>9, <1>20, <1>21

-----------------------------------------------------------------------------
(* The listing as a whole *)

\* A new listing has returned nothing yet; what stays is what is there.
LEMMA RewindInv ==
  ASSUME ReaddirInv, Rewind
  PROVE  ReaddirInv'
<1>1. ReaddirType /\ OneSlot
  BY DEF ReaddirInv
<1>2. /\ offset' = 0 /\ done' = FALSE /\ dir' = dir /\ stayed' = NamesIn
      /\ listed' = [name \in DOMAIN listed |-> 0]
  BY DEF Rewind
<1>3. DOMAIN listed = ListedNames
  BY <1>1 DEF ReaddirType
<1>4. DirSlots' = DirSlots /\ DirType' = DirType /\ ListedNames' = ListedNames
  BY DEF DirType, DirSlots, PerCluster, SlotNames, ListedNames
<1>5. ReaddirType'
  <2>1. listed' \in [ListedNames -> 0 .. 2]
    BY <1>2, <1>3
  <2> QED
    BY <1>1, <1>2, <1>4, <2>1 DEF ReaddirType
<1>6. OneSlot'
  BY <1>1, <1>2, <1>4, Zenon DEF OneSlot, Clusters
<1>7. StayedThere'
  <2>1. ASSUME NEW x \in NamesIn PROVE Present(x, dir, Clusters, DirSlots)
    <3>1. PICK p \in Positions : x = dir[p[1]][p[2]] /\ x # NoName
      BY Zenon DEF NamesIn, NoName
    <3>2. p[1] \in Clusters /\ p[2] \in DirSlots
      BY DEF Positions, Clusters, DirSlots
    <3> QED
      BY <3>1, <3>2, Zenon DEF Present
  <2> QED
    BY <1>2, <1>4, <2>1, Zenon DEF StayedThere, Clusters
<1>8. Aligned'
  <2>1. DIR_ENTRY_SIZE * 0 = 0 /\ (DIR_ENTRY_SIZE * 0) % DIR_ENTRY_SIZE = 0
    BY Sizes, DivTimes
  <2> QED
    BY <1>2, <2>1 DEF Aligned
<1>9. ReturnedSoFar'
  <2>1. SUFFICES ASSUME NEW s \in DirSlots, dir[1][s] \in NamesIn
                 PROVE  listed'[dir[1][s]] = 0 /\ ~ (DIR_ENTRY_SIZE * s < 0)
    BY <1>2, <1>4, Zenon DEF ReturnedSoFar, Passed
  <2>2. dir[1][s] \in SlotNames /\ dir[1][s] # NoName
    BY <1>1, <2>1, FirstCluster DEF NamesIn, NoName
  <2>3. dir[1][s] \in ListedNames
    BY <2>2, Zenon DEF SlotNames, ListedNames, NoName
  <2>4. DIR_ENTRY_SIZE * s \in Nat
    BY Sizes, SlotsBegin, TimesNext DEF DirSlots
  <2>5. ~ (DIR_ENTRY_SIZE * s < 0)
    BY <2>4
  <2> QED
    BY <1>2, <1>3, <2>3, <2>5, Zenon
<1>10. NothingForeign'
  BY <1>2, <1>3, Zenon DEF NothingForeign, ListedNames, Foreign
<1> QED
  BY <1>5, <1>6, <1>7, <1>8, <1>9, <1>10 DEF ReaddirInv

\* A new directory has "." and "..", in a slot each.
LEMMA InitInv ==
  ASSUME Init
  PROVE  ReaddirInv
<1> DEFINE first == [EmptyCluster EXCEPT ![0] = ".", ![1] = ".."]
<1>1. 0 \in DirSlots /\ 1 \in DirSlots
  <2>1. DIR_ENTRY_SIZE * 0 = 0 /\ DIR_ENTRY_SIZE * 1 = DIR_ENTRY_SIZE
    BY Sizes
  <2> QED
    BY <2>1, Sizes, SlotsBegin
<1>2. EmptyCluster \in [DirSlots -> SlotNames] /\ \A s \in DirSlots : EmptyCluster[s] = NoName
  BY DEF EmptyCluster, DirSlots, SlotNames, NoName
<1>3. /\ first \in [DirSlots -> SlotNames]
      /\ \A s \in DirSlots : first[s] = IF s = 1 THEN ".." ELSE IF s = 0 THEN "." ELSE NoName
  BY <1>1, <1>2 DEF SlotNames
<1>4. dir = <<first>>
  BY DEF Init
<1> HIDE DEF first
<1>5. dir \in DirType /\ Len(dir) = 1 /\ dir[1] = first
  BY <1>3, <1>4 DEF DirType
<1>6. Clusters = {1}
  BY <1>5 DEF Clusters
<1>7. offset = 0 /\ stayed = {".", ".."} /\ done = FALSE
  BY DEF Init
<1>8. /\ listed \in [ListedNames -> 0 .. 2] /\ \A x \in ListedNames : listed[x] = 0
  BY DEF Init, ListedNames
<1>9. "." # ".." /\ "." # NoName /\ ".." # NoName
  BY DEF NoName
<1>10. ReaddirType
  <2>1. Len(dir) >= 1
    BY <1>5
  <2>2. offset \in Nat /\ done \in BOOLEAN
    BY DEF Init
  <2> QED
    BY <1>5, <1>8, <2>1, <2>2, Zenon DEF ReaddirType
<1>11. OneSlot
  <2>1. ASSUME NEW t \in DirSlots, NEW u \in DirSlots, first[t] = first[u] /\ first[t] # NoName
        PROVE  t = u
    BY <1>3, <1>9, <2>1, Zenon
  <2>2. ASSUME NEW k \in Clusters, NEW l \in Clusters, NEW t \in DirSlots, NEW u \in DirSlots,
               dir[k][t] = dir[l][u] /\ dir[k][t] # NoName
        PROVE  k = l /\ t = u
    <3>1. k = 1 /\ l = 1
      BY <1>6
    <3> QED
      BY <1>5, <2>1, <2>2, <3>1
  <2> QED
    BY <2>2, Zenon DEF OneSlot, Unique
<1>12. StayedThere
  <2>1. dir[1][0] = "." /\ dir[1][1] = ".." /\ 1 \in Clusters
    BY <1>1, <1>3, <1>5, <1>6
  <2> QED
    BY <1>1, <1>7, <1>9, <2>1, Zenon DEF StayedThere, Present
<1>13. Aligned
  <2>1. DIR_ENTRY_SIZE * 0 = 0 /\ (DIR_ENTRY_SIZE * 0) % DIR_ENTRY_SIZE = 0
    BY Sizes, DivTimes
  <2> QED
    BY <1>7, <2>1 DEF Aligned
<1>14. ReturnedSoFar
  <2>1. SUFFICES ASSUME NEW s \in DirSlots, dir[1][s] \in stayed
                 PROVE  listed[dir[1][s]] = 0 /\ ~ (DIR_ENTRY_SIZE * s < 0)
    BY <1>7, Zenon DEF ReturnedSoFar, Passed
  <2>2. dir[1][s] \in ListedNames
    BY <1>7, <2>1, Zenon DEF ListedNames
  <2>3. DIR_ENTRY_SIZE * s \in Nat
    BY Sizes, SlotsBegin, TimesNext DEF DirSlots
  <2>4. ~ (DIR_ENTRY_SIZE * s < 0)
    BY <2>3
  <2> QED
    BY <1>7, <1>8, <2>2, <2>4, Zenon
<1>15. NothingForeign
  BY <1>8, Zenon DEF NothingForeign, ListedNames, Foreign
<1> QED
  BY <1>10, <1>11, <1>12, <1>13, <1>14, <1>15 DEF ReaddirInv

\* Nothing changes in a stuttering step.
LEMMA StutterInv ==
  ASSUME ReaddirInv, UNCHANGED vars
  PROVE  ReaddirInv'
<1>1. dir' = dir /\ offset' = offset /\ listed' = listed /\ stayed' = stayed /\ done' = done
  BY DEF vars
<1> QED
  BY <1>1, Zenon DEF ReaddirInv, ReaddirType, OneSlot, StayedThere, Aligned, ReturnedSoFar, NothingForeign, Passed, NeverBehind, Foreign,
                     Clusters, DirSlots, PerCluster, DirType, SlotNames, ListedNames

\* The inductive invariant: what a listing has returned is what stayed in front
\* of the offset of fat_readdir.
THEOREM InvariantHolds == Spec => []ReaddirInv
<1>1. Init => ReaddirInv
  BY InitInv
<1>2. ReaddirInv /\ [Next]_vars => ReaddirInv'
  BY AddInv, RemoveInv, CallInv, RewindInv, StutterInv DEF Next
<1> QED
  BY <1>1, <1>2, PTL DEF Spec

\* When a listing with fat_readdir has ended, each name that stayed in the first
\* cluster has been returned, whatever was added and removed between the calls;
\* once, and nothing foreign, unless a call resumed in a second cluster, whose
\* misread bytes may spell any name.
THEOREM StayingNamesListed == Spec => []ListedOnce
<1>1. ReaddirInv => ListedOnce
  <2>1. SUFFICES ASSUME ReaddirInv, done PROVE ListedOnce
    BY DEF ListedOnce
  <2>2. ReaddirType /\ StayedThere /\ ReturnedSoFar /\ NothingForeign
    BY <2>1 DEF ReaddirInv
  <2>3. ASSUME NEW s \in DirSlots, dir[1][s] \in stayed
        PROVE  listed[dir[1][s]] \in (IF NeverBehind THEN {1} ELSE {1, 2})
    <3>1. dir[1][s] \in SlotNames /\ dir[1][s] # NoName
      BY <2>2, <2>3, FirstCluster DEF StayedThere, Present
    <3>2. dir[1][s] \in ListedNames
      BY <3>1, Zenon DEF SlotNames, ListedNames, NoName
    <3>3. listed[dir[1][s]] \in 0 .. 2
      BY <2>2, <3>2 DEF ReaddirType
    <3>4. listed[dir[1][s]] >= 1 /\ (NeverBehind => listed[dir[1][s]] = 1)
      BY <2>1, <2>2, <2>3 DEF ReturnedSoFar, Passed
    <3> QED
      BY <3>3, <3>4
  <2> QED
    BY <2>2, <2>3 DEF ListedOnce, NothingForeign, DirSlots
<1> QED
  BY <1>1, InvariantHolds, PTL
=============================================================================
