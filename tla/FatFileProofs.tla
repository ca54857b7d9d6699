--------------------------- MODULE FatFileProofs ---------------------------
(***************************************************************************)
(* That the clusters of a file behave as an array of bytes, for every size *)
(* of a cluster, every disk and every set of requests: the refinement of   *)
(* ByteFile by FatFile, and that no byte of another file gets into a       *)
(* file's clusters.                                                        *)
(***************************************************************************)
EXTENDS FatFile, SequenceTheorems, TLAPS

-----------------------------------------------------------------------------
(* The inductive invariant *)

Clusters == 1 .. ClusterTotal

\* No cluster is twice in a sequence of clusters.
Once(s) == \A i, k \in 1 .. Len(s) : s[i] = s[k] => i = k

\* Two sequences of clusters share none.
Apart(s, t) == \A i \in 1 .. Len(s), k \in 1 .. Len(t) : s[i] # t[k]

\* A cluster belongs to the file, to the other one or to the free list, and
\* has one place there.
Owned ==
    /\ chain \in Seq(Clusters)
    /\ other \in Seq(Clusters)
    /\ pool \in Seq(Clusters)
    /\ Once(chain) /\ Once(other) /\ Once(pool)
    /\ Apart(chain, other) /\ Apart(chain, pool) /\ Apart(other, pool)

\* The chain has room for the size of the file, and is never empty.
Room ==
    /\ size \in Nat
    /\ Len(chain) > 0
    /\ size <= BYTE_PER_CLUSTER * Len(chain)

\* Every byte in the clusters of the file was given to the file, or is 0.
OwnData ==
    /\ DOMAIN data = 1 .. ClusterTotal
    /\ \A i \in 1 .. Len(chain), j \in InCluster : data[chain[i]][j] \in OwnBytes

FileInv == Owned /\ Room /\ OwnData

-----------------------------------------------------------------------------
(* Arithmetic of clusters and bytes *)

\* Dividing by the size of a cluster.
LEMMA DivMod ==
  ASSUME NEW x \in Nat, NEW b \in Nat \ {0}
  PROVE  /\ x \div b \in Nat
         /\ x % b \in 0 .. b - 1
         /\ x = b * (x \div b) + (x % b)
  BY SMT

\* More clusters hold more bytes.
LEMMA TimesMonotone ==
  ASSUME NEW b \in Nat, NEW m \in Nat, NEW n \in Nat, m <= n
  PROVE  b * m <= b * n /\ b * m \in Nat /\ b * n \in Nat
  BY SMT

\* One more cluster.
LEMMA TimesNext ==
  ASSUME NEW b \in Nat, NEW m \in Nat
  PROVE  b * (m + 1) = b * m + b /\ b * m \in Nat
  BY SMT

\* Sums of clusters.
LEMMA TimesSum ==
  ASSUME NEW b \in Nat, NEW m \in Nat, NEW n \in Nat
  PROVE  b * (m + n) = b * m + b * n /\ b * m \in Nat /\ b * n \in Nat
  BY SMT

\* A byte in an earlier cluster has a smaller position.
LEMMA ClusterOrder ==
  ASSUME NEW b \in Nat \ {0}, NEW m \in Nat, NEW n \in Nat, m < n,
         NEW j \in 0 .. b - 1
  PROVE  b * m + j < b * n
<1>1. b * (m + 1) <= b * n /\ b * n \in Nat
  BY TimesMonotone, m + 1 \in Nat, m + 1 <= n
<1>2. b * (m + 1) = b * m + b /\ b * m \in Nat
  BY TimesNext
<1> QED
  BY <1>1, <1>2

\* The cluster of a byte and the place in it are determined by its position.
LEMMA PlaceUnique ==
  ASSUME NEW b \in Nat \ {0}, NEW m \in Nat, NEW j \in 0 .. b - 1
  PROVE  (b * m + j) \div b = m /\ (b * m + j) % b = j
<1> DEFINE x == b * m + j
<1> DEFINE q == x \div b
<1>1. x \in Nat
  BY TimesNext
<1>2. q \in Nat /\ x % b \in 0 .. b - 1 /\ x = b * q + (x % b)
  BY <1>1, DivMod
<1>3. b * m \in Nat /\ b * q \in Nat
  BY <1>2, TimesNext
<1>4. ~ (q < m)
  <2>1. SUFFICES ASSUME q < m PROVE FALSE
    OBVIOUS
  <2>2. b * q + (x % b) < b * m
    BY <1>2, <2>1, ClusterOrder
  <2> QED
    BY <1>2, <1>3, <2>2
<1>5. ~ (m < q)
  <2>1. SUFFICES ASSUME m < q PROVE FALSE
    OBVIOUS
  <2>2. b * m + j < b * q
    BY <1>2, <2>1, ClusterOrder
  <2> QED
    BY <1>2, <1>3, <2>2
<1>6. q = m
  BY <1>2, <1>4, <1>5
<1>7. x % b = j
  BY <1>2, <1>3, <1>6
<1> QED
  BY <1>6, <1>7

\* A byte below n clusters is in one of the first n.
LEMMA DivLess ==
  ASSUME NEW x \in Nat, NEW b \in Nat \ {0}, NEW n \in Nat, x < b * n
  PROVE  x \div b < n
<1>1. x \div b \in Nat /\ x % b \in 0 .. b - 1 /\ x = b * (x \div b) + (x % b)
  BY DivMod
<1>2. ASSUME n <= x \div b PROVE FALSE
  <2>1. b * n <= b * (x \div b) /\ b * n \in Nat /\ b * (x \div b) \in Nat
    BY <1>1, <1>2, TimesMonotone
  <2> QED
    BY <1>1, <2>1
<1> QED
  BY <1>1, <1>2

-----------------------------------------------------------------------------
(* Sequences of clusters *)

\* Elements of two sequences put together.
LEMMA CatElements ==
  ASSUME NEW S, NEW s \in Seq(S), NEW t \in Seq(S)
  PROVE  /\ s \o t \in Seq(S)
         /\ Len(s \o t) = Len(s) + Len(t)
         /\ Len(s) \in Nat /\ Len(t) \in Nat
         /\ \A i \in 1 .. Len(s \o t) :
               (s \o t)[i] = IF i <= Len(s) THEN s[i] ELSE t[i - Len(s)]
  BY ConcatProperties

\* Elements of a part of a sequence.
LEMMA PartElements ==
  ASSUME NEW S, NEW s \in Seq(S), NEW m \in Nat \ {0}, NEW n \in Nat,
         m <= n + 1, n <= Len(s)
  PROVE  /\ SubSeq(s, m, n) \in Seq(S)
         /\ Len(SubSeq(s, m, n)) = n + 1 - m
         /\ Len(s) \in Nat
         /\ \A i \in 1 .. n + 1 - m : SubSeq(s, m, n)[i] = s[m + i - 1]
  BY SMT

\* Chains and lists that share no cluster put together: every cluster still
\* has one place.
LEMMA CatApart ==
  ASSUME NEW S, NEW s \in Seq(S), NEW t \in Seq(S), NEW u \in Seq(S),
         Once(s), Once(t), Apart(s, t), Apart(s, u), Apart(t, u)
  PROVE  /\ s \o t \in Seq(S)
         /\ Once(s \o t)
         /\ Apart(s \o t, u) /\ Apart(u, s \o t)
<1> DEFINE w == s \o t
<1>1. /\ w \in Seq(S)
      /\ Len(w) = Len(s) + Len(t)
      /\ Len(s) \in Nat /\ Len(t) \in Nat
      /\ \A i \in 1 .. Len(w) : w[i] = IF i <= Len(s) THEN s[i] ELSE t[i - Len(s)]
  BY CatElements
<1> HIDE DEF w
<1>2. ASSUME NEW i \in 1 .. Len(w)
      PROVE  \/ i \in 1 .. Len(s) /\ w[i] = s[i]
             \/ i - Len(s) \in 1 .. Len(t) /\ w[i] = t[i - Len(s)] /\ i > Len(s)
  BY <1>1
<1>3. ASSUME NEW i \in 1 .. Len(w), NEW k \in 1 .. Len(w), w[i] = w[k]
      PROVE  i = k
  <2>1. ASSUME NEW x \in 1 .. Len(s), NEW y \in 1 .. Len(t) PROVE s[x] # t[y]
    BY DEF Apart
  <2>2. ASSUME NEW x \in 1 .. Len(s), NEW y \in 1 .. Len(s), s[x] = s[y] PROVE x = y
    BY <2>2 DEF Once
  <2>3. ASSUME NEW x \in 1 .. Len(t), NEW y \in 1 .. Len(t), t[x] = t[y] PROVE x = y
    BY <2>3 DEF Once
  <2>4. CASE i - Len(s) \in 1 .. Len(t) /\ w[i] = t[i - Len(s)] /\ k - Len(s) \in 1 .. Len(t) /\ w[k] = t[k - Len(s)]
    <3>1. i - Len(s) = k - Len(s)
      BY <1>3, <2>3, <2>4
    <3> QED
      BY <1>1, <3>1
  <2> QED
    BY <1>2, <1>3, <2>1, <2>2, <2>4
<1>4. ASSUME NEW i \in 1 .. Len(w), NEW k \in 1 .. Len(u)
      PROVE  w[i] # u[k]
  BY <1>2 DEF Apart
<1>5. Once(w) /\ Apart(w, u) /\ Apart(u, w)
  BY <1>3, <1>4, Zenon DEF Once, Apart
<1> QED
  BY <1>1, <1>5 DEF w

\* Cutting a chain or taking from the free list: the two parts share no
\* cluster, with each other or with what the whole did not share with.
LEMMA PartApart ==
  ASSUME NEW S, NEW s \in Seq(S), NEW n \in Nat, n <= Len(s), Once(s)
  PROVE  /\ SubSeq(s, 1, n) \in Seq(S)
         /\ SubSeq(s, n + 1, Len(s)) \in Seq(S)
         /\ Once(SubSeq(s, 1, n)) /\ Once(SubSeq(s, n + 1, Len(s)))
         /\ Apart(SubSeq(s, 1, n), SubSeq(s, n + 1, Len(s)))
         /\ \A u \in Seq(S) : Apart(u, s) =>
               /\ Apart(u, SubSeq(s, 1, n))
               /\ Apart(u, SubSeq(s, n + 1, Len(s)))
<1> DEFINE a == SubSeq(s, 1, n)
           z == SubSeq(s, n + 1, Len(s))
<1>0. Len(s) \in Nat
  OBVIOUS
<1>1. a \in Seq(S) /\ Len(a) = n /\ \A i \in 1 .. n : a[i] = s[i]
  BY <1>0, PartElements
<1>2. /\ z \in Seq(S) /\ Len(z) = Len(s) - n
      /\ \A i \in 1 .. Len(s) - n : z[i] = s[n + i]
  <2>1. /\ z \in Seq(S) /\ Len(z) = Len(s) + 1 - (n + 1)
        /\ \A i \in 1 .. Len(s) + 1 - (n + 1) : z[i] = s[n + 1 + i - 1]
    BY <1>0, n + 1 \in Nat \ {0}, n + 1 <= Len(s) + 1, PartElements
  <2> QED
    BY <1>0, <2>1
<1> HIDE DEF a, z
<1>3. Once(a) /\ Once(z) /\ Apart(a, z)
  <2>1. ASSUME NEW i \in 1 .. Len(s), NEW k \in 1 .. Len(s), s[i] = s[k] PROVE i = k
    BY <2>1 DEF Once
  <2>2. ASSUME NEW i \in 1 .. Len(a), NEW k \in 1 .. Len(a), a[i] = a[k] PROVE i = k
    BY <1>0, <1>1, <2>1, <2>2
  <2>3. ASSUME NEW i \in 1 .. Len(z), NEW k \in 1 .. Len(z), z[i] = z[k] PROVE i = k
    <3>1. n + i \in 1 .. Len(s) /\ n + k \in 1 .. Len(s) /\ s[n + i] = s[n + k]
      BY <1>0, <1>2, <2>3
    <3>2. n + i = n + k
      BY <2>1, <3>1
    <3> QED
      BY <3>2
  <2>4. ASSUME NEW i \in 1 .. Len(a), NEW k \in 1 .. Len(z) PROVE a[i] # z[k]
    <3>1. n + k \in 1 .. Len(s) /\ i \in 1 .. Len(s) /\ a[i] = s[i] /\ z[k] = s[n + k] /\ i # n + k
      BY <1>0, <1>1, <1>2
    <3> QED
      BY <2>1, <3>1
  <2> QED
    BY <2>2, <2>3, <2>4, Zenon DEF Once, Apart
<1>4. ASSUME NEW u \in Seq(S), Apart(u, s) PROVE Apart(u, a) /\ Apart(u, z)
  BY <1>0, <1>1, <1>2, <1>4, SMTT(30) DEF Apart
<1> QED
  BY <1>1, <1>2, <1>3, <1>4 DEF a, z

\* Sharing no cluster is symmetric.
LEMMA ApartSym ==
  ASSUME NEW s, NEW t, Apart(s, t)
  PROVE  Apart(t, s)
  BY DEF Apart

-----------------------------------------------------------------------------
(* What the loops of update_file write *)

\* A byte of a cluster after memcpy.
LEMMA CopiedByte ==
  ASSUME NEW bytes, NEW within, NEW buf, NEW from, NEW n, NEW j \in InCluster
  PROVE  Copied(bytes, within, buf, from, n)[j]
            = IF j \in within .. within + n - 1 THEN buf[from + j - within + 1] ELSE bytes[j]
  BY DEF Copied

\* The clusters that a chain must have for bytes up to end.
LEMMA ClustersNeeded ==
  ASSUME NEW b \in Nat \ {0}, NEW m \in Nat, NEW n \in Nat, b * m <= b * n
  PROVE  m <= n
<1>1. ASSUME n < m PROVE FALSE
  <2>1. b * n + 0 < b * m
    BY <1>1, ClusterOrder, 0 \in 0 .. b - 1
  <2>2. b * n \in Nat /\ b * m \in Nat
    BY TimesNext
  <2> QED
    BY <2>1, <2>2
<1> QED
  BY <1>1

\* The position in the file of byte j of its cluster number i.
Position(i, j) == BYTE_PER_CLUSTER * i + j

\* What a write puts at a position p where old was.
Overlay(old, buf, offset, p) ==
    IF p \in offset .. offset + Len(buf) - 1 THEN buf[p - offset + 1] ELSE old

\* The first part, the full clusters and the last part of a write are just
\* its bytes, in place: byte j of cluster number i changes when its position
\* is among the ones written, and is then the byte of the buffer for it.
LEMMA WriteEffect ==
  ASSUME NEW d, NEW ch \in Seq(Clusters), NEW buf \in Seq(OwnBytes), NEW offset \in Nat,
         NEW i \in 0 .. Len(ch) - 1, NEW j \in InCluster,
         Once(ch), Len(buf) > 0, offset + Len(buf) <= BYTE_PER_CLUSTER * Len(ch)
  PROVE  write_clusters(d, ch, buf, offset)[ch[i + 1]][j]
            = Overlay(d[ch[i + 1]][j], buf, offset, Position(i, j))
<1> DEFINE B      == BYTE_PER_CLUSTER
           start  == offset \div B
           within == offset % B
           room   == B - within
           num    == IF Len(buf) < room THEN Len(buf) ELSE room
           full   == (Len(buf) - num) \div B
           rest   == (Len(buf) - num) % B
           W      == write_clusters(d, ch, buf, offset)
           p      == Position(i, j)
           c      == ch[i + 1]
           Bs     == B * start
           Bf     == B * full
           Bi     == B * i
           L      == Len(buf)
           N      == Len(ch)
<1>b. B \in Nat \ {0} /\ InCluster = 0 .. B - 1
  BY FileAssumption DEF InCluster
<1>l. L \in Nat \ {0} /\ N \in Nat /\ i \in Nat /\ i < N
  OBVIOUS
<1>s. start \in Nat /\ within \in 0 .. B - 1 /\ offset = Bs + within
  BY <1>b, DivMod
<1>n. num \in 1 .. L /\ room \in 1 .. B /\ (L = num \/ num = room) /\ num <= room
  BY <1>b, <1>l, <1>s
<1>f. full \in Nat /\ rest \in 0 .. B - 1 /\ L - num = Bf + rest
  <2>1. L - num \in Nat
    BY <1>l, <1>n
  <2> QED
    BY <1>b, <2>1, DivMod
<1>p. Bs \in Nat /\ Bf \in Nat /\ Bi \in Nat /\ p = Bi + j
  BY <1>b, <1>l, <1>s, <1>f, TimesNext DEF Position
<1>c. c \in 1 .. ClusterTotal
  <2>1. i + 1 \in 1 .. Len(ch)
    BY <1>l
  <2> QED
    BY <2>1, ElementOfSeq DEF Clusters
<1>w. W[c] = IF ch[start + 1] = c THEN Copied(d[c], within, buf, 0, num)
             ELSE IF \E n \in 1 .. full : ch[start + 1 + n] = c
             THEN LET n == CHOOSE n \in 1 .. full : ch[start + 1 + n] = c
                  IN  Copied(d[c], 0, buf, num + (n - 1) * B, B)
             ELSE IF rest > 0 /\ ch[start + 2 + full] = c
             THEN Copied(d[c], 0, buf, num + full * B, rest)
             ELSE d[c]
  BY <1>c DEF write_clusters, modify_last
<1>o. ASSUME NEW k \in 1 .. N, ch[k] = c PROVE k = i + 1
  <2>1. i + 1 \in 1 .. N
    BY <1>l
  <2> QED
    BY <1>o, <2>1 DEF Once
<1> SUFFICES W[c][j] = IF p \in offset .. offset + L - 1 THEN buf[p - offset + 1] ELSE d[c][j]
  BY DEF Overlay
<1>e. offset + L <= B * N
  OBVIOUS
<1>q. /\ B * (start + 1) = Bs + B
      /\ B * (i + 1) = Bi + B
      /\ B * (start + 1 + full) = Bs + B + Bf
      /\ B * (start + 2 + full) = Bs + B + B + Bf
      /\ full * B = Bf
  <2> HIDE DEF start, full, B
  <2>1. B * (start + 1) = Bs + B /\ B * (i + 1) = Bi + B
    BY <1>b, <1>s, TimesNext
  <2>2. /\ B * ((start + 1) + full) = B * (start + 1) + Bf
        /\ B * ((start + 2) + full) = B * (start + 2) + Bf
    BY <1>b, <1>s, <1>f, TimesSum, start + 1 \in Nat, start + 2 \in Nat
  <2>3. B * (start + 2) = Bs + B * 2 /\ B * 2 = B + B
    BY <1>b, <1>s, TimesSum, 2 \in Nat
  <2>4. full * B = Bf
    BY <1>b, <1>f
  <2> QED
    BY <1>b, <1>s, <1>f, <1>p, <2>1, <2>2, <2>3, <2>4
<1>m. /\ full > 0 => Bf >= B
      /\ full = 0 => Bf = 0
  <2> HIDE DEF full, B
  <2>1. full > 0 => B * 1 <= B * full
    BY <1>b, <1>f, TimesMonotone, 1 \in Nat
  <2> QED
    BY <1>b, <1>f, <2>1
<1>1. start + 1 <= N
  <2>1. offset < B * N
    BY <1>b, <1>e, <1>l
  <2>2. start < N
    BY <1>b, <1>l, <2>1, DivLess
  <2> QED
    BY <1>l, <1>s, <2>2
<1>2. full > 0 => start + 1 + full <= N
  <2>1. SUFFICES ASSUME full > 0 PROVE start + 1 + full <= N
    OBVIOUS
  <2> HIDE DEF start, within, num, full, rest, room, L, N, Bs, Bf, B
  <2>2. Bs + B + Bf <= B * N
    BY <1>b, <1>l, <1>s, <1>n, <1>f, <1>e, <1>m, <1>p, <2>1 DEF room
  <2>3. B * (start + 1 + full) <= B * N
    BY <1>q, <2>2
  <2> QED
    BY <1>b, <1>l, <1>s, <1>f, <2>3, ClustersNeeded, start + 1 + full \in Nat
<1>3. rest > 0 => start + 2 + full <= N
  <2>1. SUFFICES ASSUME rest > 0 PROVE start + 2 + full <= N
    OBVIOUS
  <2> HIDE DEF start, within, num, full, rest, room, L, N, Bs, Bf, B
  <2>2. Bs + B + Bf + rest <= B * N /\ B * N \in Nat
    BY <1>b, <1>l, <1>s, <1>n, <1>f, <1>e, <1>m, <1>p, <2>1, TimesNext DEF room
  <2>3. ASSUME N <= start + 1 + full PROVE FALSE
    <3>1. B * N <= B * (start + 1 + full)
      BY <1>b, <1>l, <1>s, <1>f, <2>3, TimesMonotone, start + 1 + full \in Nat
    <3> QED
      BY <1>b, <1>f, <1>p, <1>q, <2>1, <2>2, <3>1, SMTT(30)
  <2> QED
    BY <1>l, <1>s, <1>f, <2>3
<1> HIDE DEF start, within, num, full, rest, room, L, N, Bs, Bf, Bi, B, W, c, p
<1>4. CASE i = start
  <2>1. W[c] = Copied(d[c], within, buf, 0, num)
    BY <1>w, <1>4 DEF c
  <2>2. W[c][j] = IF j \in within .. within + num - 1 THEN buf[0 + j - within + 1] ELSE d[c][j]
    BY <2>1, CopiedByte
  <2>3. Bi = Bs
    BY <1>4 DEF Bi, Bs
  <2>4. /\ (j \in within .. within + num - 1) <=> (p \in offset .. offset + L - 1)
        /\ 0 + j - within + 1 = p - offset + 1
    BY <1>b, <1>l, <1>s, <1>n, <1>p, <2>3 DEF room
  <2> QED
    BY <2>2, <2>4
<1>5. CASE i > start /\ i <= start + full
  <2>1. i - start \in 1 .. full /\ ch[start + 1 + (i - start)] = c
    BY <1>s, <1>f, <1>5 DEF c
  <2>2. ch[start + 1] # c
    BY <1>s, <1>l, <1>1, <1>o, <1>5
  <2>3. ASSUME NEW n \in 1 .. full, ch[start + 1 + n] = c PROVE n = i - start
    <3>1. start + 1 + n \in 1 .. N
      BY <1>s, <1>l, <1>f, <1>2
    <3>2. start + 1 + n = i + 1
      BY <1>o, <2>3, <3>1
    <3> QED
      BY <1>s, <1>f, <3>2
  <2>4. (CHOOSE n \in 1 .. full : ch[start + 1 + n] = c) = i - start
    BY <2>1, <2>3
  <2>5. W[c] = Copied(d[c], 0, buf, num + ((i - start) - 1) * B, B)
    BY <1>w, <2>1, <2>2, <2>4
  <2>6. W[c][j] = IF j \in 0 .. 0 + B - 1 THEN buf[num + ((i - start) - 1) * B + j - 0 + 1] ELSE d[c][j]
    BY <2>5, CopiedByte
  <2>7. ((i - start) - 1) * B = Bi - Bs - B
    BY <1>b, <1>s, <1>5 DEF Bi, Bs
  <2>8. Bi >= Bs + B /\ Bi + B <= Bs + B + Bf
    <3>1. B * (start + 1) <= B * i
      BY <1>b, <1>s, <1>5, TimesMonotone
    <3>2. B * (i + 1) <= B * (start + 1 + full)
      BY <1>b, <1>s, <1>f, <1>5, TimesMonotone, i + 1 \in Nat, start + 1 + full \in Nat
    <3> QED
      BY <1>q, <3>1, <3>2 DEF Bi
  <2>9. num = room
    BY <1>b, <1>n, <1>f, <1>p, <1>m, <1>l, <2>1
  <2>10. /\ j \in 0 .. 0 + B - 1
         /\ p \in offset .. offset + L - 1
         /\ num + ((i - start) - 1) * B + j - 0 + 1 = p - offset + 1
    BY <1>b, <1>l, <1>s, <1>n, <1>f, <1>p, <2>7, <2>8, <2>9 DEF room
  <2> QED
    BY <2>6, <2>10
<1>6. CASE i < start
  <2>1. ch[start + 1] # c
    BY <1>s, <1>l, <1>1, <1>o, <1>6
  <2>2. ASSUME NEW n \in 1 .. full PROVE ch[start + 1 + n] # c
    BY <1>s, <1>l, <1>f, <1>2, <1>o, <1>6
  <2>3. rest > 0 => ch[start + 2 + full] # c
    BY <1>s, <1>l, <1>f, <1>3, <1>o, <1>6
  <2>4. W[c] = d[c]
    BY <1>w, <2>1, <2>2, <2>3
  <2>5. p < offset
    <3>1. B * i + j < B * start
      BY <1>b, <1>l, <1>s, <1>6, ClusterOrder
    <3> QED
      BY <1>b, <1>s, <1>p, <3>1 DEF Bi, Bs
  <2> QED
    BY <1>b, <1>l, <1>p, <2>4, <2>5
<1>7. CASE i > start + full
  <2>1. ch[start + 1] # c
    BY <1>s, <1>l, <1>f, <1>1, <1>o, <1>7
  <2>2. ASSUME NEW n \in 1 .. full PROVE ch[start + 1 + n] # c
    BY <1>s, <1>l, <1>f, <1>2, <1>o, <1>7
  <2>3. Bs + B + Bf <= Bi
    <3>1. B * (start + 1 + full) <= B * i
      BY <1>b, <1>s, <1>f, <1>7, TimesMonotone, start + 1 + full \in Nat
    <3> QED
      BY <1>q, <3>1 DEF Bi
  <2>4. CASE rest > 0 /\ i = start + 1 + full
    <3>1. ch[start + 2 + full] = c
      BY <1>s, <1>f, <2>4 DEF c
    <3>2. W[c] = Copied(d[c], 0, buf, num + full * B, rest)
      BY <1>w, <2>1, <2>2, <2>4, <3>1
    <3>3. W[c][j] = IF j \in 0 .. 0 + rest - 1 THEN buf[num + full * B + j - 0 + 1] ELSE d[c][j]
      BY <3>2, CopiedByte
    <3>4. Bi = Bs + B + Bf
      BY <1>q, <2>4 DEF Bi
    <3>5. num = room
      BY <1>b, <1>n, <1>f, <1>p, <1>l, <2>4
    <3>6. /\ (j \in 0 .. 0 + rest - 1) <=> (p \in offset .. offset + L - 1)
          /\ num + full * B + j - 0 + 1 = p - offset + 1
      <4>1. p - offset = num + Bf + j /\ full * B = Bf /\ j \in Nat
        BY <1>b, <1>s, <1>n, <1>f, <1>p, <1>q, <3>4, <3>5 DEF room
      <4> QED
        BY <1>b, <1>l, <1>s, <1>n, <1>f, <1>p, <4>1
    <3> QED
      BY <3>3, <3>6
  <2>5. CASE ~ (rest > 0 /\ i = start + 1 + full)
    <3>1. ~ (rest > 0 /\ ch[start + 2 + full] = c)
      BY <1>s, <1>l, <1>f, <1>3, <1>o, <2>5
    <3>2. W[c] = d[c]
      BY <1>w, <2>1, <2>2, <3>1
    <3>3. rest > 0 => Bs + B + B + Bf <= Bi
      <4>1. SUFFICES ASSUME rest > 0 PROVE Bs + B + B + Bf <= Bi
        OBVIOUS
      <4>2. B * (start + 2 + full) <= B * i
        BY <1>b, <1>s, <1>f, <1>7, <2>5, <4>1, TimesMonotone, start + 2 + full \in Nat
      <4> QED
        BY <1>q, <4>2 DEF Bi
    <3>4. p >= offset + L
      BY <1>b, <1>l, <1>s, <1>n, <1>f, <1>p, <2>3, <3>3 DEF room
    <3> QED
      <4>1. p \notin offset .. offset + L - 1
        BY <1>b, <1>l, <1>p, <1>s, <3>4
      <4> QED
        BY <3>2, <4>1, Zenon
  <2> QED
    BY <2>4, <2>5
<1> QED
  BY <1>s, <1>f, <1>4, <1>5, <1>6, <1>7

-----------------------------------------------------------------------------
(* update_file *)

\* The chain and the clusters taken from the free list: new clusters hold
\* zeros, the others what they held.
LEMMA TakenClusters ==
  ASSUME Owned, NEW k \in 0 .. Len(pool),
         NEW ch, ch = chain \o SubSeq(pool, 1, k),
         NEW i \in 0 .. Len(ch) - 1, NEW j \in InCluster
  PROVE  pop_free_clusters(data, k)[ch[i + 1]][j]
            = IF i < Len(chain) THEN data[chain[i + 1]][j] ELSE 0
<1> DEFINE t == SubSeq(pool, 1, k)
<1>1. chain \in Seq(Clusters) /\ pool \in Seq(Clusters)
  BY DEF Owned
<1>2. /\ Len(chain) \in Nat /\ Len(pool) \in Nat
      /\ k \in Nat /\ k <= Len(pool) /\ i \in Nat
  BY <1>1
<1>3. /\ t \in Seq(Clusters) /\ Len(t) = k
      /\ \A m \in 1 .. k : t[m] = pool[m]
  <2>1. 1 \in Nat \ {0} /\ 1 <= k + 1
    BY <1>2
  <2>2. /\ t \in Seq(Clusters) /\ Len(t) = k + 1 - 1
        /\ \A m \in 1 .. k + 1 - 1 : t[m] = pool[1 + m - 1]
    BY <1>1, <1>2, <2>1, PartElements
  <2> HIDE DEF t
  <2> QED
    BY <2>2
<1>4. /\ Len(ch) = Len(chain) + k
      /\ \A m \in 1 .. Len(ch) :
            ch[m] = IF m <= Len(chain) THEN chain[m] ELSE t[m - Len(chain)]
  <2> HIDE DEF t
  <2>1. ch = chain \o t
    BY DEF t
  <2> QED
    BY <1>1, <1>3, <2>1, CatElements
<1> HIDE DEF t
<1>5. CASE i < Len(chain)
  <2>1. i + 1 \in 1 .. Len(chain) /\ ch[i + 1] = chain[i + 1]
    BY <1>2, <1>4, <1>5
  <2>2. chain[i + 1] \in 1 .. ClusterTotal
    BY <1>1, <2>1, ElementOfSeq DEF Clusters
  <2>3. ASSUME NEW m \in 1 .. k PROVE pool[m] # chain[i + 1]
    <3>1. m \in 1 .. Len(pool)
      BY <1>2
    <3> QED
      BY <2>1, <3>1 DEF Owned, Apart
  <2> QED
    BY <1>5, <2>1, <2>2, <2>3 DEF pop_free_clusters
<1>6. CASE ~ (i < Len(chain))
  <2>1. /\ i + 1 - Len(chain) \in 1 .. k
        /\ i + 1 \in 1 .. Len(ch)
        /\ ~ (i + 1 <= Len(chain))
    BY <1>2, <1>4, <1>6
  <2>2. ch[i + 1] = pool[i + 1 - Len(chain)]
    BY <1>3, <1>4, <2>1
  <2>3. i + 1 - Len(chain) \in 1 .. Len(pool)
    BY <1>2, <2>1
  <2>4. ch[i + 1] \in 1 .. ClusterTotal
    BY <1>1, <2>2, <2>3, ElementOfSeq DEF Clusters
  <2> QED
    BY <1>6, <2>1, <2>2, <2>4 DEF pop_free_clusters
<1> QED
  BY <1>5, <1>6

\* The byte at position p (from 0) of the file.
ByteOf(p) == ByteAt(p \div BYTE_PER_CLUSTER, p % BYTE_PER_CLUSTER)

\* update_file writes its buffer and nothing else, or does nothing; the file
\* then has all bytes up to its size, and none that is not its own.
LEMMA UpdateFile ==
  ASSUME FileInv, NEW buf \in Seq(OwnBytes), Len(buf) > 0, NEW offset \in Nat, NEW ok
  PROVE  update_file(buf, offset, ok) =>
         /\ FileInv'
         /\ \/ /\ answer' = Returned(ok, <<>>)
               /\ size' = IF offset + Len(buf) > size THEN offset + Len(buf) ELSE size
               /\ \A p \in Nat : p < size' =>
                     /\ p \in offset .. offset + Len(buf) - 1 => ByteOf(p)' = buf[p - offset + 1]
                     /\ p \notin offset .. offset + Len(buf) - 1 /\ p < size => ByteOf(p)' = ByteOf(p)
                     /\ ByteOf(p)' \in OwnBytes
            \/ /\ answer' \in {Returned(-1, <<>>), answer}
               /\ UNCHANGED <<chain, other, pool, data, size>>
<1> DEFINE B    == BYTE_PER_CLUSTER
           end  == offset + Len(buf)
           need == (end - 1) \div B + 1
           more == IF need > Len(chain) THEN need - Len(chain) ELSE 0
           taken == SubSeq(pool, 1, more)
           left == SubSeq(pool, more + 1, Len(pool))
           ch   == chain \o taken
           d1   == pop_free_clusters(data, more)
           d2   == write_clusters(d1, ch, buf, offset)
           Done == /\ more <= Len(pool)
                   /\ chain' = ch
                   /\ pool' = left
                   /\ data' = d2
                   /\ size' = IF end > size THEN end ELSE size
                   /\ answer' = Returned(ok, <<>>)
                   /\ UNCHANGED other
           Refused == /\ answer' \in {Returned(-1, <<>>), answer}
                      /\ UNCHANGED <<chain, other, pool, data, size>>
<1>0. ASSUME NEW e, NEW w \in Seq(Clusters), NEW i \in 0 .. Len(w) - 1, NEW j \in InCluster,
             Once(w), offset + Len(buf) <= BYTE_PER_CLUSTER * Len(w)
      PROVE  write_clusters(e, w, buf, offset)[w[i + 1]][j]
               = Overlay(e[w[i + 1]][j], buf, offset, Position(i, j))
  BY <1>0, WriteEffect, ZenonT(30)
<1>2. B \in Nat \ {0} /\ InCluster = 0 .. B - 1 /\ 0 \in OwnBytes
  BY FileAssumption DEF InCluster
<1>3. /\ chain \in Seq(Clusters) /\ pool \in Seq(Clusters)
      /\ other \in Seq(Clusters)
      /\ Len(chain) \in Nat /\ Len(pool) \in Nat /\ Len(buf) \in Nat
      /\ size \in Nat /\ Len(chain) > 0 /\ size <= B * Len(chain)
  BY DEF FileInv, Owned, Room
<1>1. ASSUME more <= Len(pool)
      PROVE  /\ ch \in Seq(Clusters) /\ left \in Seq(Clusters)
             /\ Once(ch) /\ Once(left) /\ Apart(ch, left) /\ Apart(ch, other) /\ Apart(other, left)
             /\ Len(ch) \in Nat /\ Len(ch) > 0 /\ DOMAIN d2 = 1 .. ClusterTotal
             /\ end \in Nat /\ end <= B * Len(ch) /\ size <= B * Len(ch) /\ B * Len(ch) \in Nat
             /\ \A i \in Nat, j \in InCluster, p \in Nat :
                   i < Len(ch) /\ p = B * i + j =>
                      /\ d2[ch[i + 1]][j] \in OwnBytes
                      /\ p \in offset .. offset + Len(buf) - 1 =>
                            d2[ch[i + 1]][j] = buf[p - offset + 1]
                      /\ p \notin offset .. offset + Len(buf) - 1 /\ i < Len(chain) =>
                            d2[ch[i + 1]][j] = data[chain[i + 1]][j]
  <2>0. need \in Nat \ {0} /\ end \in Nat \ {0} /\ end <= B * need
    <3>1. end - 1 \in Nat /\ end \in Nat \ {0}
      BY <1>3
    <3>2. /\ (end - 1) \div B \in Nat /\ (end - 1) % B \in 0 .. B - 1
          /\ end - 1 = B * ((end - 1) \div B) + ((end - 1) % B)
      BY <1>2, <3>1, DivMod
    <3>3. B * ((end - 1) \div B + 1) = B * ((end - 1) \div B) + B /\ B * ((end - 1) \div B) \in Nat
      BY <1>2, <3>2, TimesNext
    <3> HIDE DEF end, B
    <3> QED
      BY <1>2, <3>1, <3>2, <3>3
  <2>1. more \in Nat /\ more <= Len(pool) /\ need <= Len(chain) + more
    <3> HIDE DEF need
    <3> QED
      BY <1>3, <1>1, <2>0
  <2>2. /\ taken \in Seq(Clusters) /\ left \in Seq(Clusters)
        /\ Once(taken) /\ Once(left) /\ Apart(taken, left)
        /\ Apart(chain, taken) /\ Apart(chain, left)
        /\ Apart(other, taken) /\ Apart(other, left)
        /\ Len(taken) = more
    <3> HIDE DEF more
    <3>1. Once(pool) /\ Apart(chain, pool) /\ Apart(other, pool)
      BY DEF FileInv, Owned
    <3>2. Len(taken) = more
      BY <1>3, <2>1, PartElements
    <3> QED
      BY <1>3, <2>1, <3>1, <3>2, PartApart
  <2>3. /\ ch \in Seq(Clusters) /\ Once(ch)
        /\ Apart(ch, left) /\ Apart(ch, other)
        /\ Len(ch) = Len(chain) + more
    <3> HIDE DEF taken, left
    <3>1. Once(chain) /\ Apart(chain, other) /\ Apart(taken, other)
      BY <2>2, ApartSym DEF FileInv, Owned
    <3>2. /\ ch \in Seq(Clusters) /\ Once(ch) /\ Apart(ch, left)
      BY <1>3, <2>2, <3>1, CatApart
    <3>3. Apart(ch, other)
      BY <1>3, <2>2, <3>1, CatApart
    <3>4. Len(ch) = Len(chain) + more
      BY <1>3, <2>2, CatElements
    <3> QED
      BY <3>2, <3>3, <3>4
  <2>4. end <= B * Len(ch) /\ size <= B * Len(ch) /\ Len(ch) \in Nat /\ B * Len(ch) \in Nat
    <3> HIDE DEF need, more, ch, end, B
    <3>1. Len(ch) \in Nat /\ need <= Len(ch) /\ Len(chain) <= Len(ch)
      BY <1>3, <2>0, <2>1, <2>3
    <3>2. B * need <= B * Len(ch) /\ B * need \in Nat /\ B * Len(ch) \in Nat
      BY <1>2, <2>0, <3>1, TimesMonotone
    <3>3. B * Len(chain) <= B * Len(ch) /\ B * Len(chain) \in Nat
      BY <1>2, <1>3, <3>1, TimesMonotone
    <3> QED
      BY <1>3, <2>0, <3>1, <3>2, <3>3
  <2>5. ASSUME NEW i \in Nat, i < Len(ch), NEW j \in InCluster
        PROVE  d1[ch[i + 1]][j] = IF i < Len(chain) THEN data[chain[i + 1]][j] ELSE 0
    <3>1. PICK k : k = more
      OBVIOUS
    <3>2. PICK w : w = ch
      OBVIOUS
    <3>3. w = chain \o SubSeq(pool, 1, k) /\ Owned
      BY <3>1, <3>2 DEF FileInv
    <3>6. d1 = pop_free_clusters(data, k)
      BY <3>1
    <3> HIDE DEF more, ch, d1
    <3>4. i \in 0 .. Len(w) - 1 /\ k \in 0 .. Len(pool)
      BY <1>3, <2>1, <2>3, <2>5, <3>1, <3>2
    <3>5. pop_free_clusters(data, k)[w[i + 1]][j]
            = IF i < Len(chain) THEN data[chain[i + 1]][j] ELSE 0
      BY <3>3, <3>4, TakenClusters, Zenon
    <3> QED
      BY <3>2, <3>5, <3>6
  <2>6. ASSUME NEW i \in Nat, i < Len(ch), NEW j \in InCluster,
               NEW p \in Nat, p = B * i + j
        PROVE  d2[ch[i + 1]][j] = IF p \in offset .. offset + Len(buf) - 1
                                     THEN buf[p - offset + 1] ELSE d1[ch[i + 1]][j]
    <3>1. PICK w : w = ch
      OBVIOUS
    <3>2. PICK e : e = d1
      OBVIOUS
    <3>3. /\ offset + Len(buf) <= BYTE_PER_CLUSTER * Len(w)
          /\ w \in Seq(Clusters) /\ Once(w) /\ i \in 0 .. Len(w) - 1
      BY <2>3, <2>4, <2>6, <3>1
    <3>4. write_clusters(e, w, buf, offset)[w[i + 1]][j]
            = Overlay(e[w[i + 1]][j], buf, offset, Position(i, j))
      BY <1>0, <3>3, Zenon
    <3>5. d2 = write_clusters(e, w, buf, offset)
      BY <3>1, <3>2
    <3> QED
      BY <2>6, <3>1, <3>2, <3>4, <3>5 DEF Overlay, Position
  <2> HIDE DEF need, more, taken, left, ch, d1, d2
  <2>10. ASSUME NEW i \in Nat, i < Len(ch), NEW j \in InCluster
         PROVE  d2[ch[i + 1]][j] \in OwnBytes
    <3>1. i < Len(chain) => data[chain[i + 1]][j] \in OwnBytes
      <4>1. i < Len(chain) => i + 1 \in 1 .. Len(chain)
        BY <1>3
      <4> QED
        BY <4>1 DEF FileInv, OwnData
    <3>2. d1[ch[i + 1]][j] \in OwnBytes
      BY <1>2, <2>5, <2>10, <3>1
    <3>3. PICK p \in Nat : p = B * i + j
      <4>1. B * i \in Nat
        BY <1>2, TimesNext
      <4> QED
        BY <1>2, <4>1
    <3>4. ASSUME p \in offset .. offset + Len(buf) - 1
          PROVE  buf[p - offset + 1] \in OwnBytes
      <4>1. p - offset + 1 \in 1 .. Len(buf)
        BY <1>3, <3>4
      <4> QED
        BY <4>1, ElementOfSeq
    <3> QED
      BY <2>6, <2>10, <3>2, <3>3, <3>4
  <2>11. ASSUME NEW i \in Nat, NEW j \in InCluster, NEW p \in Nat, i < Len(ch), p = B * i + j
         PROVE  /\ d2[ch[i + 1]][j] \in OwnBytes
                /\ p \in offset .. offset + Len(buf) - 1 => d2[ch[i + 1]][j] = buf[p - offset + 1]
                /\ p \notin offset .. offset + Len(buf) - 1 /\ i < Len(chain) =>
                      d2[ch[i + 1]][j] = data[chain[i + 1]][j]
    BY <2>5, <2>6, <2>10, <2>11
  <2>12. DOMAIN d2 = 1 .. ClusterTotal
    BY DEF write_clusters, d2
  <2>13. Len(ch) > 0 /\ end \in Nat
    BY <1>3, <2>0, <2>1, <2>3
  <2> QED
    BY <2>2, <2>3, <2>4, <2>11, <2>12, <2>13, ZenonT(40)
<1>4. CASE Refused
  <2>1. FileInv'
    BY <1>4 DEF FileInv, Owned, Room, OwnData, Once, Apart, InCluster
  <2> QED
    BY <1>4, <2>1
<1>5. CASE Done
  <2>0. more <= Len(pool)
    BY <1>5
  <2> HIDE DEF need, more, taken, left, ch, d1, d2
  <2>1. chain' = ch /\ pool' = left /\ other' = other /\ data' = d2
    BY <1>5
  <2>2. Owned'
    BY <1>1, <1>3, <2>0, <2>1 DEF FileInv, Owned, Once, Apart
  <2>3. Room'
    BY <1>1, <1>3, <1>5, <2>0, <2>1 DEF Room
  <2>4. OwnData'
    <3>1. ASSUME NEW i \in 1 .. Len(ch), NEW j \in InCluster
          PROVE  d2[ch[i]][j] \in OwnBytes
      <4>1. i - 1 \in Nat /\ i - 1 < Len(ch) /\ (i - 1) + 1 = i
        BY <1>1, <2>0
      <4>2. B * (i - 1) \in Nat
        BY <1>2, <4>1, TimesNext
      <4>3. PICK p \in Nat : p = B * (i - 1) + j
        BY <1>2, <4>2
      <4>4. d2[ch[(i - 1) + 1]][j] \in OwnBytes
        BY <1>1, <2>0, <4>1, <4>3, Zenon
      <4> QED
        BY <4>1, <4>4
    <3> QED
      BY <1>1, <2>0, <2>1, <3>1 DEF OwnData, InCluster
  <2>5. ASSUME NEW p \in Nat, p < size'
        PROVE  /\ p \in offset .. offset + Len(buf) - 1 => ByteOf(p)' = buf[p - offset + 1]
               /\ p \notin offset .. offset + Len(buf) - 1 /\ p < size => ByteOf(p)' = ByteOf(p)
               /\ ByteOf(p)' \in OwnBytes
    <3> DEFINE i == p \div B
               j == p % B
    <3>1. i \in Nat /\ j \in InCluster /\ p = B * i + j
      BY <1>2, DivMod
    <3>2. i < Len(ch)
      <4>1. p < B * Len(ch)
        BY <1>1, <1>3, <1>5, <2>0, <2>5
      <4> QED
        BY <1>1, <1>2, <2>0, <4>1, DivLess
    <3>3. p < size => i < Len(chain)
      <4>1. SUFFICES ASSUME p < size PROVE i < Len(chain)
        OBVIOUS
      <4>2. B * Len(chain) \in Nat
        BY <1>2, <1>3, TimesNext
      <4>3. p < B * Len(chain)
        BY <1>3, <4>1, <4>2
      <4> QED
        BY <1>2, <1>3, <4>3, DivLess
    <3>4. ByteOf(p)' = d2[ch[i + 1]][j] /\ ByteOf(p) = data[chain[i + 1]][j]
      BY <2>1 DEF ByteOf, ByteAt
    <3> HIDE DEF i, j
    <3>5. /\ d2[ch[i + 1]][j] \in OwnBytes
          /\ p \in offset .. offset + Len(buf) - 1 => d2[ch[i + 1]][j] = buf[p - offset + 1]
          /\ p \notin offset .. offset + Len(buf) - 1 /\ i < Len(chain) =>
                d2[ch[i + 1]][j] = data[chain[i + 1]][j]
      BY <1>1, <2>0, <3>1, <3>2, Zenon
    <3> QED
      BY <3>3, <3>4, <3>5, Zenon
  <2> QED
    <3>1. /\ answer' = Returned(ok, <<>>)
          /\ size' = IF offset + Len(buf) > size THEN offset + Len(buf) ELSE size
      BY <1>5
    <3>2. FileInv'
      BY <2>2, <2>3, <2>4 DEF FileInv
    <3> QED
      BY <2>5, <3>1, <3>2, Zenon
<1>6. update_file(buf, offset, ok) => Done \/ Refused
  BY DEF update_file, fileVars
<1> QED
  BY <1>4, <1>5, <1>6

-----------------------------------------------------------------------------
(* The other steps *)

\* A list of values given by a function is a sequence of them.
LEMMA FunctionIsSeq ==
  ASSUME NEW S, NEW n \in Nat, NEW f \in [1 .. n -> S]
  PROVE  f \in Seq(S) /\ Len(f) = n
  BY SMT

\* Cutting keeps the bytes in front of the new end, and the chain has room for
\* them; the other clusters are back in the free list, where nobody else has
\* them.
LEMMA ShrinkStep ==
  ASSUME FileInv, NEW n \in Nat
  PROVE  Shrink(n) =>
         /\ FileInv'
         /\ size' = n
         /\ \A p \in Nat : p < n => ByteOf(p)' = ByteOf(p)
<1> DEFINE B    == BYTE_PER_CLUSTER
           keep == n \div B + 1
           kept == SubSeq(chain, 1, keep)
           back == SubSeq(chain, keep + 1, Len(chain))
<1>1. B \in Nat \ {0}
  BY FileAssumption
<1>2. /\ chain \in Seq(Clusters) /\ pool \in Seq(Clusters) /\ other \in Seq(Clusters)
      /\ Len(chain) \in Nat /\ size \in Nat /\ size <= B * Len(chain)
      /\ Once(chain) /\ Once(other) /\ Once(pool)
      /\ Apart(chain, other) /\ Apart(chain, pool) /\ Apart(other, pool)
      /\ DOMAIN data = 1 .. ClusterTotal
  BY DEF FileInv, Owned, Room, OwnData
<1>3. ASSUME n < size
      PROVE  keep \in Nat \ {0} /\ keep <= Len(chain) /\ n < B * keep
  <2>1. n \div B \in Nat /\ n % B \in 0 .. B - 1 /\ n = B * (n \div B) + (n % B)
    BY <1>1, DivMod
  <2>2. B * Len(chain) \in Nat
    BY <1>1, <1>2, TimesNext
  <2>3. n \div B < Len(chain)
    <3>1. n < B * Len(chain)
      BY <1>2, <1>3, <2>2
    <3> QED
      BY <1>1, <1>2, <3>1, DivLess
  <2>4. B * (n \div B + 1) = B * (n \div B) + B /\ B * (n \div B) \in Nat
    BY <1>1, <2>1, TimesNext
  <2> HIDE DEF B
  <2> QED
    BY <1>1, <1>2, <2>1, <2>3, <2>4
<1> HIDE DEF keep
<1>4. ASSUME n < size
      PROVE  /\ kept \in Seq(Clusters) /\ back \in Seq(Clusters)
             /\ Once(kept) /\ Once(back) /\ Apart(kept, back)
             /\ Apart(other, kept) /\ Apart(other, back)
             /\ Apart(pool, kept) /\ Apart(pool, back)
             /\ Len(kept) = keep /\ \A i \in 1 .. keep : kept[i] = chain[i]
  <2>1. Apart(other, chain) /\ Apart(pool, chain)
    BY <1>2, ApartSym
  <2>2. Len(kept) = keep /\ \A i \in 1 .. keep : kept[i] = chain[i]
    <3>1. 1 \in Nat \ {0} /\ keep \in Nat /\ 1 <= keep + 1 /\ keep <= Len(chain)
      BY <1>3, <1>4
    <3>2. /\ Len(kept) = keep + 1 - 1
          /\ \A i \in 1 .. keep + 1 - 1 : kept[i] = chain[1 + i - 1]
      BY <1>2, <3>1, PartElements
    <3> HIDE DEF kept
    <3> QED
      BY <3>1, <3>2
  <2> QED
    BY <1>2, <1>3, <1>4, <2>1, <2>2, PartApart
<1> HIDE DEF kept, back
<1>5. ASSUME n < size
      PROVE  /\ back \o pool \in Seq(Clusters) /\ Once(back \o pool)
             /\ Apart(kept, back \o pool) /\ Apart(other, back \o pool)
             /\ Apart(kept, other)
  <2>1. /\ Apart(back, pool) /\ Apart(back, kept) /\ Apart(back, other)
        /\ Apart(pool, other) /\ Apart(kept, other)
    BY <1>2, <1>4, <1>5, ApartSym
  <2>2. /\ back \o pool \in Seq(Clusters) /\ Once(back \o pool)
        /\ Apart(kept, back \o pool)
    BY <1>2, <1>4, <1>5, <2>1, CatApart
  <2>3. Apart(other, back \o pool)
    BY <1>2, <1>4, <1>5, <2>1, CatApart
  <2> QED
    BY <2>1, <2>2, <2>3
<1> DEFINE list == back \o pool
<1>6. ASSUME Shrink(n)
      PROVE  /\ n < size /\ size' = n /\ chain' = kept /\ pool' = list
             /\ other' = other /\ data' = data
  BY <1>6 DEF Shrink, kept, back, keep
<1> HIDE DEF list
<1>7. SUFFICES ASSUME Shrink(n)
               PROVE  /\ FileInv'
                      /\ size' = n
                      /\ \A p \in Nat : p < n => ByteOf(p)' = ByteOf(p)
  OBVIOUS
<1>8. Owned'
  <2>1. /\ list \in Seq(Clusters) /\ Once(list)
        /\ Apart(kept, list) /\ Apart(other, list) /\ Apart(kept, other)
    BY <1>5, <1>6, <1>7 DEF list
  <2> QED
    BY <1>2, <1>4, <1>6, <1>7, <2>1 DEF Owned, Once, Apart
<1>9. Room'
  <2>1. B * keep \in Nat
    BY <1>1, <1>3, <1>6, <1>7, TimesNext
  <2> HIDE DEF B
  <2>2. n <= B * Len(kept) /\ Len(kept) > 0
    BY <1>3, <1>4, <1>6, <1>7, <2>1
  <2> QED
    BY <1>6, <1>7, <2>2 DEF Room, B
<1>10. OwnData'
  <2>1. ASSUME NEW i \in 1 .. Len(kept), NEW j \in InCluster
        PROVE  data[kept[i]][j] \in OwnBytes
    <3>1. kept[i] = chain[i] /\ i \in 1 .. Len(chain)
      BY <1>2, <1>3, <1>4, <1>6, <1>7
    <3> QED
      BY <3>1 DEF FileInv, OwnData
  <2> QED
    BY <1>2, <1>6, <1>7, <2>1 DEF OwnData, InCluster
<1>11. ASSUME NEW p \in Nat, p < n PROVE ByteOf(p)' = ByteOf(p)
  <2>1. p \div B \in Nat /\ p % B \in 0 .. B - 1
    BY <1>1, DivMod
  <2>2. p \div B < keep
    <3>1. B * keep \in Nat
      BY <1>1, <1>3, <1>6, <1>7, TimesNext
    <3>2. p < B * keep
      BY <1>3, <1>6, <1>7, <1>11, <3>1
    <3> QED
      BY <1>1, <1>3, <1>6, <1>7, <3>2, DivLess
  <2>3. (p \div B) + 1 \in 1 .. keep
    BY <1>3, <1>6, <1>7, <2>1, <2>2
  <2>4. kept[(p \div B) + 1] = chain[(p \div B) + 1]
    BY <1>4, <1>6, <1>7, <2>3
  <2> QED
    BY <1>6, <1>7, <2>4 DEF ByteOf, ByteAt
<1> QED
  BY <1>6, <1>7, <1>8, <1>9, <1>10, <1>11 DEF FileInv

\* What another file does with the clusters it takes and gives back is not
\* seen in the file.
LEMMA OtherStep ==
  ASSUME FileInv, OtherGrows \/ OtherRemoved
  PROVE  /\ FileInv'
         /\ UNCHANGED <<chain, size, answer>>
         /\ \A p \in Nat : p < size => ByteOf(p)' = ByteOf(p)
<1>1. /\ chain \in Seq(Clusters) /\ pool \in Seq(Clusters) /\ other \in Seq(Clusters)
      /\ Len(chain) \in Nat /\ size \in Nat /\ size <= BYTE_PER_CLUSTER * Len(chain)
      /\ Once(chain) /\ Once(other) /\ Once(pool)
      /\ Apart(chain, other) /\ Apart(chain, pool) /\ Apart(other, pool)
      /\ DOMAIN data = 1 .. ClusterTotal
  BY DEF FileInv, Owned, Room, OwnData
<1>2. UNCHANGED <<chain, size, answer>>
  BY DEF OtherGrows, OtherRemoved
<1>3. Owned' /\ DOMAIN data' = 1 .. ClusterTotal /\ \A i \in 1 .. Len(chain) : data'[chain[i]] = data[chain[i]]
  <2>1. CASE OtherRemoved
    <3>1. /\ other \o pool \in Seq(Clusters) /\ Once(other \o pool)
          /\ Apart(chain, other \o pool)
      BY <1>1, ApartSym, CatApart
    <3> DEFINE list == other \o pool
    <3>2. pool' = list /\ other' = <<>> /\ chain' = chain /\ data' = data
      BY <2>1 DEF OtherRemoved
    <3> HIDE DEF list
    <3>3. <<>> \in Seq(Clusters) /\ Once(<<>>) /\ Apart(chain, <<>>) /\ Apart(<<>>, list)
      BY DEF Once, Apart
    <3>4. Owned'
      BY <1>1, <3>1, <3>2, <3>3, SMTT(30) DEF Owned, Once, Apart, list
    <3> QED
      BY <1>1, <3>2, <3>4
  <2>2. CASE OtherGrows
    <3> DEFINE c == Head(pool)
    <3>1. pool # <<>> /\ Len(pool) \in Nat \ {0}
      BY <1>1, <2>2, EmptySeq DEF OtherGrows
    <3>2. c = pool[1] /\ 1 \in 1 .. Len(pool) /\ c \in Clusters
      BY <1>1, <3>1, ElementOfSeq
    <3>3. /\ Tail(pool) \in Seq(Clusters) /\ Len(Tail(pool)) = Len(pool) - 1
          /\ \A i \in 1 .. Len(pool) - 1 : Tail(pool)[i] = pool[i + 1]
      BY <1>1, <3>1
    <3>4. /\ Append(other, c) \in Seq(Clusters) /\ Len(Append(other, c)) = Len(other) + 1
          /\ Len(other) \in Nat
          /\ \A i \in 1 .. Len(other) + 1 :
                Append(other, c)[i] = IF i <= Len(other) THEN other[i] ELSE c
      BY <1>1, <3>2
    <3> DEFINE more == Append(other, c)
               less == Tail(pool)
    <3>5. /\ pool' = less /\ other' = more /\ chain' = chain
          /\ data' = [data EXCEPT ![c] = [j \in InCluster |-> Foreign]]
      BY <2>2 DEF OtherGrows
    <3> HIDE DEF more, less, c
    <3>6. Once(less) /\ Apart(chain, less) /\ Apart(other, less)
      BY <1>1, <3>1, <3>3 DEF less, Once, Apart
    <3>7. ASSUME NEW i \in 1 .. Len(pool) - 1 PROVE less[i] # c
      BY <1>1, <3>1, <3>2, <3>3 DEF less, Once
    <3>8. ASSUME NEW i \in 1 .. Len(chain) PROVE chain[i] # c
      BY <1>1, <3>1, <3>2 DEF Apart
    <3>9. ASSUME NEW i \in 1 .. Len(other) PROVE other[i] # c
      BY <1>1, <3>1, <3>2 DEF Apart
    <3>10. Once(more) /\ Apart(chain, more) /\ Apart(more, less)
      <4>1. ASSUME NEW i \in 1 .. Len(more)
            PROVE  \/ i \in 1 .. Len(other) /\ more[i] = other[i]
                   \/ i = Len(other) + 1 /\ more[i] = c
        BY <3>4 DEF more
      <4>2. ASSUME NEW i \in 1 .. Len(more), NEW k \in 1 .. Len(more), more[i] = more[k]
            PROVE  i = k
        BY <1>1, <3>9, <4>1, <4>2 DEF Once
      <4>3. ASSUME NEW i \in 1 .. Len(chain), NEW k \in 1 .. Len(more)
            PROVE  chain[i] # more[k]
        BY <1>1, <3>8, <4>1 DEF Apart
      <4>4. ASSUME NEW i \in 1 .. Len(more), NEW k \in 1 .. Len(less)
            PROVE  more[i] # less[k]
        <5>1. k \in 1 .. Len(pool) - 1
          BY <3>3 DEF less
        <5> QED
          BY <3>6, <3>7, <4>1, <5>1 DEF Apart
      <4> QED
        BY <4>2, <4>3, <4>4, Zenon DEF Once, Apart
    <3>11. Owned'
      BY <1>1, <3>3, <3>4, <3>5, <3>6, <3>10 DEF Owned, Once, Apart, more, less
    <3>12. ASSUME NEW i \in 1 .. Len(chain) PROVE data'[chain[i]] = data[chain[i]]
      <4>1. chain[i] \in 1 .. ClusterTotal
        BY <1>1, ElementOfSeq DEF Clusters
      <4> QED
        BY <1>1, <3>5, <3>8, <4>1
    <3> QED
      BY <1>1, <3>5, <3>11, <3>12
  <2> QED
    BY <2>1, <2>2
<1>4. Room'
  BY <1>2 DEF FileInv, Room
<1>5. OwnData'
  BY <1>2, <1>3 DEF FileInv, OwnData, InCluster
<1>6. ASSUME NEW p \in Nat, p < size PROVE ByteOf(p)' = ByteOf(p)
  <2> DEFINE i == p \div BYTE_PER_CLUSTER
  <2>1. BYTE_PER_CLUSTER \in Nat \ {0}
    BY FileAssumption
  <2>2. BYTE_PER_CLUSTER * Len(chain) \in Nat
    BY <1>1, <2>1, TimesNext
  <2>3. i \in Nat /\ i < Len(chain)
    <3>1. p < BYTE_PER_CLUSTER * Len(chain)
      BY <1>1, <1>6, <2>2
    <3> QED
      BY <1>1, <2>1, <3>1, DivLess, DivMod
  <2>4. i + 1 \in 1 .. Len(chain)
    BY <1>1, <2>3
  <2>5. data'[chain[i + 1]] = data[chain[i + 1]]
    BY <1>3, <2>4
  <2> QED
    BY <1>2, <2>5 DEF ByteOf, ByteAt
<1> QED
  BY <1>2, <1>3, <1>4, <1>5, <1>6 DEF FileInv

-----------------------------------------------------------------------------
(* Theorems *)

\* A file that is read, or whose times are set, stays as it is.
LEMMA SameFile ==
  ASSUME FileInv, UNCHANGED <<chain, other, pool, data, size>>
  PROVE  FileInv' /\ Contents' = Contents
<1>1. Owned'
  BY DEF FileInv, Owned
<1>2. Room'
  BY DEF FileInv, Room
<1>3. OwnData'
  BY DEF FileInv, OwnData
<1>4. FileInv'
  BY <1>1, <1>2, <1>3 DEF FileInv
<1>5. Contents' = Contents
  BY DEF Contents, ByteAt
<1> QED
  BY <1>5, <1>4

\* The zeros with which fat_truncate extends a file.
LEMMA Zeros ==
  ASSUME NEW n \in Nat
  PROVE  /\ [i \in 1 .. n |-> 0] \in Seq(OwnBytes)
         /\ Len([i \in 1 .. n |-> 0]) = n
         /\ \A i \in 1 .. n : [k \in 1 .. n |-> 0][i] = 0
<1>1. [i \in 1 .. n |-> 0] \in [1 .. n -> OwnBytes]
  BY FileAssumption
<1> QED
  BY <1>1, FunctionIsSeq

\* Every step of the file or of the other one keeps the invariant.
LEMMA StepInv ==
  ASSUME FileInv, [Next]_fileVars
  PROVE  FileInv'
<1>1. CASE fat_write
  <2>1. PICK buf \in Buffers, offset \in Offsets : update_file(buf, offset, Len(buf))
    BY <1>1 DEF fat_write
  <2>2. buf \in Seq(OwnBytes) /\ Len(buf) > 0 /\ offset \in Nat
    BY FileAssumption
  <2> QED
    BY <2>1, <2>2, UpdateFile
<1>2. CASE fat_truncate
  <2>1. PICK n \in Sizes :
           \/ n = size /\ UNCHANGED <<chain, other, pool, data, size>>
           \/ n > size /\ update_file([i \in 1 .. n - size |-> 0], size, 0)
           \/ Shrink(n)
    BY <1>2 DEF fat_truncate
  <2>2. n \in Nat /\ size \in Nat
    BY FileAssumption DEF FileInv, Room
  <2>3. CASE UNCHANGED <<chain, other, pool, data, size>>
    BY <2>3, SameFile
  <2>4. CASE n > size /\ update_file([i \in 1 .. n - size |-> 0], size, 0)
    <3>1. n - size \in Nat \ {0}
      BY <2>2, <2>4
    <3>2. PICK buf : buf = [i \in 1 .. n - size |-> 0]
      OBVIOUS
    <3>3. buf \in Seq(OwnBytes) /\ Len(buf) = n - size
      BY <3>1, <3>2, Zeros
    <3>4. update_file(buf, size, 0) /\ Len(buf) > 0
      BY <2>4, <3>1, <3>2, <3>3
    <3> QED
      BY <2>2, <3>3, <3>4, UpdateFile
  <2>5. CASE Shrink(n)
    BY <2>2, <2>5, ShrinkStep
  <2> QED
    BY <2>1, <2>3, <2>4, <2>5
<1>3. CASE fat_read
  BY <1>3, SameFile DEF fat_read
<1>4. CASE fat_utimens
  BY <1>4, SameFile DEF fat_utimens
<1>5. CASE OtherGrows \/ OtherRemoved
  BY <1>5, OtherStep
<1>6. CASE UNCHANGED fileVars
  BY <1>6, SameFile DEF fileVars
<1> QED
  BY <1>1, <1>2, <1>3, <1>4, <1>5, <1>6 DEF Next

\* A new file of one zeroed cluster, with all others in the free list.
LEMMA InitInv ==
  ASSUME Init
  PROVE  FileInv
<1>1. BYTE_PER_CLUSTER \in Nat \ {0} /\ ClusterTotal \in Nat \ {0} /\ 0 \in OwnBytes
  BY FileAssumption
<1>2. chain \in Seq(Clusters) /\ Len(chain) = 1 /\ chain[1] = 1
  BY <1>1 DEF Init, Clusters
<1>3. other = <<>> /\ other \in Seq(Clusters) /\ Len(other) = 0
  BY DEF Init
<1>4. pool \in Seq(Clusters) /\ Len(pool) = ClusterTotal - 1 /\ \A i \in 1 .. ClusterTotal - 1 : pool[i] = i + 1
  <2>1. pool \in [1 .. ClusterTotal - 1 -> Clusters] /\ ClusterTotal - 1 \in Nat
    BY <1>1 DEF Init, Clusters
  <2>2. pool \in Seq(Clusters) /\ Len(pool) = ClusterTotal - 1
    BY <2>1, FunctionIsSeq
  <2> QED
    BY <2>2 DEF Init
<1>5. Owned
  BY <1>1, <1>2, <1>3, <1>4 DEF Owned, Once, Apart
<1>6. Room
  BY <1>1, <1>2 DEF Room, Init
<1>7. OwnData
  BY <1>1, <1>2 DEF OwnData, Init, InCluster
<1> QED
  BY <1>5, <1>6, <1>7 DEF FileInv

\* In every state a cluster has one owner, the chain of the file has room for
\* its size, and all bytes in it are the file's own.
THEOREM InvariantHolds == Spec => []FileInv
<1>1. Init => FileInv
  BY InitInv
<1>2. FileInv /\ [Next]_fileVars => FileInv'
  BY StepInv
<1> QED
  BY <1>1, <1>2, PTL DEF Spec

\* "The allocated cluster is zeroed out to prevent data leak"
\* (pop_free_clusters), for every size of clusters and of the disk: no byte of
\* another file is in the clusters of the file, in or behind its contents.
THEOREM ForeignBytesStayOut == Spec => []NoForeignBytes
<1>1. FileInv => NoForeignBytes
  BY FileAssumption DEF FileInv, OwnData, NoForeignBytes
<1> QED
  BY <1>1, InvariantHolds, PTL

-----------------------------------------------------------------------------
(* The refinement of ByteFile *)

\* The contents of the file are a sequence of its size, with the byte of
\* position p at index p + 1.
LEMMA ContentsLaws ==
  FileInv => /\ size \in Nat
             /\ Contents \in Seq(OwnBytes)
             /\ Len(Contents) = size
             /\ DOMAIN Contents = 1 .. size
             /\ \A i \in 1 .. size : Contents[i] = ByteOf(i - 1)
<1> SUFFICES ASSUME FileInv
             PROVE  /\ size \in Nat
                    /\ Contents \in Seq(OwnBytes)
                    /\ Len(Contents) = size
                    /\ DOMAIN Contents = 1 .. size
                    /\ \A i \in 1 .. size : Contents[i] = ByteOf(i - 1)
  OBVIOUS
<1> DEFINE B == BYTE_PER_CLUSTER
<1>1. /\ B \in Nat \ {0} /\ InCluster = 0 .. B - 1 /\ size \in Nat
      /\ Len(chain) \in Nat /\ size <= B * Len(chain)
  BY FileAssumption DEF FileInv, Owned, Room, InCluster
<1>2. ASSUME NEW i \in 1 .. size
      PROVE  Contents[i] = ByteOf(i - 1) /\ Contents[i] \in OwnBytes
  <2> DEFINE q == (i - 1) \div B
  <2>1. i - 1 \in Nat
    BY <1>1
  <2>2. q \in Nat /\ (i - 1) % B \in InCluster
    BY <1>1, <2>1, DivMod
  <2>3. q < Len(chain)
    <3>1. B * Len(chain) \in Nat
      BY <1>1, TimesNext
    <3>2. i - 1 < B * Len(chain)
      BY <1>1, <3>1
    <3> QED
      BY <1>1, <2>1, <3>2, DivLess
  <2>4. q + 1 \in 1 .. Len(chain)
    BY <1>1, <2>2, <2>3
  <2>5. data[chain[q + 1]][(i - 1) % B] \in OwnBytes
    BY <2>2, <2>4 DEF FileInv, OwnData
  <2>6. Contents[i] = data[chain[q + 1]][(i - 1) % B]
    BY DEF Contents, ByteAt
  <2> QED
    BY <2>5, <2>6 DEF ByteOf, ByteAt
<1>3. Contents \in [1 .. size -> OwnBytes]
  BY <1>2 DEF Contents
<1> QED
  BY <1>1, <1>2, <1>3, FunctionIsSeq

\* What the lemma says of a state.
ContentsLaid ==
    /\ size \in Nat
    /\ Contents \in Seq(OwnBytes)
    /\ Len(Contents) = size
    /\ DOMAIN Contents = 1 .. size
    /\ \A i \in 1 .. size : Contents[i] = ByteOf(i - 1)

\* The same after a step.
LEMMA ContentsNext ==
  FileInv' => /\ size' \in Nat
              /\ Contents' \in Seq(OwnBytes)
              /\ Len(Contents') = size'
              /\ DOMAIN Contents' = 1 .. size'
              /\ \A i \in 1 .. size' : Contents'[i] = ByteOf(i - 1)'
<1>1. FileInv => ContentsLaid
  BY ContentsLaws DEF ContentsLaid
<1>2. FileInv' => ContentsLaid'
  BY <1>1, PTL
<1> QED
  BY <1>2 DEF ContentsLaid

\* Two contents of the same size and bytes are the same.
LEMMA SameContents ==
  ASSUME FileInv, FileInv', size' = size, \A p \in Nat : p < size => ByteOf(p)' = ByteOf(p)
  PROVE  Contents' = Contents
<1>1. ASSUME NEW i \in 1 .. size PROVE Contents'[i] = Contents[i]
  <2>1. i - 1 \in Nat /\ i - 1 < size
    BY ContentsLaws
  <2>2. ByteOf(i - 1)' = ByteOf(i - 1)
    BY <2>1
  <2> QED
    BY <2>2, ContentsLaws, ContentsNext
<1>2. /\ Contents \in Seq(OwnBytes) /\ Contents' \in Seq(OwnBytes)
      /\ Len(Contents) = size /\ Len(Contents') = size
  BY ContentsLaws, ContentsNext
<1>3. PICK s, t : s = Contents /\ t = Contents'
  OBVIOUS
<1>4. s \in Seq(OwnBytes) /\ t \in Seq(OwnBytes) /\ Len(s) = Len(t)
  BY <1>2, <1>3
<1>5. \A i \in 1 .. Len(s) : s[i] = t[i]
  BY <1>1, <1>2, <1>3
<1>6. s = t
  BY <1>4, <1>5, SeqEqual
<1> QED
  BY <1>3, <1>6

\* A write puts its buffer into the contents, is refused, or changes nothing
\* because the daemon dies.
LEMMA WritePuts ==
  ASSUME FileInv, NEW buf \in Seq(OwnBytes), Len(buf) > 0, NEW offset \in Nat,
         update_file(buf, offset, Len(buf))
  PROVE  File!Put(buf, offset) \/ File!Refuse \/ UNCHANGED <<Contents, answer>>
<1>1. FileInv'
  BY UpdateFile
<1>2. CASE answer' \in {Returned(-1, <<>>), answer} /\ UNCHANGED <<chain, other, pool, data, size>>
  BY <1>2, SameFile DEF File!Refuse, File!Returned, Returned
<1>3. CASE /\ answer' = Returned(Len(buf), <<>>)
           /\ size' = IF offset + Len(buf) > size THEN offset + Len(buf) ELSE size
           /\ \A p \in Nat : p < size' =>
                 /\ p \in offset .. offset + Len(buf) - 1 => ByteOf(p)' = buf[p - offset + 1]
                 /\ p \notin offset .. offset + Len(buf) - 1 /\ p < size => ByteOf(p)' = ByteOf(p)
                 /\ ByteOf(p)' \in OwnBytes
  <2>1. Len(Contents) = size /\ Len(Contents') = size' /\ size \in Nat /\ size' \in Nat /\ Len(buf) \in Nat
    BY <1>1, ContentsLaws, ContentsNext
  <2>2. ASSUME NEW i \in 1 .. size'
        PROVE  IF i \in offset + 1 .. offset + Len(buf) THEN Contents'[i] = buf[i - offset]
               ELSE IF i <= size THEN Contents'[i] = Contents[i]
               ELSE Contents'[i] \in OwnBytes
    <3>1. PICK p \in Nat : p = i - 1
      BY <2>1
    <3>2. Contents'[i] = ByteOf(p)'
      BY <1>1, <3>1, ContentsNext
    <3>3. i <= size => Contents[i] = ByteOf(p)
      BY <2>1, <3>1, ContentsLaws
    <3>4. /\ p < size' /\ (i <= size <=> p < size) /\ p - offset + 1 = i - offset
          /\ (i \in offset + 1 .. offset + Len(buf)) <=> (p \in offset .. offset + Len(buf) - 1)
      BY <2>1, <3>1
    <3> QED
      BY <1>3, <3>2, <3>3, <3>4
  <2>3. File!Put(buf, offset)
    BY <1>3, <2>1, <2>2 DEF File!Put, File!Returned, Returned
  <2> QED
    BY <2>3
<1> QED
  BY <1>2, <1>3, UpdateFile

\* After fat_truncate to a greater size the file reads as zeros behind the old
\* end, unless it was refused or the daemon has died.
LEMMA TruncateExtends ==
  ASSUME FileInv, NEW n \in Nat, n > size,
         update_file([i \in 1 .. n - size |-> 0], size, 0)
  PROVE  File!Extend(n) \/ File!Refuse \/ UNCHANGED <<Contents, answer>>
<1>1. size \in Nat /\ n - size \in Nat \ {0}
  BY ContentsLaws
<1>2. PICK buf : buf = [i \in 1 .. n - size |-> 0]
  OBVIOUS
<1>3. buf \in Seq(OwnBytes) /\ Len(buf) = n - size /\ \A i \in 1 .. n - size : buf[i] = 0
  BY <1>1, <1>2, Zeros
<1>4. update_file(buf, size, 0) /\ Len(buf) > 0
  BY <1>1, <1>2, <1>3
<1>5. FileInv'
  BY <1>1, <1>3, <1>4, UpdateFile
<1>6. CASE answer' \in {Returned(-1, <<>>), answer} /\ UNCHANGED <<chain, other, pool, data, size>>
  BY <1>6, SameFile DEF File!Refuse, File!Returned, Returned
<1>7. CASE /\ answer' = Returned(0, <<>>)
           /\ size' = IF size + Len(buf) > size THEN size + Len(buf) ELSE size
           /\ \A p \in Nat : p < size' =>
                 /\ p \in size .. size + Len(buf) - 1 => ByteOf(p)' = buf[p - size + 1]
                 /\ p \notin size .. size + Len(buf) - 1 /\ p < size => ByteOf(p)' = ByteOf(p)
                 /\ ByteOf(p)' \in OwnBytes
  <2>1. size' = n
    BY <1>1, <1>3, <1>7
  <2>2. Len(Contents) = size /\ DOMAIN Contents' = 1 .. n /\ Contents' \in Seq(OwnBytes)
    BY <1>5, <2>1, ContentsLaws, ContentsNext
  <2>3. ASSUME NEW i \in 1 .. n
        PROVE  Contents'[i] = IF i <= size THEN Contents[i] ELSE 0
    <3>1. PICK p \in Nat : p = i - 1
      BY <1>1
    <3>2. Contents'[i] = ByteOf(p)'
      BY <1>5, <2>1, <3>1, ContentsNext
    <3>3. CASE i <= size
      <4>1. p < size' /\ p \notin size .. size + Len(buf) - 1 /\ p < size
        BY <1>1, <1>3, <2>1, <3>1, <3>3
      <4>2. ByteOf(p)' = ByteOf(p)
        BY <1>7, <4>1
      <4>3. Contents[i] = ByteOf(p)
        BY <1>1, <3>1, <3>3, ContentsLaws
      <4> QED
        BY <3>2, <3>3, <4>2, <4>3
    <3>4. CASE ~ (i <= size)
      <4>1. p < size' /\ p \in size .. size + Len(buf) - 1 /\ p - size + 1 \in 1 .. n - size
        BY <1>1, <1>3, <2>1, <3>1, <3>4
      <4>2. ByteOf(p)' = buf[p - size + 1]
        BY <1>7, <4>1
      <4>3. buf[p - size + 1] = 0
        BY <1>3, <4>1
      <4> QED
        BY <3>2, <3>4, <4>2, <4>3
    <3> QED
      BY <3>3, <3>4
  <2>4. Contents' = [i \in 1 .. n |-> IF i <= Len(Contents) THEN Contents[i] ELSE 0]
    BY <2>2, <2>3
  <2>5. File!Extend(n)
    BY <1>7, <2>2, <2>4 DEF File!Extend, File!Returned, Returned
  <2> QED
    BY <2>5
<1> QED
  BY <1>1, <1>3, <1>4, <1>6, <1>7, UpdateFile

\* fat_truncate to a smaller size cuts the contents.
LEMMA TruncateCuts ==
  ASSUME FileInv, NEW n \in Nat, Shrink(n)
  PROVE  File!Cut(n)
<1>1. FileInv' /\ size' = n /\ \A p \in Nat : p < n => ByteOf(p)' = ByteOf(p)
  BY ShrinkStep
<1>2. n < size /\ answer' = Returned(0, <<>>)
  BY DEF Shrink
<1>3. PICK s, t : s = Contents /\ t = Contents'
  OBVIOUS
<1>4. /\ s \in Seq(OwnBytes) /\ Len(s) = size /\ size \in Nat
      /\ t \in Seq(OwnBytes) /\ Len(t) = n
  BY <1>1, <1>3, ContentsLaws, ContentsNext
<1>5. ASSUME NEW i \in 1 .. n PROVE t[i] = s[i]
  <2>1. PICK p \in Nat : p = i - 1 /\ p < n
    OBVIOUS
  <2>2. ByteOf(p)' = ByteOf(p)
    BY <1>1, <2>1
  <2>3. i \in 1 .. size
    BY <1>2, <1>4
  <2>4. t[i] = ByteOf(p)' /\ s[i] = ByteOf(p)
    BY <1>1, <1>3, <2>1, <2>3, ContentsLaws, ContentsNext
  <2> QED
    BY <2>2, <2>4
<1>6. t = SubSeq(s, 1, n)
  <2>1. /\ SubSeq(s, 1, n) \in Seq(OwnBytes)
        /\ Len(SubSeq(s, 1, n)) = n + 1 - 1
        /\ \A i \in 1 .. n + 1 - 1 : SubSeq(s, 1, n)[i] = s[1 + i - 1]
    BY <1>2, <1>4, 1 \in Nat \ {0}, 1 <= n + 1, n <= Len(s), PartElements
  <2>2. PICK u : u = SubSeq(s, 1, n)
    OBVIOUS
  <2>3. u \in Seq(OwnBytes) /\ Len(u) = n /\ \A i \in 1 .. n : u[i] = s[i]
    BY <2>1, <2>2
  <2>4. \A i \in 1 .. Len(t) : t[i] = u[i]
    BY <1>4, <1>5, <2>3
  <2>5. t = u
    BY <1>4, <2>3, <2>4, SeqEqual
  <2> QED
    BY <2>2, <2>5
<1> QED
  BY <1>2, <1>3, <1>4, <1>6 DEF File!Cut, File!Returned, Returned

\* What fat_read collects cluster by cluster, from a multiple of the cluster
\* size on, is a part of the contents.
LEMMA ReadsContents ==
  ASSUME FileInv, NEW offset \in Nat, NEW n \in Nat, offset % BYTE_PER_CLUSTER = 0
  PROVE  read_clusters(offset, n)
            = SubSeq(Contents, offset + 1, File!Shorter(offset + n, Len(Contents)))
<1> DEFINE B      == BYTE_PER_CLUSTER
           length == IF size - offset < n THEN size - offset ELSE n
           start  == offset \div B
           num    == IF length < B - (offset % B) THEN length ELSE B - (offset % B)
           last   == File!Shorter(offset + n, Len(Contents))
           bytes  == read_clusters(offset, n)
           part   == SubSeq(Contents, offset + 1, last)
<1>1. B \in Nat \ {0}
  BY FileAssumption
<1>2. /\ size \in Nat /\ Contents \in Seq(OwnBytes) /\ Len(Contents) = size
      /\ \A i \in 1 .. size : Contents[i] = ByteOf(i - 1)
  BY ContentsLaws
<1>3. last = (IF offset + n < size THEN offset + n ELSE size) /\ last \in Nat /\ last <= size
  BY <1>2 DEF File!Shorter
<1> SUFFICES bytes = part
  OBVIOUS
<1> HIDE DEF last
<1>4. CASE offset >= size
  <2>1. bytes = <<>>
    BY <1>4 DEF read_clusters
  <2>2. last < offset + 1 /\ offset + 1 \in Int /\ last \in Int
    BY <1>2, <1>3, <1>4
  <2>3. part = <<>>
    BY <2>2, SubSeqEmpty
  <2> QED
    BY <2>1, <2>3
<1>5. CASE offset < size
  <2>1. length \in Nat /\ length = last - offset /\ offset + length <= size
    BY <1>2, <1>3, <1>5
  <2>2. start \in Nat /\ offset = B * start /\ B * start \in Nat
    <3>1. start \in Nat /\ offset = B * start + (offset % B)
      BY <1>1, DivMod
    <3>2. B * start \in Nat
      BY <1>1, <3>1, TimesNext
    <3> HIDE DEF start, B
    <3> QED
      BY <3>1, <3>2 DEF B
  <2>3. /\ DOMAIN bytes = 1 .. length
        /\ \A k \in 1 .. length :
              bytes[k] = IF k <= num THEN ByteAt(start, k - 1)
                         ELSE ByteAt(start + 1 + (k - num - 1) \div B, (k - num - 1) % B)
        /\ bytes = [k \in 1 .. length |-> bytes[k]]
    <3>1. ~ (offset >= size)
      BY <1>2, <1>5
    <3>2. bytes = [k \in 1 .. length |->
                     IF k <= num THEN ByteAt(start, k - 1)
                     ELSE ByteAt(start + 1 + (k - num - 1) \div B, (k - num - 1) % B)]
      BY <3>1 DEF read_clusters
    <3> HIDE DEF length, start, num, bytes
    <3> QED
      BY <3>2
  <2>4. num = IF length < B THEN length ELSE B
    BY <1>1, <2>1
  <2> HIDE DEF start, num, length, bytes
  <2>5. ASSUME NEW k \in 1 .. length
        PROVE  bytes[k] = Contents[offset + k]
    <3>1. offset + k \in 1 .. size /\ offset + k - 1 \in Nat
      BY <1>2, <2>1
    <3>2. Contents[offset + k] = ByteOf(offset + k - 1)
      BY <1>2, <3>1
    <3>3. CASE k <= num
      <4>1. k - 1 \in 0 .. B - 1 /\ offset + k - 1 = B * start + (k - 1)
        BY <1>1, <2>1, <2>2, <2>4, <3>3
      <4>2. (B * start + (k - 1)) \div B = start /\ (B * start + (k - 1)) % B = k - 1
        BY <1>1, <2>2, <4>1, PlaceUnique
      <4>3. ByteOf(offset + k - 1) = ByteAt(start, k - 1)
        BY <4>1, <4>2 DEF ByteOf
      <4> QED
        BY <2>3, <3>2, <3>3, <4>3
    <3>4. CASE ~ (k <= num)
      <4> DEFINE x == k - num - 1
                 q == start + 1 + x \div B
      <4>1. x \in Nat /\ num = B
        BY <1>1, <2>1, <2>4, <3>4
      <4>2. x \div B \in Nat /\ x % B \in 0 .. B - 1 /\ x = B * (x \div B) + (x % B)
        BY <1>1, <4>1, DivMod
      <4>3. PICK y, r : y = x \div B /\ r = x % B
        OBVIOUS
      <4>4. /\ B * ((start + 1) + y) = B * (start + 1) + B * y
            /\ B * (start + 1) = B * start + B
            /\ B * y \in Nat
        <5>1. start + 1 \in Nat /\ y \in Nat
          BY <2>2, <4>2, <4>3
        <5> HIDE DEF B
        <5>2. B * ((start + 1) + y) = B * (start + 1) + B * y /\ B * y \in Nat
          BY <1>1, <5>1, TimesSum
        <5>3. B * (start + 1) = B * start + B
          BY <1>1, <2>2, TimesNext
        <5> QED
          BY <5>2, <5>3
      <4>5. x = B * y + r /\ y \in Nat /\ r \in 0 .. B - 1
        BY <4>2, <4>3
      <4>6. offset + k - 1 = B * (start + 1 + y) + r
        <5> HIDE DEF B
        <5> QED
          BY <1>1, <2>1, <2>2, <4>1, <4>4, <4>5
      <4>7. /\ (B * (start + 1 + y) + r) \div B = start + 1 + y
            /\ (B * (start + 1 + y) + r) % B = r
        BY <1>1, <2>2, <4>5, start + 1 + y \in Nat, PlaceUnique
      <4>8. ByteOf(offset + k - 1) = ByteAt(start + 1 + y, r)
        BY <4>6, <4>7 DEF ByteOf
      <4> QED
        BY <2>3, <3>2, <3>4, <4>3, <4>8
    <3> QED
      BY <3>3, <3>4
  <2>6. /\ part \in Seq(OwnBytes)
        /\ Len(part) = last + 1 - (offset + 1)
        /\ \A k \in 1 .. last + 1 - (offset + 1) : part[k] = Contents[offset + 1 + k - 1]
    BY <1>2, <1>3, <2>1, offset + 1 \in Nat \ {0}, offset + 1 <= last + 1, PartElements
  <2>7. part \in Seq(OwnBytes) /\ Len(part) = length /\ \A k \in 1 .. length : part[k] = Contents[offset + k]
    <3> HIDE DEF part
    <3>1. last + 1 - (offset + 1) = length
      BY <1>3, <2>1
    <3>2. ASSUME NEW k \in 1 .. length PROVE part[k] = Contents[offset + k]
      <4>1. part[k] = Contents[offset + 1 + k - 1]
        BY <2>6, <3>1
      <4>2. offset + 1 + k - 1 = offset + k
        BY <2>1
      <4> QED
        BY <4>1, <4>2
    <3> QED
      BY <2>6, <3>1, <3>2
  <2>8. bytes \in Seq(OwnBytes) /\ Len(bytes) = length
    <3>1. ASSUME NEW k \in 1 .. length PROVE bytes[k] \in OwnBytes
      <4>1. offset + k \in 1 .. Len(Contents)
        BY <1>2, <2>1
      <4> QED
        BY <1>2, <2>5, <4>1, ElementOfSeq
    <3>2. bytes \in [1 .. length -> OwnBytes]
      BY <2>3, <3>1
    <3> QED
      BY <2>1, <3>2, FunctionIsSeq
  <2>9. PICK s, t : s = bytes /\ t = part
    OBVIOUS
  <2>10. s \in Seq(OwnBytes) /\ t \in Seq(OwnBytes) /\ Len(s) = Len(t) /\ \A k \in 1 .. Len(s) : s[k] = t[k]
    <3> HIDE DEF part
    <3> QED
      BY <2>5, <2>7, <2>8, <2>9
  <2>11. s = t
    BY <2>10, SeqEqual
  <2> QED
    BY <2>9, <2>11
<1> QED
  BY <1>2, <1>4, <1>5

\* Every step of the clusters is a step of the array of bytes, or none.
LEMMA StepRefines ==
  ASSUME FileInv, FileInv', [Next]_fileVars
  PROVE  [File!Next]_<<Contents, answer>>
<1>1. CASE fat_write
  <2>1. PICK buf \in Buffers, offset \in Offsets : update_file(buf, offset, Len(buf))
    BY <1>1 DEF fat_write
  <2>2. buf \in Seq(OwnBytes) /\ Len(buf) > 0 /\ offset \in Nat
    BY FileAssumption
  <2>3. File!Put(buf, offset) \/ File!Refuse \/ UNCHANGED <<Contents, answer>>
    BY <2>1, <2>2, WritePuts
  <2> QED
    BY <2>3 DEF File!Next
<1>2. CASE fat_truncate
  <2>1. PICK n \in Sizes :
           \/ n = size /\ answer' = Returned(0, <<>>) /\ UNCHANGED <<chain, other, pool, data, size>>
           \/ n > size /\ update_file([i \in 1 .. n - size |-> 0], size, 0)
           \/ Shrink(n)
    BY <1>2 DEF fat_truncate
  <2>2. n \in Nat
    BY FileAssumption
  <2>3. CASE n = size /\ answer' = Returned(0, <<>>) /\ UNCHANGED <<chain, other, pool, data, size>>
    <3>1. Contents' = Contents
      BY <2>3, SameFile
    <3> QED
      BY <2>3, <3>1 DEF File!Next, File!Touch, File!Returned, Returned
  <2>4. CASE n > size /\ update_file([i \in 1 .. n - size |-> 0], size, 0)
    <3>1. File!Extend(n) \/ File!Refuse \/ UNCHANGED <<Contents, answer>>
      BY <2>2, <2>4, TruncateExtends
    <3> QED
      BY <3>1 DEF File!Next
  <2>5. CASE Shrink(n)
    <3>1. File!Cut(n)
      BY <2>2, <2>5, TruncateCuts
    <3> QED
      BY <3>1 DEF File!Next
  <2> QED
    BY <2>1, <2>3, <2>4, <2>5
<1>3. CASE fat_read
  <2>1. PICK r \in Reads : answer' = Returned(Len(read_clusters(r[1], r[2])), read_clusters(r[1], r[2]))
    BY <1>3 DEF fat_read
  <2>2. r[1] \in Nat /\ r[2] \in Nat /\ r[1] % BYTE_PER_CLUSTER = 0
    BY FileAssumption
  <2>3. Contents' = Contents
    BY <1>3, SameFile DEF fat_read
  <2>4. read_clusters(r[1], r[2])
          = SubSeq(Contents, r[1] + 1, File!Shorter(r[1] + r[2], Len(Contents)))
    BY <2>2, ReadsContents
  <2>5. File!Read(r[1], r[2])
    BY <2>1, <2>3, <2>4 DEF File!Read, File!Returned, Returned
  <2> QED
    BY <2>5 DEF File!Next
<1>4. CASE fat_utimens
  <2>1. Contents' = Contents
    BY <1>4, SameFile DEF fat_utimens
  <2> QED
    BY <1>4, <2>1 DEF fat_utimens, File!Next, File!Touch, File!Returned, Returned
<1>5. CASE OtherGrows \/ OtherRemoved
  <2>1. UNCHANGED <<chain, size, answer>> /\ \A p \in Nat : p < size => ByteOf(p)' = ByteOf(p)
    BY <1>5, OtherStep
  <2>2. Contents' = Contents
    BY <2>1, SameContents
  <2> QED
    BY <2>1, <2>2
<1>6. CASE UNCHANGED fileVars
  <2>1. Contents' = Contents /\ answer' = answer
    BY <1>6, SameFile DEF fileVars
  <2> QED
    BY <2>1
<1> QED
  BY <1>1, <1>2, <1>3, <1>4, <1>5, <1>6 DEF Next

\* The clusters, with their first, full and last parts, the zeroing, the cut
\* and the reading loop, behave as an array of bytes, for every size of
\* clusters, every disk and all requests: FatFile implements ByteFile.
THEOREM FileImplementsByteFile == Spec => ImplementsByteFile
<1>1. Init => File!Init
  <2>1. SUFFICES ASSUME Init PROVE File!Init
    OBVIOUS
  <2>2. size = 0 /\ answer = Returned(0, <<>>)
    BY <2>1 DEF Init
  <2>3. Contents = <<>>
    BY <2>2 DEF Contents
  <2> QED
    BY <2>2, <2>3 DEF File!Init, File!Returned, Returned
<1>2. FileInv /\ FileInv' /\ [Next]_fileVars => [File!Next]_<<Contents, answer>>
  BY StepRefines
<1> QED
  BY <1>1, <1>2, InvariantHolds, PTL DEF Spec, ImplementsByteFile, File!Spec
=============================================================================
