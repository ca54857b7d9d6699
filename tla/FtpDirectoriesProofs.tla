------------------------ MODULE FtpDirectoriesProofs ------------------------
(***************************************************************************)
(* That only CWD and CDUP change the working directory of the FTP server   *)
(* and that MKD and RMD work in it, for every tree of directories and      *)
(* whatever other processes of the host do to it between commands.         *)
(***************************************************************************)
EXTENDS FtpDirectories, SequenceTheorems, TLAPS

-----------------------------------------------------------------------------
(* Paths.  pa and na are the parents and the names of the directories.     *)

All == Dirs \cup {Root}

\* From every directory the parents lead to the root: no set of others is
\* closed under them.
Acyclic(pa) == \A T \in SUBSET Dirs : T # {} => \E d \in T : pa[d] \notin T

Shape(pa, na) ==
  /\ pa \in [Dirs -> All]
  /\ na \in [Dirs -> Names]
  /\ Acyclic(pa)

PathSet == Seq(Names)

NextPath(pa, na, g, d) == IF d = Root THEN << >> ELSE Append(g[pa[d]], na[d])

\* The names on the way from the root, for every directory.
Paths(pa, na) == CHOOSE g : g = [d \in All |-> NextPath(pa, na, g, d)]

\* The directories of S, which has the parents of its members, have the paths g.
Solves(pa, na, S, g) ==
  /\ S \in SUBSET All
  /\ \A d \in S : d # Root => pa[d] \in S
  /\ g \in [S -> PathSet]
  /\ \A d \in S : g[d] = NextPath(pa, na, g, d)

\* PathOf is that assignment.
LEMMA PathOfIsPaths == PathOf = Paths(parent, name)
  BY DEF PathOf, Paths, NextPath, All

\* Two such assignments agree where both are defined.
LEMMA SolutionsAgree ==
  ASSUME NEW pa, NEW na, Shape(pa, na), NEW S, NEW g, Solves(pa, na, S, g),
         NEW T, NEW h, Solves(pa, na, T, h), NEW d \in S \cap T
  PROVE  g[d] = h[d]
<1> DEFINE B == {e \in Dirs : e \in S \cap T /\ g[e] # h[e]}
<1>1. ASSUME B # {} PROVE FALSE
  <2>1. B \in SUBSET Dirs
    OBVIOUS
  <2>2. PICK e \in B : pa[e] \notin B
    BY <1>1, <2>1 DEF Shape, Acyclic
  <2>3. e # Root /\ e \in Dirs /\ e \in S /\ e \in T
    BY <2>2, DirectoryAssumption
  <2>4. pa[e] \in S /\ pa[e] \in T /\ pa[e] \in All
    BY <2>3 DEF Solves
  <2>5. g[e] = Append(g[pa[e]], na[e]) /\ h[e] = Append(h[pa[e]], na[e])
    BY <2>3 DEF Solves, NextPath
  <2>6. g[pa[e]] = h[pa[e]]
    <3>1. CASE pa[e] = Root
      BY <2>4, <3>1 DEF Solves, NextPath
    <3>2. CASE pa[e] # Root
      BY <2>2, <2>4, <3>2 DEF All
    <3> QED
      BY <3>1, <3>2
  <2> QED
    BY <2>2, <2>5, <2>6
<1>2. CASE d = Root
  BY <1>2 DEF Solves, NextPath
<1>3. CASE d # Root
  <2>1. d \in Dirs
    BY <1>3 DEF Solves, All
  <2> QED
    BY <1>1, <2>1
<1> QED
  BY <1>2, <1>3

\* Every directory has a path.
LEMMA SolvedEverywhere ==
  ASSUME NEW pa, NEW na, Shape(pa, na), NEW d \in All
  PROVE  \E S, g : Solves(pa, na, S, g) /\ d \in S
<1> DEFINE U == {e \in All : \E S, g : Solves(pa, na, S, g) /\ e \in S}
           B == {e \in Dirs : e \notin U}
<1>1. Root \in U
  <2> DEFINE g == [e \in {Root} |-> << >>]
  <2>1. g \in [{Root} -> PathSet] /\ g[Root] = << >>
    BY DEF PathSet
  <2>2. Solves(pa, na, {Root}, g)
    <3> HIDE DEF g
    <3> QED
      BY <2>1 DEF Solves, NextPath, All
  <2> QED
    BY <2>2 DEF All
<1>2. ASSUME B # {} PROVE FALSE
  <2>1. B \in SUBSET Dirs
    OBVIOUS
  <2>2. PICK e \in B : pa[e] \notin B
    BY <1>2, <2>1 DEF Shape, Acyclic
  <2>3. e \in Dirs /\ e # Root /\ e \notin U /\ pa[e] \in All /\ na[e] \in Names
    BY <2>2, DirectoryAssumption DEF Shape
  <2>4. pa[e] \in U
    BY <1>1, <2>2, <2>3 DEF All
  <2>5. PICK S, g : Solves(pa, na, S, g) /\ pa[e] \in S
    BY <2>4
  <2>6. e \notin S
    BY <2>3, <2>5 DEF All
  <2> DEFINE h == [x \in S \cup {e} |-> IF x = e THEN Append(g[pa[e]], na[e]) ELSE g[x]]
  <2>7. g \in [S -> PathSet] /\ S \in SUBSET All
    BY <2>5 DEF Solves
  <2>8. Append(g[pa[e]], na[e]) \in PathSet
    BY <2>3, <2>5, <2>7 DEF PathSet
  <2>9. h \in [S \cup {e} -> PathSet]
    BY <2>7, <2>8
  <2>10. h[e] = Append(g[pa[e]], na[e]) /\ \A x \in S : h[x] = g[x]
    BY <2>6
  <2> HIDE DEF h
  <2>11. h[e] = NextPath(pa, na, h, e)
    BY <2>3, <2>5, <2>10 DEF NextPath
  <2>12. \A x \in S : h[x] = NextPath(pa, na, h, x)
    BY <2>5, <2>10 DEF Solves, NextPath
  <2>13. S \cup {e} \in SUBSET All
    BY <2>3, <2>7 DEF All
  <2>14. \A x \in S \cup {e} : x # Root => pa[x] \in S \cup {e}
    BY <2>5 DEF Solves
  <2>15. Solves(pa, na, S \cup {e}, h)
    BY <2>9, <2>11, <2>12, <2>13, <2>14 DEF Solves
  <2> QED
    BY <2>3, <2>15 DEF All
<1>3. d \in U
  BY <1>1, <1>2 DEF All
<1> QED
  BY <1>3

\* PathOf is well defined, and is what its definition says.
LEMMA PathsDefined ==
  ASSUME NEW pa, NEW na, Shape(pa, na)
  PROVE  /\ Paths(pa, na) \in [All -> PathSet]
         /\ \A d \in All : Paths(pa, na)[d] = NextPath(pa, na, Paths(pa, na), d)
<1> DEFINE Value(d) == CHOOSE v : \E S, g : Solves(pa, na, S, g) /\ d \in S /\ v = g[d]
           G == [d \in All |-> Value(d)]
<1>1. ASSUME NEW S, NEW g, Solves(pa, na, S, g), NEW d \in S
      PROVE  d \in All /\ G[d] = g[d] /\ g[d] \in PathSet
  <2>1. d \in All /\ g[d] \in PathSet
    BY <1>1 DEF Solves
  <2>2. \E v : \E T, h : Solves(pa, na, T, h) /\ d \in T /\ v = h[d]
    BY <1>1
  <2>3. PICK T, h : Solves(pa, na, T, h) /\ d \in T /\ Value(d) = h[d]
    BY <2>2
  <2>4. h[d] = g[d]
    BY <1>1, <2>3, SolutionsAgree
  <2> HIDE DEF Value
  <2> QED
    BY <2>1, <2>3, <2>4
<1> HIDE DEF G
<1>2. ASSUME NEW d \in All
      PROVE  G[d] \in PathSet /\ G[d] = NextPath(pa, na, G, d)
  <2>1. PICK S, g : Solves(pa, na, S, g) /\ d \in S
    BY SolvedEverywhere
  <2>2. G[d] = g[d] /\ g[d] \in PathSet
    BY <1>1, <2>1
  <2>3. g[d] = NextPath(pa, na, g, d)
    BY <2>1 DEF Solves
  <2>4. d # Root => G[pa[d]] = g[pa[d]]
    <3>1. d # Root => pa[d] \in S
      BY <2>1 DEF Solves
    <3> QED
      BY <1>1, <2>1, <3>1
  <2> QED
    BY <2>2, <2>3, <2>4 DEF NextPath
<1>3. G \in [All -> PathSet]
  BY <1>2 DEF G
<1>4. G = [d \in All |-> NextPath(pa, na, G, d)]
  BY <1>2, <1>3
<1>5. Paths(pa, na) = [d \in All |-> NextPath(pa, na, Paths(pa, na), d)]
  BY <1>4 DEF Paths
<1> DEFINE P == Paths(pa, na)
<1>6. P = [d \in All |-> NextPath(pa, na, P, d)]
  BY <1>5
<1> HIDE DEF P
<1>7. \A d \in All : P[d] = NextPath(pa, na, P, d)
  BY <1>6
<1>8. DOMAIN P = All /\ P = [d \in All |-> P[d]]
  BY <1>6
<1> DEFINE B == {e \in Dirs : P[e] \notin PathSet}
<1>9. P[Root] \in PathSet
  <2>1. P[Root] = << >>
    BY <1>7 DEF NextPath, All
  <2> QED
    BY <2>1 DEF PathSet
<1>10. ASSUME B # {} PROVE FALSE
  <2>1. B \in SUBSET Dirs
    OBVIOUS
  <2>2. PICK e \in B : pa[e] \notin B
    BY <1>10, <2>1 DEF Shape, Acyclic
  <2>3. e \in Dirs /\ e # Root /\ pa[e] \in All /\ na[e] \in Names
    BY <2>2, DirectoryAssumption DEF Shape
  <2>4. P[pa[e]] \in PathSet
    BY <1>9, <2>2, <2>3 DEF All
  <2>5. P[e] = Append(P[pa[e]], na[e])
    BY <1>7, <2>3 DEF NextPath, All
  <2>6. \A s \in PathSet : \A n \in Names : Append(s, n) \in PathSet
    BY DEF PathSet
  <2>7. P[e] \in PathSet
    BY <2>3, <2>4, <2>5, <2>6
  <2> QED
    BY <2>2, <2>7
<1>11. \A d \in All : P[d] \in PathSet
  BY <1>9, <1>10 DEF All
<1>12. P \in [All -> PathSet]
  BY <1>8, <1>11
<1> QED
  BY <1>7, <1>12 DEF P

\* The paths of directories that exist tell them apart.
LEMMA PathsDiffer ==
  ASSUME NEW pa, NEW na, Shape(pa, na),
         NEW E \in SUBSET All, \A d \in E : d # Root => pa[d] \in E,
         \A d, e \in E \ {Root} : pa[d] = pa[e] /\ na[d] = na[e] => d = e,
         NEW d \in E, NEW e \in E, Paths(pa, na)[d] = Paths(pa, na)[e]
  PROVE  d = e
<1> DEFINE P == Paths(pa, na)
           B == {x \in Dirs : x \in E /\ \E y \in E : x # y /\ P[x] = P[y]}
<1>1. P \in [All -> PathSet] /\ \A x \in All : P[x] = NextPath(pa, na, P, x)
  BY PathsDefined
<1>2. P[d] = P[e]
  OBVIOUS
<1> HIDE DEF P
<1>3. P[Root] = << >>
  BY <1>1 DEF NextPath, All
<1>4. ASSUME NEW x \in Dirs
      PROVE  /\ P[x] = Append(P[pa[x]], na[x]) /\ P[pa[x]] \in PathSet /\ na[x] \in Names
             /\ pa[x] \in All /\ x # Root /\ P[x] # << >>
  <2>1. pa[x] \in All /\ na[x] \in Names /\ x # Root /\ x \in All
    BY DirectoryAssumption DEF Shape, All
  <2>2. P[x] = Append(P[pa[x]], na[x]) /\ P[pa[x]] \in PathSet
    BY <1>1, <2>1 DEF NextPath
  <2>3. \A s \in PathSet : \A n \in Names : Append(s, n) # << >>
    BY DEF PathSet
  <2> QED
    BY <2>1, <2>2, <2>3
<1>5. \A s, t \in PathSet : \A m, n \in Names : Append(s, m) = Append(t, n) => s = t /\ m = n
  <2> SUFFICES ASSUME NEW s \in PathSet, NEW t \in PathSet, NEW m \in Names, NEW n \in Names,
                      Append(s, m) = Append(t, n)
               PROVE  s = t /\ m = n
    OBVIOUS
  <2>1. /\ Len(Append(s, m)) = Len(s) + 1 /\ Len(Append(t, n)) = Len(t) + 1
        /\ Append(s, m)[Len(s) + 1] = m /\ Append(t, n)[Len(t) + 1] = n
        /\ \A i \in 1 .. Len(s) : Append(s, m)[i] = s[i]
        /\ \A i \in 1 .. Len(t) : Append(t, n)[i] = t[i]
        /\ Len(s) \in Nat /\ Len(t) \in Nat
    BY DEF PathSet
  <2>2. Len(s) = Len(t) /\ m = n
    BY <2>1
  <2>3. \A i \in 1 .. Len(s) : s[i] = t[i]
    BY <2>1, <2>2
  <2> QED
    BY <2>2, <2>3, SeqEqual DEF PathSet
<1>6. ASSUME B # {} PROVE FALSE
  <2>1. B \in SUBSET Dirs
    OBVIOUS
  <2>2. PICK x \in B : pa[x] \notin B
    BY <1>6, <2>1 DEF Shape, Acyclic
  <2>3. PICK y \in E : x # y /\ P[x] = P[y]
    BY <2>2
  <2>4. x \in Dirs /\ x \in E
    BY <2>2
  <2>5. y # Root /\ y \in Dirs
    <3>1. y # Root
      BY <1>3, <1>4, <2>3, <2>4
    <3> QED
      BY <2>3, <3>1 DEF All
  <2>6. P[pa[x]] = P[pa[y]] /\ na[x] = na[y]
    <3>1. P[x] = Append(P[pa[x]], na[x]) /\ P[pa[x]] \in PathSet /\ na[x] \in Names
      BY <1>4, <2>4
    <3>2. P[y] = Append(P[pa[y]], na[y]) /\ P[pa[y]] \in PathSet /\ na[y] \in Names
      BY <1>4, <2>5
    <3>3. Append(P[pa[x]], na[x]) = Append(P[pa[y]], na[y])
      BY <2>3, <3>1, <3>2
    <3> DEFINE s == P[pa[x]]
               t == P[pa[y]]
    <3>4. s \in PathSet /\ t \in PathSet /\ Append(s, na[x]) = Append(t, na[y])
      BY <3>1, <3>2, <3>3
    <3> HIDE DEF s, t
    <3>5. s = t /\ na[x] = na[y]
      BY <1>5, <3>1, <3>2, <3>4
    <3> QED
      BY <3>5 DEF s, t
  <2>7. pa[x] \in E /\ pa[y] \in E
    BY <1>4, <2>3, <2>4, <2>5
  <2>8. pa[x] = pa[y]
    <3>1. CASE pa[x] \in Dirs
      BY <2>2, <2>6, <2>7, <3>1
    <3>2. CASE pa[x] = Root
      <4>1. P[pa[y]] = << >>
        BY <1>3, <2>6, <3>2
      <4>2. pa[y] \in All /\ pa[y] \notin Dirs
        BY <1>4, <2>5, <4>1
      <4> QED
        BY <3>2, <4>2 DEF All
    <3> QED
      BY <2>7, <3>1, <3>2 DEF All
  <2>9. x = y
    BY <1>4, <2>3, <2>4, <2>5, <2>6, <2>8
  <2> QED
    BY <2>3, <2>9
<1>7. CASE d \in Dirs
  BY <1>2, <1>6, <1>7
<1>8. CASE e \in Dirs
  BY <1>2, <1>6, <1>8
<1> QED
  BY <1>7, <1>8 DEF All

-----------------------------------------------------------------------------
(* The inductive invariant *)

\* The directories form a tree in which no two of one directory have the same
\* name; removed ones still lead to the root.
HostInv ==
  /\ Shape(parent, name)
  /\ Root \in exists /\ exists \subseteq All
  /\ \A d \in exists \ {Root} : parent[d] \in exists
  /\ \A d, e \in exists \ {Root} : parent[d] = parent[e] /\ name[d] = name[e] => d = e

\* Nobody else has changed directories since the command's start.
Alone == ~meddled

\* While MKD or RMD is executed and nobody else interferes, the path that was
\* asked for at its start still is the one of the working directory.
ServerInv ==
  /\ cwd \in All /\ argument \in Names
  /\ pc \in {"chdir", "change"} /\ Alone => current_directory = getcwd

DirectoriesInv == HostInv /\ ServerInv

\* The path of a directory leads nowhere else, and that of a removed one
\* nowhere.
LEMMA ResolvesToItself ==
  ASSUME HostInv, cwd \in All, NEW d \in Resolve(getcwd)
  PROVE  d = cwd /\ cwd \in exists
<1>1. d \in exists /\ getcwd # Nowhere /\ PathOf[d] = getcwd
  BY DEF Resolve
<1>2. cwd \in exists /\ getcwd = PathOf[cwd]
  BY <1>1 DEF getcwd
<1>3. Paths(parent, name)[d] = Paths(parent, name)[cwd]
  BY <1>1, <1>2, PathOfIsPaths
<1> QED
  BY <1>1, <1>2, <1>3, PathsDiffer DEF HostInv

\* A directory is added to a tree.
LEMMA MakeInTree ==
  ASSUME HostInv, NEW d \in exists, NEW n \in Names, MakeIn(d, n)
  PROVE  HostInv' /\ \E e \in Dirs : exists' = exists \cup {e} /\ parent'[e] = d
<1>1. PICK new \in Dirs \ (exists \cup InUse) :
         /\ parent' = [parent EXCEPT ![new] = d]
         /\ name' = [name EXCEPT ![new] = n]
         /\ exists' = exists \cup {new}
  BY DEF MakeIn
<1>2. Child(d, n) = {}
  BY DEF MakeIn
<1>3. /\ new \in Dirs /\ new # Root /\ new \notin exists /\ d # new /\ d \in All
      /\ parent \in [Dirs -> All] /\ name \in [Dirs -> Names] /\ Acyclic(parent)
  BY <1>1, DirectoryAssumption DEF HostInv, Shape
<1>4. /\ parent' \in [Dirs -> All] /\ parent'[new] = d /\ \A e \in Dirs \ {new} : parent'[e] = parent[e]
      /\ name' \in [Dirs -> Names] /\ name'[new] = n /\ \A e \in Dirs \ {new} : name'[e] = name[e]
  BY <1>1, <1>3
<1>5. Acyclic(parent')
  <2> SUFFICES ASSUME NEW T \in SUBSET Dirs, T # {} PROVE \E e \in T : parent'[e] \notin T
    BY DEF Acyclic
  <2>1. CASE T \cap exists # {}
    <3>1. PICK e \in T \cap exists : parent[e] \notin T \cap exists
      BY <1>3, <2>1 DEF Acyclic
    <3>2. e \in Dirs /\ e # Root /\ e # new
      BY <1>3, <3>1, DirectoryAssumption
    <3>3. parent[e] \in exists
      BY <3>1, <3>2 DEF HostInv
    <3> QED
      BY <1>4, <3>1, <3>2, <3>3
  <2>2. CASE T \cap exists = {} /\ new \in T
    BY <1>4, <2>2
  <2>3. CASE new \notin T
    <3>1. PICK e \in T : parent[e] \notin T
      BY <1>3 DEF Acyclic
    <3> QED
      BY <1>4, <2>3, <3>1
  <2> QED
    BY <2>1, <2>2, <2>3
<1>6. \A e \in exists' \ {Root} : e = new \/ (e \in exists \ {Root} /\ e \in Dirs \ {new})
  BY <1>1, <1>3 DEF HostInv, All
<1>7. \A e \in exists' \ {Root} : parent'[e] \in exists'
  BY <1>1, <1>4, <1>6 DEF HostInv
<1>8. \A e \in exists \ {Root} : ~(parent[e] = d /\ name[e] = n)
  BY <1>2 DEF Child
<1>9. ASSUME NEW e \in exists' \ {Root}, NEW f \in exists' \ {Root}, parent'[e] = parent'[f], name'[e] = name'[f]
      PROVE  e = f
  BY <1>4, <1>6, <1>8, <1>9 DEF HostInv
<1>10. Root \in exists' /\ exists' \subseteq All
  BY <1>1, <1>3 DEF HostInv, All
<1>11. HostInv'
  BY <1>4, <1>5, <1>7, <1>9, <1>10 DEF HostInv, Shape
<1> QED
  BY <1>1, <1>3, <1>4, <1>11

\* A directory with nothing in it is removed.
LEMMA UnlinkTree ==
  ASSUME HostInv, NEW d \in exists \ {Root}, Unlink(d)
  PROVE  HostInv' /\ d \in Dirs /\ exists' = exists \ {d} /\ parent' = parent
<1>1. Children(d) = {} /\ exists' = exists \ {d} /\ parent' = parent /\ name' = name
  BY DEF Unlink
<1>2. \A e \in exists \ {Root} : parent[e] # d
  BY <1>1 DEF Children
<1>3. d \in Dirs
  BY DEF HostInv, All
<1>4. HostInv'
  BY <1>1, <1>2 DEF HostInv
<1> QED
  BY <1>1, <1>3, <1>4

\* A directory is renamed or moved, not into itself.
LEMMA RenameTree ==
  ASSUME HostInv, NEW d \in exists \ {Root}, NEW to \in exists, NEW n \in Names, Rename(d, to, n)
  PROVE  HostInv'
<1>1. /\ parent' = [parent EXCEPT ![d] = to] /\ name' = [name EXCEPT ![d] = n] /\ exists' = exists
      /\ \A e \in exists \ {Root} : ~(parent[e] = to /\ name[e] = n)
  BY DEF Rename, Child
<1>2. PICK way \in SUBSET exists :
         to \in way /\ d \notin way /\ \A x \in way \ {Root} : parent[x] \in way
  BY DEF Rename, Outside
<1>3. /\ d \in Dirs /\ to \in All /\ \A e \in exists \ {Root} : e \in Dirs
      /\ parent \in [Dirs -> All] /\ name \in [Dirs -> Names] /\ Acyclic(parent)
  BY DEF HostInv, Shape, All
<1>4. /\ parent' \in [Dirs -> All] /\ parent'[d] = to /\ \A e \in Dirs \ {d} : parent'[e] = parent[e]
      /\ name' \in [Dirs -> Names] /\ name'[d] = n /\ \A e \in Dirs \ {d} : name'[e] = name[e]
  BY <1>1, <1>3
<1>5. Acyclic(parent')
  <2> SUFFICES ASSUME NEW T \in SUBSET Dirs, T # {} PROVE \E e \in T : parent'[e] \notin T
    BY DEF Acyclic
  <2>1. CASE d \notin T
    <3>1. PICK e \in T : parent[e] \notin T
      BY <1>3 DEF Acyclic
    <3> QED
      BY <1>4, <2>1, <3>1
  <2>2. CASE T \cap way # {}
    <3>1. PICK e \in T \cap way : parent[e] \notin T \cap way
      BY <1>3, <2>2 DEF Acyclic
    <3>2. e \in Dirs /\ e # Root /\ e # d
      BY <1>2, <3>1, DirectoryAssumption
    <3>3. parent[e] \in way
      BY <1>2, <3>1, <3>2
    <3> QED
      BY <1>4, <3>1, <3>2, <3>3
  <2>3. CASE d \in T /\ T \cap way = {}
    BY <1>2, <1>4, <2>3
  <2> QED
    BY <2>1, <2>2, <2>3
<1>6. ASSUME NEW e \in exists \ {Root}, NEW f \in exists \ {Root}, parent'[e] = parent'[f], name'[e] = name'[f]
      PROVE  e = f
  BY <1>1, <1>3, <1>4, <1>6 DEF HostInv
<1>7. \A e \in exists \ {Root} : parent'[e] \in exists
  BY <1>3, <1>4 DEF HostInv
<1> QED
  BY <1>1, <1>4, <1>5, <1>6, <1>7 DEF HostInv, Shape

\* What other processes do to the directories leaves them a tree.
LEMMA HostKeepsTree == HostInv /\ Host => HostInv'
<1> SUFFICES ASSUME HostInv, Host PROVE HostInv'
  OBVIOUS
<1>1. ASSUME NEW d \in exists, NEW n \in Names, MakeIn(d, n) PROVE HostInv'
  BY <1>1, MakeInTree
<1>2. ASSUME NEW d \in exists \ {Root}, Unlink(d) PROVE HostInv'
  BY <1>2, UnlinkTree
<1>3. ASSUME NEW d \in exists \ {Root}, NEW to \in exists, NEW n \in Names, Rename(d, to, n)
      PROVE  HostInv'
  BY <1>3, RenameTree
<1> QED
  BY <1>1, <1>2, <1>3 DEF Host

\* What getcwd returns, in terms of the paths.
LEMMA WorkingPath == getcwd = IF cwd \in exists THEN Paths(parent, name)[cwd] ELSE Nowhere
  BY PathOfIsPaths DEF getcwd

\* The path of the working directory changes only with the directories and with it.
LEMMA SameWorkingPath ==
  ASSUME UNCHANGED <<parent, name, exists, cwd>>
  PROVE  getcwd' = getcwd
<1>1. (getcwd = IF cwd \in exists THEN Paths(parent, name)[cwd] ELSE Nowhere)'
  BY WorkingPath, PTL
<1> QED
  BY <1>1, WorkingPath

\* The host starts with a tree, the server in its root.
LEMMA InitInv == Init => DirectoriesInv
<1> SUFFICES ASSUME Init PROVE DirectoriesInv
  OBVIOUS
<1>1. /\ parent = [d \in Dirs |-> Root] /\ name \in [Dirs -> Names] /\ exists = {Root} /\ cwd = Root
      /\ argument \in Names
  BY DEF Init
<1>2. parent \in [Dirs -> All] /\ \A d \in Dirs : parent[d] = Root
  BY <1>1 DEF All
<1>3. Acyclic(parent)
  BY <1>2, DirectoryAssumption DEF Acyclic
<1>4. pc \notin {"chdir", "change"}
  BY DEF Init
<1> QED
  BY <1>1, <1>2, <1>3, <1>4 DEF DirectoriesInv, HostInv, ServerInv, Shape, All

\* The command that arrives.
LEMMA ReceiveInv ==
  ASSUME DirectoriesInv, NEW cmd \in Commands, NEW arg \in Names, Receive(cmd, arg)
  PROVE  /\ DirectoriesInv' /\ UNCHANGED exists
         /\ cwd' # cwd => command' \in {"CWD", "CWD /", "CDUP"}
<1>1. /\ command' = cmd /\ argument' = arg /\ current_directory' = getcwd
      /\ UNCHANGED <<parent, name, exists>>
  BY DEF Receive, tree
<1>2. HostInv'
  BY <1>1 DEF DirectoriesInv, HostInv
<1>3. \/ /\ cmd \in {"CWD", "CWD /", "CDUP"} /\ pc' = "recv"
         /\ cwd' \in exists \cup {Root, cwd} \/ (cwd # Root /\ cwd' = parent[cwd])
      \/ cwd' = cwd /\ pc' = "recv"
      \/ cwd' = cwd /\ pc' = "chdir" /\ cmd \in {"MKD", "RMD"}
  <2>1. ASSUME cmd = "CWD", change_directory({d \in Child(cwd, arg) : cwd \in exists})
        PROVE  pc' = "recv" /\ cwd' \in exists \cup {cwd}
    BY <2>1 DEF change_directory, Answer, Child
  <2>2. ASSUME cmd = "CWD /", change_directory({Root})
        PROVE  pc' = "recv" /\ cwd' \in {Root, cwd}
    BY <2>2 DEF change_directory, Answer
  <2>3. ASSUME cmd = "CDUP", change_directory({IF cwd = Root THEN Root ELSE parent[cwd]})
        PROVE  pc' = "recv" /\ (cwd' \in {Root, cwd} \/ (cwd # Root /\ cwd' = parent[cwd]))
    BY <2>3 DEF change_directory, Answer
  <2>4. ASSUME cmd = "PWD", Answer("257 current"), UNCHANGED cwd
        PROVE  cwd' = cwd /\ pc' = "recv"
    BY <2>4 DEF Answer
  <2> QED
    BY <2>1, <2>2, <2>3, <2>4 DEF Receive
<1>4. cwd' \in All
  <2>1. exists \subseteq All /\ Root \in All /\ cwd \in All /\ parent \in [Dirs -> All]
    BY DEF DirectoriesInv, HostInv, ServerInv, Shape, All
  <2>2. cwd # Root => cwd \in Dirs
    BY <2>1 DEF All
  <2> QED
    BY <1>3, <2>1, <2>2
<1>5. pc' = "chdir" => current_directory' = getcwd'
  <2> SUFFICES ASSUME pc' = "chdir" PROVE current_directory' = getcwd'
    OBVIOUS
  <2>1. cwd' = cwd
    BY <1>3
  <2> QED
    BY <1>1, <2>1, SameWorkingPath
<1>6. ServerInv'
  BY <1>1, <1>3, <1>4, <1>5 DEF ServerInv
<1> QED
  BY <1>1, <1>2, <1>3, <1>6 DEF DirectoriesInv

\* MKD and RMD go again to the path they have asked for.
LEMMA ReturnInv ==
  ASSUME DirectoriesInv, Return
  PROVE  DirectoriesInv' /\ UNCHANGED exists /\ (cwd' = cwd \/ ~Alone)
<1>1. pc = "chdir" /\ UNCHANGED <<parent, name, exists, command, argument, current_directory, meddled>>
  BY DEF Return, tree, local
<1>2. HostInv'
  BY <1>1 DEF DirectoriesInv, HostInv
<1>3. \/ pc' = "change" /\ cwd' \in Resolve(current_directory)
      \/ pc' = "recv" /\ cwd' = cwd
  BY DEF Return, Answer
<1>4. ASSUME Alone, pc' = "change" PROVE cwd' = cwd /\ current_directory = getcwd
  <2>1. current_directory = getcwd
    BY <1>1, <1>4 DEF DirectoriesInv, ServerInv
  <2>2. cwd' \in Resolve(getcwd)
    BY <1>3, <1>4, <2>1
  <2> QED
    BY <2>1, <2>2, ResolvesToItself DEF DirectoriesInv, ServerInv
<1>5. cwd' \in All
  BY <1>3 DEF Resolve, DirectoriesInv, HostInv, ServerInv
<1>6. Alone' = Alone /\ (Alone /\ pc' = "change" => current_directory' = getcwd')
  BY <1>1, <1>4, SameWorkingPath DEF Alone
<1>7. cwd' = cwd \/ ~Alone
  BY <1>3, <1>4
<1>8. ServerInv'
  BY <1>1, <1>3, <1>5, <1>6 DEF DirectoriesInv, ServerInv
<1> QED
  BY <1>1, <1>2, <1>7, <1>8 DEF DirectoriesInv

\* MKD and RMD at their end.
LEMMA ChangeInv ==
  ASSUME DirectoriesInv, create_directory \/ remove_directory
  PROVE  /\ DirectoriesInv' /\ UNCHANGED cwd
         /\ Alone' /\ exists' # exists =>
               \E d \in Dirs : exists' \in {exists \cup {d}, exists \ {d}} /\ parent'[d] = cwd
<1>1. pc = "change" /\ pc' = "recv" /\ UNCHANGED <<cwd, argument>> /\ Alone' = Alone
  <2>1. CASE create_directory
    BY <2>1 DEF create_directory, Answer, local, Alone
  <2>2. CASE remove_directory
    BY <2>2 DEF remove_directory, Answer, local, Alone
  <2> QED
    BY <2>1, <2>2
<1>2. HostInv /\ cwd \in All /\ argument \in Names /\ (Alone => current_directory = getcwd)
  BY <1>1 DEF DirectoriesInv, ServerInv
<1>3. ServerInv'
  BY <1>1, <1>2 DEF ServerInv
<1>4. \A d \in Resolve(current_directory) : d \in exists /\ (Alone => d = cwd)
  <2>1. ASSUME Alone, NEW d \in Resolve(current_directory) PROVE d = cwd
    BY <1>2, <2>1, ResolvesToItself
  <2> QED
    BY <2>1 DEF Resolve
<1>5. CASE UNCHANGED <<parent, name, exists>>
  <2>1. HostInv'
    BY <1>2, <1>5 DEF HostInv
  <2> QED
    BY <1>1, <1>3, <1>5, <2>1 DEF DirectoriesInv
<1>6. ASSUME NEW d \in Resolve(current_directory), MakeIn(d, argument)
      PROVE  HostInv' /\ (Alone => \E e \in Dirs : exists' = exists \cup {e} /\ parent'[e] = cwd)
  BY <1>2, <1>4, <1>6, MakeInTree
<1>7. ASSUME NEW d \in Resolve(current_directory), NEW e \in Child(d, argument), Unlink(e)
      PROVE  HostInv' /\ (Alone => \E x \in Dirs : exists' = exists \ {x} /\ parent'[x] = cwd)
  <2>1. e \in exists \ {Root} /\ parent[e] = d
    BY DEF Child
  <2>2. HostInv' /\ e \in Dirs /\ exists' = exists \ {e} /\ parent' = parent
    BY <1>2, <1>7, <2>1, UnlinkTree
  <2> QED
    BY <1>4, <2>1, <2>2
<1>8. \/ UNCHANGED <<parent, name, exists>>
      \/ \E d \in Resolve(current_directory) : MakeIn(d, argument)
      \/ \E d \in Resolve(current_directory) : \E e \in Child(d, argument) : Unlink(e)
  BY DEF create_directory, remove_directory, tree
<1>9. CASE \E d \in Resolve(current_directory) : MakeIn(d, argument)
  BY <1>1, <1>3, <1>6, <1>9 DEF DirectoriesInv
<1>10. CASE \E d \in Resolve(current_directory) : \E e \in Child(d, argument) : Unlink(e)
  BY <1>1, <1>3, <1>7, <1>10 DEF DirectoriesInv
<1> QED
  BY <1>5, <1>8, <1>9, <1>10

\* What a step may do to the working directory, and in it.
Kept    == cwd' # cwd => command' \in {"CWD", "CWD /", "CDUP"} \/ ~Alone
InPlace == pc = "change" /\ Alone' /\ exists' # exists =>
             \E d \in Dirs : /\ exists' \in {exists \cup {d}, exists \ {d}}
                             /\ parent'[d] = cwd

\* Every step keeps the invariant and does nothing else to the working directory.
LEMMA NextInv == DirectoriesInv /\ [Next]_vars => DirectoriesInv' /\ [Kept /\ InPlace]_vars
<1> SUFFICES ASSUME DirectoriesInv, [Next]_vars
             PROVE  DirectoriesInv' /\ [Kept /\ InPlace]_vars
  OBVIOUS
<1>1. CASE UNCHANGED vars
  <2>1. UNCHANGED <<parent, name, exists, cwd, pc, command, argument, current_directory, meddled>>
    BY <1>1 DEF vars
  <2>2. getcwd' = getcwd /\ Alone' = Alone
    BY <2>1, SameWorkingPath DEF Alone
  <2>3. HostInv' /\ ServerInv'
    BY <2>1, <2>2 DEF DirectoriesInv, HostInv, ServerInv
  <2>4. DirectoriesInv'
    BY <2>3 DEF DirectoriesInv
  <2> QED
    BY <1>1, <2>4
<1>2. CASE Host
  <2>1. ~Alone' /\ UNCHANGED <<cwd, pc, command, argument>>
    BY <1>2 DEF Host, local, Alone
  <2>2. HostInv' /\ ServerInv'
    BY <1>2, <2>1, HostKeepsTree DEF DirectoriesInv, ServerInv
  <2> QED
    BY <2>1, <2>2 DEF DirectoriesInv, Kept, InPlace
<1>3. CASE Connect \/ Disconnect
  <2>1. UNCHANGED <<parent, name, exists, cwd, argument>> /\ pc' \notin {"chdir", "change"}
    BY <1>3 DEF Connect, Disconnect, tree, local, Answer
  <2>2. HostInv' /\ ServerInv'
    BY <2>1 DEF DirectoriesInv, HostInv, ServerInv
  <2> QED
    BY <2>1, <2>2 DEF DirectoriesInv, Kept, InPlace
<1>4. ASSUME NEW cmd \in Commands, NEW arg \in Names, Receive(cmd, arg)
      PROVE  DirectoriesInv' /\ Kept /\ InPlace
  BY <1>4, ReceiveInv DEF Kept, InPlace
<1>5. CASE Return
  BY <1>5, ReturnInv DEF Kept, InPlace, Return
<1>6. CASE create_directory \/ remove_directory
  BY <1>6, ChangeInv DEF Kept, InPlace
<1> QED
  BY <1>1, <1>2, <1>3, <1>4, <1>5, <1>6 DEF Next

-----------------------------------------------------------------------------
(* Theorems *)

\* DirectoriesInv holds in every state, whatever the sessions and the host do.
THEOREM InvariantHolds == Spec => []DirectoriesInv
  BY InitInv, NextInv, PTL DEF Spec

\* The working directory is the one the clients have gone to, however deep it
\* is, and also when it or one above it is renamed between commands.
THEOREM WorkingDirectoryStays == Spec => WorkingDirectoryKept
<1>1. DirectoriesInv /\ [Next]_vars =>
        [cwd' # cwd => command' \in {"CWD", "CWD /", "CDUP"} \/ meddled]_vars
  BY NextInv DEF Kept, Alone
<1> QED
  BY <1>1, InvariantHolds, PTL DEF Spec, WorkingDirectoryKept

\* MKD and RMD work in it, and in no other directory that has its former path.
THEOREM ChangesAreWhereWorking == Spec => ChangesWhereWorking
<1>1. DirectoriesInv /\ [Next]_vars =>
        [pc = "change" /\ ~meddled' /\ exists' # exists =>
            \E d \in Dirs : /\ exists' \in {exists \cup {d}, exists \ {d}}
                            /\ parent'[d] = cwd]_vars
  BY NextInv DEF InPlace, Alone
<1> QED
  BY <1>1, InvariantHolds, PTL DEF Spec, ChangesWhereWorking
=============================================================================
