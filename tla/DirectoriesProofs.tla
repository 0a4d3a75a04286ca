------------------------- MODULE DirectoriesProofs --------------------------
(***************************************************************************)
(* What holds of directories for any number of clusters, names and slots,  *)
(* whichever transfers fail.                                               *)
(*                                                                         *)
(* The clusters of the tree have a layout l: the directory or file each    *)
(* belongs to, its place in that chain, and for the first of a chain the   *)
(* slot its entry stands in.  Slots, table and layout that fit together    *)
(* are Good; from a layout the tree is known without following chains, and *)
(* every call leaves one.                                                  *)
(***************************************************************************)
EXTENDS Directories, FatTableProofs

(* The bounds of the constants, under their usual names. *)
LEMMA Constants ==
  /\ RootSlots \in Nat /\ RootSlots > 0
  /\ SlotsPerSector \in Nat /\ SlotsPerSector > 2
  /\ "." \notin Names /\ ".." \notin Names
BY DirectoriesAssumption

-----------------------------------------------------------------------------
(* Counting *)

(* A numbering without gaps stays below the number of what it numbers. *)
LEMMA NoGaps ==
  ASSUME NEW S, IsFiniteSet(S), NEW f \in [S -> Nat],
         \A x \in S : f[x] # 0 => \E y \in S : f[y] + 1 = f[x]
  PROVE  \A x \in S : f[x] < Cardinality(S)
<1> SUFFICES ASSUME NEW x \in S, f[x] >= Cardinality(S) PROVE FALSE
  BY FS_CardinalityType
<1> DEFINE I == {m \in Nat : \E y \in S : f[y] + m = f[x]}
<1>1. 0 \in I
  OBVIOUS
<1>2. ASSUME NEW m \in 0 + 1 .. f[x], m - 1 \in I PROVE m \in I
  <2>1. PICK y \in S : f[y] + (m - 1) = f[x]
    BY <1>2
  <2>2. f[y] # 0
    BY <2>1
  <2>3. PICK z \in S : f[z] + 1 = f[y]
    BY <2>2
  <2>4. f[z] + m = f[x]
    BY <2>1, <2>3
  <2> QED BY <2>4
<1> HIDE DEF I
<1>3. \A m \in 0 .. f[x] : m \in I
  BY <1>1, <1>2, Upwards
<1>4. \A k \in 0 .. f[x] : \E y \in S : f[y] = k
  <2> SUFFICES ASSUME NEW k \in 0 .. f[x] PROVE \E y \in S : f[y] = k
    OBVIOUS
  <2>1. f[x] - k \in 0 .. f[x]
    OBVIOUS
  <2>2. PICK y \in S : f[y] + (f[x] - k) = f[x]
    BY <1>3, <2>1 DEF I
  <2> QED BY <2>2
<1> DEFINE g == [k \in 0 .. f[x] |-> CHOOSE y \in S : f[y] = k]
<1>5. g \in [0 .. f[x] -> S] /\ \A k \in 0 .. f[x] : f[g[k]] = k
  BY <1>4
<1>6. IsFiniteSet(0 .. f[x]) /\ Cardinality(0 .. f[x]) = f[x] + 1
  BY FS_Interval
<1>7. Cardinality(S) < Cardinality(0 .. f[x])
  BY <1>6, FS_CardinalityType
<1> HIDE DEF g
<1>8. PICK j, k \in 0 .. f[x] : j # k /\ g[j] = g[k]
  BY <1>5, <1>6, <1>7, FS_PigeonHole
<1> QED BY <1>5, <1>8

-----------------------------------------------------------------------------
(* Layouts.  A cell is a cluster or the root; no cluster is numbered EOC,  *)
(* which stands for "nobody's".                                            *)

Cell == Clusters \cup {ROOT_CLUSTER}
Nobody == EOC
Layouts == [own : [Cell -> Cell \cup {Nobody}], pos : [Cell -> Nat],
            dirs : SUBSET Cell, rank : [Cell -> Nat],
            in : [Cell -> Cell], num : [Cell -> Nat]]

Width(c) == IF c = ROOT_CLUSTER THEN RootSlots ELSE SlotsPerSector
Kind == {"unused", "deleted", "dot", "file", "dir"}
Dots == {".", ".."}
Slot == {s \in [is : Kind, name : Names \cup Dots, first : Cell] :
            /\ s.is \in {"file", "dir"} => s.name \in Names
            /\ s.is = "dot" => s.name \in Dots}
IsEntry(s) == s.is \in {"file", "dir"}

(* The slots of all cells. *)
Slots(rt, sb) == [c \in Cell |-> IF c = ROOT_CLUSTER THEN rt ELSE sb[c]]

(* The cells of directories, and a slot's index in its directory. *)
DirCells(l) == {c \in Cell : l.own[c] \in l.dirs}
Index(l, c, i) == l.pos[c] * SlotsPerSector + i

(* Chains: each cluster of one stands next to those before and after it. *)
GoodChains(F, l) ==
    /\ l \in Layouts
    /\ ROOT_CLUSTER \in l.dirs /\ l.own[ROOT_CLUSTER] = ROOT_CLUSTER
    /\ l.pos[ROOT_CLUSTER] = 0 /\ l.rank[ROOT_CLUSTER] = 0
    /\ \A d \in l.dirs : l.own[d] = d
    /\ \A c \in Clusters : l.own[c] # Nobody =>
          /\ F[c] # FREE /\ l.own[c] # ROOT_CLUSTER /\ l.own[l.own[c]] = l.own[c]
          /\ l.own[c] = c <=> l.pos[c] = 0
          /\ F[c] = EOC \/ (F[c] \in Clusters /\ l.own[F[c]] = l.own[c] /\ l.pos[F[c]] = l.pos[c] + 1)
          /\ l.pos[c] # 0 => \E b \in Clusters : l.own[b] = l.own[c] /\ F[b] = c /\ l.pos[b] + 1 = l.pos[c]
          /\ l.own[c] \notin l.dirs => l.own[c] = c /\ F[c] = EOC
    /\ \A b, c \in Clusters : l.own[b] = l.own[c] /\ l.own[b] # Nobody /\ l.pos[b] = l.pos[c] => b = c

(* Slots: every directory's are there, with its dots first. *)
GoodSlots(T, l) ==
    /\ \A c \in DirCells(l) : T[c] \in [1 .. Width(c) -> Slot]
    /\ \A d \in l.dirs \ {ROOT_CLUSTER} :
          /\ T[d][1] = Entry32("dot", ".", d)
          /\ T[d][2] = Entry32("dot", "..", l.own[l.in[d]])

(* Entries: each first cluster has one, and a directory is one below its   *)
(* parent.                                                                 *)
GoodEntries(T, l) ==
    /\ \A c \in DirCells(l) : \A i \in 1 .. Width(c) : IsEntry(T[c][i]) =>
          LET f == T[c][i].first IN
          /\ T[c][i].is = "dir" => f \in l.dirs \ {ROOT_CLUSTER} /\ l.rank[f] = l.rank[l.own[c]] + 1
          /\ T[c][i].is = "file" => f \notin l.dirs \ {ROOT_CLUSTER}
          /\ f # FREE => l.own[f] = f /\ l.in[f] = c /\ l.num[f] = i
    /\ \A f \in Clusters : l.own[f] = f =>
          /\ l.in[f] \in DirCells(l) /\ l.num[f] \in 1 .. Width(l.in[f])
          /\ T[l.in[f]][l.num[f]].first = f
          /\ T[l.in[f]][l.num[f]].is = IF f \in l.dirs THEN "dir" ELSE "file"

(* Names are given once, and behind an unused slot are unused ones. *)
GoodNames(T, l) ==
    \A b, c \in DirCells(l) : l.own[b] = l.own[c] =>
        \A i \in 1 .. Width(b), j \in 1 .. Width(c) :
            /\ IsEntry(T[b][i]) /\ IsEntry(T[c][j]) /\ T[b][i].name = T[c][j].name => b = c /\ i = j
            /\ Index(l, b, i) < Index(l, c, j) /\ T[b][i].is = "unused" => T[c][j].is = "unused"

Good(T, F, l) == GoodChains(F, l) /\ GoodSlots(T, l) /\ GoodEntries(T, l) /\ GoodNames(T, l)

(* The cells are the clusters and the root, finitely many; 0 is the root   *)
(* and free.                                                               *)
LEMMA CellsAre ==
  /\ Clusters \subseteq Cell /\ ROOT_CLUSTER \in Cell /\ ROOT_CLUSTER \notin Clusters
  /\ ROOT_CLUSTER = 0 /\ ROOT_CLUSTER = FREE /\ Nobody = EOC /\ Nobody \notin Cell
  /\ \A c \in Cell : c \in Clusters \/ c = ROOT_CLUSTER
  /\ \A c \in Cell : c # ROOT_CLUSTER => c \in Clusters
  /\ IsFiniteSet(Cell) /\ Cardinality(Cell) = NClusters + 1
<1>1. ROOT_CLUSTER \notin Clusters /\ ROOT_CLUSTER # EOC /\ EOC \notin Clusters
  BY ClustersAre DEF ROOT_CLUSTER
<1>2. IsFiniteSet(Cell) /\ Cardinality(Cell) = NClusters + 1
  BY <1>1, ClustersFinite, FS_AddElement DEF Cell, NClusters
<1> QED BY <1>1, <1>2 DEF Cell, ROOT_CLUSTER, FREE, Nobody

(* Every cell has slots. *)
LEMMA WidthIs == \A c \in Cell : Width(c) \in Nat /\ Width(c) > 0 /\ (c # ROOT_CLUSTER => Width(c) = SlotsPerSector)
BY Constants DEF Width

(* The types of a layout's parts. *)
LEMMA LayoutHas ==
  ASSUME NEW l \in Layouts
  PROVE  /\ l.own \in [Cell -> Cell \cup {Nobody}] /\ l.pos \in [Cell -> Nat]
         /\ l.dirs \in SUBSET Cell /\ l.rank \in [Cell -> Nat]
         /\ l.in \in [Cell -> Cell] /\ l.num \in [Cell -> Nat]
         /\ \A c \in Cell : l.pos[c] \in Nat /\ l.rank[c] \in Nat /\ l.in[c] \in Cell /\ l.num[c] \in Nat
         /\ \A c \in Cell : l.own[c] \in Cell \/ l.own[c] = Nobody
BY DEF Layouts

(* The types of a slot's parts. *)
LEMMA SlotHas ==
  \A s \in Slot : /\ s.is \in Kind /\ s.name \in Names \cup Dots /\ s.first \in Cell
                  /\ IsEntry(s) => s.name \in Names
                  /\ s.is = "dot" => s.name \in Dots
BY DEF Slot, IsEntry

(* The slots of the root and of the clusters. *)
LEMMA SlotsAre ==
  ASSUME NEW rt, NEW sb
  PROVE  /\ Slots(rt, sb)[ROOT_CLUSTER] = rt
         /\ \A c \in Clusters : Slots(rt, sb)[c] = sb[c]
         /\ DOMAIN Slots(rt, sb) = Cell
BY CellsAre DEF Slots

(* The cells of directory d, and those of the clusters that are its own. *)
CellsOf(l, d) == {c \in Cell : l.own[c] = d}

(* A directory's cells: it is the first of them, and no two have one       *)
(* place.                                                                  *)
LEMMA CellsOfIs ==
  ASSUME NEW F, NEW l, GoodChains(F, l), NEW d \in l.dirs
  PROVE  /\ d \in CellsOf(l, d) /\ l.pos[d] = 0 /\ d \in Cell
         /\ CellsOf(l, d) \subseteq DirCells(l)
         /\ d = ROOT_CLUSTER => CellsOf(l, d) = {ROOT_CLUSTER}
         /\ d # ROOT_CLUSTER => d \in Clusters /\ CellsOf(l, d) \subseteq Clusters
         /\ \A b, c \in CellsOf(l, d) : l.pos[b] = l.pos[c] => b = c
         /\ \A c \in CellsOf(l, d) : l.pos[c] \in Nat /\ l.pos[c] < NClusters
<1>1. /\ l \in Layouts /\ d \in Cell /\ l.own[d] = d /\ l.own[ROOT_CLUSTER] = ROOT_CLUSTER
      /\ l.pos[ROOT_CLUSTER] = 0
      /\ \A c \in Clusters : l.own[c] # Nobody =>
           /\ l.own[c] # ROOT_CLUSTER
           /\ l.own[c] = c <=> l.pos[c] = 0
           /\ l.pos[c] # 0 => \E b \in Clusters : l.own[b] = l.own[c] /\ F[b] = c /\ l.pos[b] + 1 = l.pos[c]
      /\ \A b, c \in Clusters : l.own[b] = l.own[c] /\ l.own[b] # Nobody /\ l.pos[b] = l.pos[c] => b = c
  BY LayoutHas DEF GoodChains
<1>2. d # Nobody /\ \A c \in Cell : l.pos[c] \in Nat
  BY <1>1, CellsAre, LayoutHas
<1>3. d = ROOT_CLUSTER => CellsOf(l, d) = {ROOT_CLUSTER}
  <2> SUFFICES ASSUME d = ROOT_CLUSTER PROVE CellsOf(l, d) = {ROOT_CLUSTER}
    OBVIOUS
  <2>1. \A c \in Clusters : l.own[c] # d
    BY <1>1, <1>2
  <2>2. \A c \in Cell : c \in CellsOf(l, d) => c = ROOT_CLUSTER
    BY <2>1, CellsAre DEF CellsOf
  <2>3. ROOT_CLUSTER \in CellsOf(l, d)
    BY <1>1, CellsAre DEF CellsOf
  <2>4. \A c \in CellsOf(l, d) : c \in Cell
    BY DEF CellsOf
  <2> QED BY <2>2, <2>3, <2>4
<1>4. d # ROOT_CLUSTER => d \in Clusters /\ CellsOf(l, d) \subseteq Clusters
  BY <1>1, CellsAre DEF CellsOf
<1>5. \A b, c \in CellsOf(l, d) : l.pos[b] = l.pos[c] => b = c
  BY <1>1, <1>2, <1>3, <1>4 DEF CellsOf
<1>6. \A c \in CellsOf(l, d) : l.pos[c] < NClusters
  <2>1. CASE d = ROOT_CLUSTER
    <3>1. NClusters # 0 /\ NClusters \in Nat
      BY ClustersFinite, ClustersAre, FS_EmptySet DEF NClusters
    <3> QED BY <1>1, <1>3, <2>1, <3>1, CellsAre
  <2>2. CASE d # ROOT_CLUSTER
    <3> DEFINE S == CellsOf(l, d)
               f == [c \in S |-> l.pos[c]]
    <3>1. S \subseteq Clusters /\ IsFiniteSet(S) /\ Cardinality(S) \in Nat /\ Cardinality(S) <= NClusters
      BY <1>4, <2>2, ClustersFinite, FS_Subset, FS_CardinalityType DEF NClusters
    <3>2. f \in [S -> Nat] /\ \A x \in S : f[x] # 0 => \E y \in S : f[y] + 1 = f[x]
      <4>1. f \in [S -> Nat]
        BY <1>2 DEF CellsOf
      <4>2. ASSUME NEW x \in S, f[x] # 0 PROVE \E y \in S : f[y] + 1 = f[x]
        <5>1. PICK b \in Clusters : l.own[b] = l.own[x] /\ l.pos[b] + 1 = l.pos[x]
          BY <1>1, <1>2, <3>1, <4>2 DEF CellsOf
        <5>2. b \in S
          BY <5>1, CellsAre DEF CellsOf
        <5> QED BY <5>1, <5>2
      <4> QED BY <4>1, <4>2
    <3>3. \A x \in S : f[x] < Cardinality(S)
      <4> HIDE DEF S, f
      <4> QED BY <3>1, <3>2, NoGaps
    <3>4. ASSUME NEW c \in S PROVE l.pos[c] < NClusters
      <4>1. f[c] = l.pos[c] /\ f[c] < Cardinality(S) /\ f[c] \in Nat
        BY <3>2, <3>3
      <4> HIDE DEF S, f
      <4> QED BY <3>1, <4>1, ClustersFinite
    <3> QED BY <3>4
  <2> QED BY <2>1, <2>2
<1>7. d \in CellsOf(l, d) /\ CellsOf(l, d) \subseteq DirCells(l)
  BY <1>1 DEF CellsOf, DirCells
<1>8. l.pos[d] = 0
  BY <1>1, <1>2, <1>4, CellsAre
<1>9. \A c \in CellsOf(l, d) : l.pos[c] \in Nat
  BY <1>2 DEF CellsOf
<1> QED BY <1>1, <1>3, <1>4, <1>5, <1>6, <1>7, <1>8, <1>9

-----------------------------------------------------------------------------
(* The tree, read off the layout *)

LinksTo(F, l, d, k) == {<<l.pos[c], c>> : c \in {b \in CellsOf(l, d) : l.pos[b] <= k}}
LinkNext(F, q, k) == {<<k, F[p[2]]>> : p \in {x \in q : x[1] = k - 1 /\ F[x[2]] \in Clusters}}

(* One more turn of the walk over a directory's chain. *)
LEMMA LinkStep ==
  ASSUME NEW F, NEW l, GoodChains(F, l), NEW d \in l.dirs \ {ROOT_CLUSTER}, NEW k \in Nat, k # 0
  PROVE  LinksTo(F, l, d, k) = LinksTo(F, l, d, k - 1) \cup LinkNext(F, LinksTo(F, l, d, k - 1), k)
<1>1. /\ CellsOf(l, d) \subseteq Clusters /\ \A c \in CellsOf(l, d) : l.pos[c] \in Nat
      /\ \A c \in CellsOf(l, d) : l.own[c] = d /\ l.own[c] # Nobody
  BY CellsOfIs, CellsAre DEF CellsOf
<1>2. /\ \A c \in CellsOf(l, d) :
            /\ F[c] = EOC \/ (F[c] \in CellsOf(l, d) /\ l.pos[F[c]] = l.pos[c] + 1)
            /\ l.pos[c] # 0 => \E b \in CellsOf(l, d) : F[b] = c /\ l.pos[b] + 1 = l.pos[c]
  <2> SUFFICES ASSUME NEW c \in CellsOf(l, d)
               PROVE  /\ F[c] = EOC \/ (F[c] \in CellsOf(l, d) /\ l.pos[F[c]] = l.pos[c] + 1)
                      /\ l.pos[c] # 0 => \E b \in CellsOf(l, d) : F[b] = c /\ l.pos[b] + 1 = l.pos[c]
    OBVIOUS
  <2>1. c \in Clusters /\ l.own[c] = d /\ l.own[c] # Nobody
    BY <1>1
  <2>2. /\ F[c] = EOC \/ (F[c] \in Clusters /\ l.own[F[c]] = l.own[c] /\ l.pos[F[c]] = l.pos[c] + 1)
        /\ l.pos[c] # 0 => \E b \in Clusters : l.own[b] = l.own[c] /\ F[b] = c /\ l.pos[b] + 1 = l.pos[c]
    BY <2>1 DEF GoodChains
  <2>3. \A b \in Clusters : l.own[b] = d => b \in CellsOf(l, d)
    BY CellsAre DEF CellsOf
  <2> QED BY <2>1, <2>2, <2>3
<1>3. ASSUME NEW x \in LinksTo(F, l, d, k)
      PROVE  x \in LinksTo(F, l, d, k - 1) \cup LinkNext(F, LinksTo(F, l, d, k - 1), k)
  <2>1. PICK c \in CellsOf(l, d) : l.pos[c] <= k /\ x = <<l.pos[c], c>>
    BY DEF LinksTo
  <2>2. CASE l.pos[c] <= k - 1
    BY <2>1, <2>2 DEF LinksTo
  <2>3. CASE ~(l.pos[c] <= k - 1)
    <3>1. l.pos[c] = k
      BY <1>1, <2>1, <2>3
    <3>2. PICK b \in CellsOf(l, d) : F[b] = c /\ l.pos[b] + 1 = k
      BY <1>2, <3>1
    <3>3. l.pos[b] = k - 1 /\ l.pos[b] <= k - 1
      BY <1>1, <3>2
    <3>4. <<k - 1, b>> \in LinksTo(F, l, d, k - 1)
      BY <3>3 DEF LinksTo
    <3>5. F[b] \in Clusters
      BY <1>1, <3>2
    <3>6. <<k, F[b]>> \in LinkNext(F, LinksTo(F, l, d, k - 1), k)
      BY <3>4, <3>5 DEF LinkNext
    <3> QED BY <2>1, <3>1, <3>2, <3>6
  <2> QED BY <2>2, <2>3
<1>4. ASSUME NEW x \in LinksTo(F, l, d, k - 1) PROVE x \in LinksTo(F, l, d, k)
  <2>1. PICK c \in CellsOf(l, d) : l.pos[c] <= k - 1 /\ x = <<l.pos[c], c>>
    BY DEF LinksTo
  <2>2. l.pos[c] <= k
    BY <1>1, <2>1
  <2> QED BY <2>1, <2>2 DEF LinksTo
<1>5. ASSUME NEW x \in LinkNext(F, LinksTo(F, l, d, k - 1), k) PROVE x \in LinksTo(F, l, d, k)
  <2>1. PICK p \in LinksTo(F, l, d, k - 1) : p[1] = k - 1 /\ F[p[2]] \in Clusters /\ x = <<k, F[p[2]]>>
    BY DEF LinkNext
  <2>2. PICK c \in CellsOf(l, d) : p = <<l.pos[c], c>>
    BY DEF LinksTo
  <2>3. F[c] \in CellsOf(l, d) /\ l.pos[F[c]] = k /\ x = <<k, F[c]>>
    BY <1>1, <1>2, <2>1, <2>2, ClustersAre
  <2>4. l.pos[F[c]] <= k
    BY <2>3
  <2> QED BY <2>3, <2>4 DEF LinksTo
<1> QED BY <1>3, <1>4, <1>5

LinkTurns(g, F, d) ==
    g = [k \in 0 .. NClusters |->
            IF k = 0 THEN {<<0, d>>} ELSE g[k - 1] \cup LinkNext(F, g[k - 1], k)]

(* The links of a directory are its cells, each with its place. *)
LEMMA LinksAre ==
  ASSUME NEW F, NEW l, GoodChains(F, l), NEW d \in l.dirs \ {ROOT_CLUSTER}
  PROVE  /\ Links(F, d) = {<<l.pos[c], c>> : c \in CellsOf(l, d)}
         /\ ChainOf(F, d) = CellsOf(l, d)
<1>0. NClusters \in Nat /\ NClusters # 0 /\ NClusters - 1 \in 0 .. NClusters
  BY ClustersFinite, ClustersAre, FS_EmptySet DEF NClusters
<1>1. /\ d \in CellsOf(l, d) /\ l.pos[d] = 0
      /\ \A c \in CellsOf(l, d) : l.pos[c] \in Nat /\ l.pos[c] < NClusters
      /\ \A b, c \in CellsOf(l, d) : l.pos[b] = l.pos[c] => b = c
  BY CellsOfIs
<1>2. LinksTo(F, l, d, 0) = {<<0, d>>}
  <2>1. ASSUME NEW c \in CellsOf(l, d), l.pos[c] <= 0 PROVE c = d
    BY <1>1, <2>1
  <2> QED BY <1>1, <2>1 DEF LinksTo
<1> DEFINE G == [k \in 0 .. NClusters |-> LinksTo(F, l, d, k)]
<1>3. LinkTurns(G, F, d)
  <2>1. ASSUME NEW k \in 0 .. NClusters, k # 0
        PROVE  G[k] = G[k - 1] \cup LinkNext(F, G[k - 1], k)
    <3>1. k - 1 \in 0 .. NClusters /\ k \in Nat
      BY <1>0, <2>1
    <3>2. LinksTo(F, l, d, k) = LinksTo(F, l, d, k - 1) \cup LinkNext(F, LinksTo(F, l, d, k - 1), k)
      BY <2>1, <3>1, LinkStep
    <3> QED BY <3>1, <3>2
  <2>2. G[0] = {<<0, d>>}
    BY <1>0, <1>2
  <2>3. G = [k \in 0 .. NClusters |-> G[k]]
    OBVIOUS
  <2> HIDE DEF G
  <2> QED BY <2>1, <2>2, <2>3 DEF LinkTurns
<1> DEFINE h == CHOOSE g : LinkTurns(g, F, d)
<1>4. LinkTurns(h, F, d)
  BY <1>3
<1>5. Links(F, d) = h[NClusters - 1]
  BY DEF Links, LinkTurns, LinkNext, NClusters
<1> HIDE DEF h
<1> DEFINE I == {k \in 0 .. NClusters : h[k] = LinksTo(F, l, d, k)}
<1>6. 0 \in I
  BY <1>0, <1>2, <1>4 DEF LinkTurns
<1>7. ASSUME NEW k \in 0 + 1 .. NClusters, k - 1 \in I PROVE k \in I
  <2>1. k \in 0 .. NClusters /\ k # 0 /\ k \in Nat
    BY <1>0
  <2>2. h[k] = h[k - 1] \cup LinkNext(F, h[k - 1], k)
    BY <1>4, <2>1 DEF LinkTurns
  <2>3. h[k - 1] = LinksTo(F, l, d, k - 1)
    BY <1>7
  <2>4. LinksTo(F, l, d, k) = LinksTo(F, l, d, k - 1) \cup LinkNext(F, LinksTo(F, l, d, k - 1), k)
    BY <2>1, LinkStep
  <2>5. h[k] = LinksTo(F, l, d, k)
    BY <2>2, <2>3, <2>4
  <2> QED BY <2>1, <2>5
<1> HIDE DEF I
<1>8. \A k \in 0 .. NClusters : k \in I
  BY <1>0, <1>6, <1>7, Upwards
<1>9. Links(F, d) = LinksTo(F, l, d, NClusters - 1)
  BY <1>0, <1>5, <1>8 DEF I
<1>10. \A c \in CellsOf(l, d) : l.pos[c] <= NClusters - 1
  BY <1>0, <1>1
<1>11. Links(F, d) = {<<l.pos[c], c>> : c \in CellsOf(l, d)}
  BY <1>9, <1>10 DEF LinksTo
<1>12. ChainOf(F, d) = CellsOf(l, d)
  <2>1. ASSUME NEW c \in CellsOf(l, d) PROVE c \in ChainOf(F, d)
    <3>1. <<l.pos[c], c>> \in Links(F, d) /\ <<l.pos[c], c>>[2] = c
      BY <1>11
    <3> QED BY <3>1 DEF ChainOf
  <2>2. ASSUME NEW x \in ChainOf(F, d) PROVE x \in CellsOf(l, d)
    <3>1. PICK p \in Links(F, d) : x = p[2]
      BY DEF ChainOf
    <3>2. PICK c \in CellsOf(l, d) : p = <<l.pos[c], c>>
      BY <1>11
    <3> QED BY <3>1, <3>2
  <2> QED BY <2>1, <2>2
<1> QED BY <1>11, <1>12

(* Places in a tree: a cell and a slot of it. *)
PlacesIn(l, d) == {p \in CellsOf(l, d) \X (1 .. RootSlots + SlotsPerSector) : p[2] <= Width(p[1])}

(* What the code reaches along the chain are the slots at the layout's     *)
(* places.                                                                 *)
LEMMA SlotsOfIs ==
  ASSUME NEW rt, NEW sb, NEW T, T = Slots(rt, sb), NEW F, NEW l, GoodChains(F, l), GoodSlots(T, l),
         NEW d \in l.dirs
  PROVE  SlotsOf(rt, sb, F, d) = {<<Index(l, p[1], p[2]), T[p[1]][p[2]]>> : p \in PlacesIn(l, d)}
<1>1. d \in CellsOf(l, d) /\ l.pos[d] = 0 /\ CellsOf(l, d) \subseteq DirCells(l) /\ d \in Cell
      /\ CellsOf(l, d) \subseteq Cell
  BY CellsOfIs DEF CellsOf
<1>2. \A c \in CellsOf(l, d) : DOMAIN T[c] = 1 .. Width(c)
  BY <1>1 DEF GoodSlots
<1>3. \A c \in CellsOf(l, d) : \A i : i \in 1 .. Width(c) <=> i \in 1 .. RootSlots + SlotsPerSector /\ i <= Width(c)
  BY <1>1, Constants DEF Width
<1>4. CASE d = ROOT_CLUSTER
  <2>1. CellsOf(l, d) = {ROOT_CLUSTER} /\ T[ROOT_CLUSTER] = rt
    BY <1>4, CellsOfIs, SlotsAre
  <2>2. SlotsOf(rt, sb, F, d) = {<<i, T[d][i]>> : i \in 1 .. Width(d)}
    BY <1>1, <1>2, <1>4, <2>1 DEF SlotsOf
  <2>3. \A i \in 1 .. Width(d) : Index(l, d, i) = i
    BY <1>1, Constants, WidthIs DEF Index
  <2>4. ASSUME NEW i \in 1 .. Width(d)
        PROVE  <<i, T[d][i]>> \in {<<Index(l, p[1], p[2]), T[p[1]][p[2]]>> : p \in PlacesIn(l, d)}
    <3>1. <<d, i>> \in PlacesIn(l, d)
      BY <1>1, <1>3 DEF PlacesIn
    <3> QED BY <2>3, <3>1
  <2>5. ASSUME NEW p \in PlacesIn(l, d)
        PROVE  \E i \in 1 .. Width(d) : <<Index(l, p[1], p[2]), T[p[1]][p[2]]>> = <<i, T[d][i]>>
    <3>1. p[1] = d /\ p[2] \in 1 .. Width(d)
      BY <1>1, <1>3, <1>4, <2>1 DEF PlacesIn
    <3> QED BY <2>3, <3>1
  <2> QED BY <2>2, <2>4, <2>5
<1>5. CASE d # ROOT_CLUSTER
  <2>1. CellsOf(l, d) \subseteq Clusters /\ \A c \in CellsOf(l, d) : T[c] = sb[c]
    BY <1>5, CellsOfIs, SlotsAre
  <2>2. Links(F, d) = {<<l.pos[c], c>> : c \in CellsOf(l, d)}
    BY <1>5, LinksAre
  <2> DEFINE Of(p) == {<<p[1] * SlotsPerSector + i, sb[p[2]][i]>> : i \in DOMAIN sb[p[2]]}
  <2>3. SlotsOf(rt, sb, F, d) = UNION {Of(p) : p \in Links(F, d)}
    BY <1>5 DEF SlotsOf
  <2>4. ASSUME NEW c \in CellsOf(l, d)
        PROVE  Of(<<l.pos[c], c>>) = {<<Index(l, c, i), T[c][i]>> : i \in 1 .. Width(c)}
    BY <1>2, <2>1 DEF Index
  <2> HIDE DEF Of
  <2>5. ASSUME NEW x \in SlotsOf(rt, sb, F, d)
        PROVE  x \in {<<Index(l, p[1], p[2]), T[p[1]][p[2]]>> : p \in PlacesIn(l, d)}
    <3>1. PICK q \in Links(F, d) : x \in Of(q)
      BY <2>3
    <3>2. PICK c \in CellsOf(l, d) : q = <<l.pos[c], c>>
      BY <2>2
    <3>3. PICK i \in 1 .. Width(c) : x = <<Index(l, c, i), T[c][i]>>
      BY <2>4, <3>1, <3>2
    <3>4. <<c, i>> \in PlacesIn(l, d)
      BY <1>3, <3>3 DEF PlacesIn
    <3> QED BY <3>3, <3>4
  <2>6. ASSUME NEW p \in PlacesIn(l, d)
        PROVE  <<Index(l, p[1], p[2]), T[p[1]][p[2]]>> \in SlotsOf(rt, sb, F, d)
    <3>1. PICK c \in CellsOf(l, d) : c = p[1]
      BY DEF PlacesIn
    <3>2. p[2] \in 1 .. Width(c)
      BY <1>3, <3>1 DEF PlacesIn
    <3>3. <<Index(l, c, p[2]), T[c][p[2]]>> \in Of(<<l.pos[c], c>>)
      BY <2>4, <3>2
    <3>4. <<l.pos[c], c>> \in Links(F, d)
      BY <2>2
    <3> QED BY <2>3, <3>1, <3>3, <3>4
  <2> QED BY <2>5, <2>6
<1> QED BY <1>4, <1>5

-----------------------------------------------------------------------------
(* Changes of slots and table that leave them good *)

(* The parts of Good that are used most. *)
LEMMA GoodHas ==
  ASSUME NEW T, NEW F, NEW l, Good(T, F, l)
  PROVE  /\ l \in Layouts
         /\ \A c \in DirCells(l) : /\ c \in Cell /\ l.own[c] \in l.dirs /\ l.own[c] \in Cell /\ l.own[c] # Nobody
                                   /\ T[c] \in [1 .. Width(c) -> Slot]
         /\ \A c \in DirCells(l) : \A i \in 1 .. Width(c) : T[c][i] \in Slot
         /\ ROOT_CLUSTER \in DirCells(l) /\ ROOT_CLUSTER \in l.dirs
         /\ \A d \in l.dirs : d \in DirCells(l) /\ l.own[d] = d
         /\ \A f \in Clusters : l.own[f] # Nobody => F[f] # FREE
<1>1. l \in Layouts /\ ROOT_CLUSTER \in l.dirs /\ \A d \in l.dirs : l.own[d] = d /\ d \in Cell
  BY LayoutHas DEF Good, GoodChains
<1>2. \A c \in DirCells(l) : c \in Cell /\ l.own[c] \in l.dirs /\ l.own[c] \in Cell
  BY <1>1 DEF DirCells
<1>3. \A c \in DirCells(l) : T[c] \in [1 .. Width(c) -> Slot]
  BY DEF Good, GoodSlots
<1>4. \A c \in DirCells(l) : \A i \in 1 .. Width(c) : T[c][i] \in Slot
  BY <1>3
<1>5. \A d \in l.dirs : d \in DirCells(l)
  BY <1>1 DEF DirCells
<1>6. \A f \in Clusters : l.own[f] # Nobody => F[f] # FREE
  BY DEF Good, GoodChains
<1> QED BY <1>1, <1>2, <1>3, <1>4, <1>5, <1>6, CellsAre

(* What the tree says of an entry, whichever way it is reached. *)
Mark(d, x, n, id) == [dir |-> d, index |-> x, name |-> n, id |-> id]
MarkAt(T, l, c, i) ==
    Mark(l.own[c], Index(l, c, i), T[c][i].name, IF T[c][i].is = "dir" THEN T[c][i].first ELSE ROOT_CLUSTER)
Marks(T, l) ==
    UNION {{MarkAt(T, l, c, i) : i \in {j \in 1 .. Width(c) : IsEntry(T[c][j])}} : c \in DirCells(l)}

(* The parts of a mark. *)
LEMMA MarkIs ==
  ASSUME NEW d, NEW x, NEW n, NEW id
  PROVE  /\ Mark(d, x, n, id).dir = d /\ Mark(d, x, n, id).index = x
         /\ Mark(d, x, n, id).name = n /\ Mark(d, x, n, id).id = id
BY DEF Mark

(* A mark is an entry at its place. *)
LEMMA MarksAre ==
  ASSUME NEW T, NEW l, NEW m
  PROVE  m \in Marks(T, l) <=>
            \E c \in DirCells(l) : \E i \in 1 .. Width(c) : IsEntry(T[c][i]) /\ m = MarkAt(T, l, c, i)
BY DEF Marks

(* Only the slots of directories and the clusters that are somebody's count. *)
LEMMA GoodSame ==
  ASSUME NEW T, NEW U, NEW F, NEW G, NEW l, Good(T, F, l),
         \A c \in DirCells(l) : U[c] = T[c],
         \A c \in Clusters : l.own[c] # Nobody => G[c] = F[c]
  PROVE  Good(U, G, l) /\ Marks(U, l) = Marks(T, l)
<1>1. GoodChains(G, l)
  <2>1. ASSUME NEW c \in Clusters, l.own[c] # Nobody
        PROVE  /\ G[c] # FREE /\ l.own[c] # ROOT_CLUSTER /\ l.own[l.own[c]] = l.own[c]
               /\ l.own[c] = c <=> l.pos[c] = 0
               /\ G[c] = EOC \/ (G[c] \in Clusters /\ l.own[G[c]] = l.own[c] /\ l.pos[G[c]] = l.pos[c] + 1)
               /\ l.pos[c] # 0 => \E b \in Clusters : l.own[b] = l.own[c] /\ G[b] = c /\ l.pos[b] + 1 = l.pos[c]
               /\ l.own[c] \notin l.dirs => l.own[c] = c /\ G[c] = EOC
    <3>1. G[c] = F[c] /\ \A b \in Clusters : l.own[b] = l.own[c] => G[b] = F[b]
      BY <2>1
    <3> QED BY <2>1, <3>1 DEF Good, GoodChains
  <2> QED BY <2>1 DEF Good, GoodChains
<1>2. \A d \in l.dirs : d \in DirCells(l)
  BY GoodHas
<1>3. GoodSlots(U, l)
  BY <1>2 DEF Good, GoodSlots
<1>4. GoodEntries(U, l)
  BY DEF Good, GoodEntries
<1>5. GoodNames(U, l)
  BY DEF Good, GoodNames
<1>6. \A m : m \in Marks(U, l) <=> m \in Marks(T, l)
  BY MarksAre DEF MarkAt
<1> QED BY <1>1, <1>3, <1>4, <1>5, <1>6 DEF Good

(* Slot i of cell c becomes s. *)
PutAt(T, U, l, c, i, s) == \A b \in DirCells(l) : U[b] = IF b = c THEN [T[b] EXCEPT ![i] = s] ELSE T[b]

(* After one slot is written the others are as they were. *)
LEMMA PutAtIs ==
  ASSUME NEW T, NEW U, NEW F, NEW l, Good(T, F, l), NEW c \in DirCells(l), NEW i \in 1 .. Width(c),
         NEW s \in Slot, PutAt(T, U, l, c, i, s)
  PROVE  /\ \A b \in DirCells(l) : U[b] \in [1 .. Width(b) -> Slot]
         /\ \A b \in DirCells(l) : \A j \in 1 .. Width(b) :
               U[b][j] = IF b = c /\ j = i THEN s ELSE T[b][j]
<1>1. \A b \in DirCells(l) : T[b] \in [1 .. Width(b) -> Slot]
  BY GoodHas
<1>2. \A b \in DirCells(l) : b # c => U[b] = T[b]
  BY DEF PutAt
<1>3. U[c] = [T[c] EXCEPT ![i] = s]
  BY DEF PutAt
<1>4. T[c] \in [1 .. Width(c) -> Slot]
  BY <1>1
<1>5. U[c] \in [1 .. Width(c) -> Slot] /\ \A j \in 1 .. Width(c) : U[c][j] = IF j = i THEN s ELSE T[c][j]
  BY <1>3, <1>4
<1> QED BY <1>1, <1>2, <1>5

(* Place c, i is the first that is not in use, or in use. *)
NoneUnusedBefore(T, l, c, i) ==
    \A b \in DirCells(l) : l.own[b] = l.own[c] =>
        \A j \in 1 .. Width(b) : Index(l, b, j) < Index(l, c, i) => T[b][j].is # "unused"
NoneNamed(T, l, d, n) ==
    \A b \in DirCells(l) : l.own[b] = d =>
        \A j \in 1 .. Width(b) : IsEntry(T[b][j]) => T[b][j].name # n

(* In one directory names differ, and nothing stands behind an unused      *)
(* slot.                                                                   *)
LEMMA NamesHas ==
  ASSUME NEW T, NEW F, NEW l, Good(T, F, l), NEW b \in DirCells(l), NEW c \in DirCells(l), l.own[b] = l.own[c],
         NEW i \in 1 .. Width(b), NEW j \in 1 .. Width(c)
  PROVE  /\ IsEntry(T[b][i]) /\ IsEntry(T[c][j]) /\ T[b][i].name = T[c][j].name => b = c /\ i = j
         /\ Index(l, b, i) < Index(l, c, j) /\ T[b][i].is = "unused" => T[c][j].is = "unused"
BY DEF Good, GoodNames

(* What an entry names begins a chain that is its own. *)
LEMMA EntriesHave ==
  ASSUME NEW T, NEW F, NEW l, Good(T, F, l), NEW c \in DirCells(l), NEW i \in 1 .. Width(c), IsEntry(T[c][i])
  PROVE  LET f == T[c][i].first IN
          /\ T[c][i].is = "dir" => f \in l.dirs \ {ROOT_CLUSTER} /\ l.rank[f] = l.rank[l.own[c]] + 1
          /\ T[c][i].is = "file" => f \notin l.dirs \ {ROOT_CLUSTER}
          /\ f # FREE => l.own[f] = f /\ l.in[f] = c /\ l.num[f] = i
BY DEF Good, GoodEntries

(* The first cluster of a chain has the entry that the layout says. *)
LEMMA FirstsHave ==
  ASSUME NEW T, NEW F, NEW l, Good(T, F, l), NEW f \in Clusters, l.own[f] = f
  PROVE  /\ l.in[f] \in DirCells(l) /\ l.num[f] \in 1 .. Width(l.in[f])
         /\ T[l.in[f]][l.num[f]].first = f
         /\ T[l.in[f]][l.num[f]].is = IF f \in l.dirs THEN "dir" ELSE "file"
         /\ IsEntry(T[l.in[f]][l.num[f]])
BY DEF Good, GoodEntries, IsEntry

(* A file's entry is made, or gets another name. *)
LEMMA PutFile ==
  ASSUME NEW T, NEW U, NEW F, NEW l, Good(T, F, l), NEW c \in DirCells(l), NEW i \in 1 .. Width(c),
         NEW m \in Names, NEW s, T[c][i].is \in {"unused", "deleted", "file"},
         s = Entry32("file", m, IF T[c][i].is = "file" THEN T[c][i].first ELSE FREE),
         PutAt(T, U, l, c, i, s), NoneUnusedBefore(T, l, c, i), NoneNamed(T, l, l.own[c], m)
  PROVE  Good(U, F, l)
<1>0. T[c][i] \in Slot /\ l \in Layouts
  BY GoodHas
<1>1. s \in Slot /\ s.is = "file" /\ s.name = m /\ IsEntry(s)
      /\ s.first = (IF T[c][i].is = "file" THEN T[c][i].first ELSE FREE)
  BY <1>0, SlotHas, CellsAre DEF Slot, Entry32, IsEntry, Kind
<1>2. /\ \A b \in DirCells(l) : U[b] \in [1 .. Width(b) -> Slot]
      /\ \A b \in DirCells(l) : \A j \in 1 .. Width(b) :
               U[b][j] = IF b = c /\ j = i THEN s ELSE T[b][j]
  BY <1>1, PutAtIs
<1>3. GoodSlots(U, l)
  <2> SUFFICES ASSUME NEW d \in l.dirs \ {ROOT_CLUSTER}
               PROVE  U[d][1] = Entry32("dot", ".", d) /\ U[d][2] = Entry32("dot", "..", l.own[l.in[d]])
    BY <1>2 DEF GoodSlots
  <2>1. T[d][1] = Entry32("dot", ".", d) /\ T[d][2] = Entry32("dot", "..", l.own[l.in[d]])
    BY DEF Good, GoodSlots
  <2>2. d \in DirCells(l) /\ 1 \in 1 .. Width(d) /\ 2 \in 1 .. Width(d)
    BY GoodHas, WidthIs, Constants
  <2>3. T[d][1].is = "dot" /\ T[d][2].is = "dot"
    BY <2>1 DEF Entry32
  <2> QED BY <1>2, <2>1, <2>2, <2>3
<1>4. GoodEntries(U, l)
  <2>1. ASSUME NEW b \in DirCells(l), NEW j \in 1 .. Width(b), IsEntry(U[b][j])
        PROVE  LET f == U[b][j].first IN
          /\ U[b][j].is = "dir" => f \in l.dirs \ {ROOT_CLUSTER} /\ l.rank[f] = l.rank[l.own[b]] + 1
          /\ U[b][j].is = "file" => f \notin l.dirs \ {ROOT_CLUSTER}
          /\ f # FREE => l.own[f] = f /\ l.in[f] = b /\ l.num[f] = j
    <3>1. CASE b = c /\ j = i
      <4>1. U[b][j] = s
        BY <1>2, <3>1
      <4>2. CASE T[c][i].is = "file"
        BY <1>1, <3>1, <4>1, <4>2, EntriesHave DEF IsEntry
      <4>3. CASE T[c][i].is # "file"
        BY <1>1, <4>1, <4>3, CellsAre
      <4> QED BY <4>2, <4>3
    <3>2. CASE ~(b = c /\ j = i)
      <4>1. U[b][j] = T[b][j]
        BY <1>2, <3>2
      <4> QED BY <2>1, <4>1, EntriesHave
    <3> QED BY <3>1, <3>2
  <2>2. ASSUME NEW f \in Clusters, l.own[f] = f
        PROVE  /\ l.in[f] \in DirCells(l) /\ l.num[f] \in 1 .. Width(l.in[f])
               /\ U[l.in[f]][l.num[f]].first = f
               /\ U[l.in[f]][l.num[f]].is = IF f \in l.dirs THEN "dir" ELSE "file"
    <3> DEFINE b == l.in[f]
               j == l.num[f]
    <3>1. /\ b \in DirCells(l) /\ j \in 1 .. Width(b)
          /\ T[b][j].first = f /\ T[b][j].is = (IF f \in l.dirs THEN "dir" ELSE "file")
      BY <2>2, FirstsHave
    <3>2. CASE b = c /\ j = i
      <4>1. T[c][i].is = "file" /\ f \notin l.dirs
        BY <3>1, <3>2
      <4>2. U[b][j] = s
        BY <1>2, <3>1, <3>2
      <4> QED BY <1>1, <3>1, <3>2, <4>1, <4>2
    <3>3. CASE ~(b = c /\ j = i)
      BY <1>2, <3>1, <3>3
    <3> QED BY <3>2, <3>3
  <2> QED BY <2>1, <2>2 DEF GoodEntries
<1>5. GoodNames(U, l)
  <2> SUFFICES ASSUME NEW a \in DirCells(l), NEW b \in DirCells(l), l.own[a] = l.own[b],
                      NEW j \in 1 .. Width(a), NEW k \in 1 .. Width(b)
               PROVE  /\ IsEntry(U[a][j]) /\ IsEntry(U[b][k]) /\ U[a][j].name = U[b][k].name => a = b /\ j = k
                      /\ Index(l, a, j) < Index(l, b, k) /\ U[a][j].is = "unused" => U[b][k].is = "unused"
    BY DEF GoodNames
  <2>1. U[a][j] = IF a = c /\ j = i THEN s ELSE T[a][j]
    BY <1>2
  <2>2. U[b][k] = IF b = c /\ k = i THEN s ELSE T[b][k]
    BY <1>2
  <2>3. /\ IsEntry(T[a][j]) /\ IsEntry(T[b][k]) /\ T[a][j].name = T[b][k].name => a = b /\ j = k
        /\ Index(l, a, j) < Index(l, b, k) /\ T[a][j].is = "unused" => T[b][k].is = "unused"
    BY NamesHas
  <2>4. l.own[a] = l.own[c] /\ IsEntry(T[a][j]) => T[a][j].name # m
    BY DEF NoneNamed
  <2>5. l.own[b] = l.own[c] /\ IsEntry(T[b][k]) => T[b][k].name # m
    BY DEF NoneNamed
  <2>6. b = c /\ k = i /\ Index(l, a, j) < Index(l, b, k) => T[a][j].is # "unused"
    BY DEF NoneUnusedBefore
  <2>7. s.is # "unused"
    BY <1>1
  <2> QED BY <1>1, <2>1, <2>2, <2>3, <2>4, <2>5, <2>6, <2>7
<1> QED BY <1>3, <1>4, <1>5 DEF Good

(* A layout with a new first cluster f, whose entry is slot i of cell c. *)
Founded(l, f, c, i, kind) ==
    [own |-> [l.own EXCEPT ![f] = f], pos |-> [l.pos EXCEPT ![f] = 0],
     dirs |-> IF kind = "dir" THEN l.dirs \cup {f} ELSE l.dirs,
     rank |-> [l.rank EXCEPT ![f] = l.rank[l.own[c]] + 1],
     in |-> [l.in EXCEPT ![f] = c], num |-> [l.num EXCEPT ![f] = i]]

(* The layout in which a cluster begins a chain of its own. *)
LEMMA FoundedIs ==
  ASSUME NEW l \in Layouts, NEW f \in Clusters, NEW c \in Cell, NEW i \in Nat, NEW kind, l.own[c] \in Cell,
         l.own[f] = Nobody
  PROVE  LET k == Founded(l, f, c, i, kind) IN
         /\ k \in Layouts
         /\ k.own[f] = f /\ k.pos[f] = 0 /\ k.rank[f] = l.rank[l.own[c]] + 1 /\ k.in[f] = c /\ k.num[f] = i
         /\ k.dirs = IF kind = "dir" THEN l.dirs \cup {f} ELSE l.dirs
         /\ \A x \in Cell : x # f => /\ k.own[x] = l.own[x] /\ k.pos[x] = l.pos[x] /\ k.rank[x] = l.rank[x]
                                     /\ k.in[x] = l.in[x] /\ k.num[x] = l.num[x]
<1>1. /\ l.own \in [Cell -> Cell \cup {Nobody}] /\ l.pos \in [Cell -> Nat]
      /\ l.dirs \in SUBSET Cell /\ l.rank \in [Cell -> Nat]
      /\ l.in \in [Cell -> Cell] /\ l.num \in [Cell -> Nat] /\ f \in Cell
      /\ l.rank[l.own[c]] \in Nat
  BY LayoutHas, CellsAre
<1> DEFINE k == Founded(l, f, c, i, kind)
<1>2. /\ k.own = [l.own EXCEPT ![f] = f] /\ k.pos = [l.pos EXCEPT ![f] = 0]
      /\ k.dirs = (IF kind = "dir" THEN l.dirs \cup {f} ELSE l.dirs)
      /\ k.rank = [l.rank EXCEPT ![f] = l.rank[l.own[c]] + 1]
      /\ k.in = [l.in EXCEPT ![f] = c] /\ k.num = [l.num EXCEPT ![f] = i]
      /\ k = [own |-> k.own, pos |-> k.pos, dirs |-> k.dirs, rank |-> k.rank, in |-> k.in, num |-> k.num]
  BY DEF Founded
<1> HIDE DEF k
<1>3. /\ k.own \in [Cell -> Cell \cup {Nobody}] /\ k.own[f] = f /\ \A x \in Cell : x # f => k.own[x] = l.own[x]
  BY <1>1, <1>2
<1>4. /\ k.pos \in [Cell -> Nat] /\ k.pos[f] = 0 /\ \A x \in Cell : x # f => k.pos[x] = l.pos[x]
  BY <1>1, <1>2
<1>5. /\ k.rank \in [Cell -> Nat] /\ k.rank[f] = l.rank[l.own[c]] + 1 /\ \A x \in Cell : x # f => k.rank[x] = l.rank[x]
  BY <1>1, <1>2
<1>6. /\ k.in \in [Cell -> Cell] /\ k.in[f] = c /\ \A x \in Cell : x # f => k.in[x] = l.in[x]
  BY <1>1, <1>2
<1>7. /\ k.num \in [Cell -> Nat] /\ k.num[f] = i /\ \A x \in Cell : x # f => k.num[x] = l.num[x]
  BY <1>1, <1>2
<1>8. k.dirs \in SUBSET Cell
  BY <1>1, <1>2
<1>9. k \in Layouts
  BY <1>2, <1>3, <1>4, <1>5, <1>6, <1>7, <1>8 DEF Layouts
<1> QED BY <1>2, <1>3, <1>4, <1>5, <1>6, <1>7, <1>9 DEF k

(* Slots of a new directory. *)
LEMMA DotSlotsAre ==
  ASSUME NEW f \in Clusters, NEW d \in Cell
  PROVE  /\ DotSlots(f, d) \in [1 .. SlotsPerSector -> Slot]
         /\ DotSlots(f, d)[1] = Entry32("dot", ".", f) /\ DotSlots(f, d)[2] = Entry32("dot", "..", d)
         /\ \A i \in 1 .. SlotsPerSector :
               /\ ~IsEntry(DotSlots(f, d)[i])
               /\ i > 2 => DotSlots(f, d)[i].is = "unused"
               /\ i \in {1, 2} => DotSlots(f, d)[i].is = "dot"
<1>1. Zeroed \in [1 .. SlotsPerSector -> {UNUSED}]
  BY DEF Zeroed
<1>2. 1 \in 1 .. SlotsPerSector /\ 2 \in 1 .. SlotsPerSector
  BY Constants
<1>3. /\ UNUSED \in Slot /\ UNUSED.is = "unused"
      /\ Entry32("dot", ".", f) \in Slot /\ Entry32("dot", ".", f).is = "dot"
      /\ Entry32("dot", "..", d) \in Slot /\ Entry32("dot", "..", d).is = "dot"
  BY CellsAre DEF UNUSED, Entry32, Slot, Kind, Dots
<1> DEFINE a == Entry32("dot", ".", f)
           b == Entry32("dot", "..", d)
<1>4. DotSlots(f, d) = [Zeroed EXCEPT ![1] = a, ![2] = b]
  BY DEF DotSlots
<1> HIDE DEF a, b
<1>5. /\ DotSlots(f, d) \in [1 .. SlotsPerSector -> {UNUSED, a, b}]
      /\ DotSlots(f, d)[1] = a /\ DotSlots(f, d)[2] = b
      /\ \A i \in 1 .. SlotsPerSector : i > 2 => DotSlots(f, d)[i] = UNUSED
  BY <1>1, <1>2, <1>4
<1>6. \A i \in 1 .. SlotsPerSector : DotSlots(f, d)[i] \in {UNUSED, a, b}
  BY <1>5
<1>7. ~IsEntry(UNUSED) /\ ~IsEntry(a) /\ ~IsEntry(b)
  BY <1>3 DEF IsEntry, a, b
<1> QED BY <1>3, <1>5, <1>6, <1>7 DEF a, b

(* An empty file's entry gets a first cluster, and may be a directory's. *)
Filled(T, U, F, G, l, c, i, n, f, kind) ==
    /\ Good(T, F, l) /\ c \in DirCells(l) /\ i \in 1 .. Width(c)
    /\ n \in Names /\ T[c][i] = Entry32("file", n, FREE)
    /\ f \in Clusters /\ l.own[f] = Nobody /\ G[f] = EOC
    /\ \A x \in Clusters : l.own[x] # Nobody => G[x] = F[x]
    /\ kind \in {"file", "dir"} /\ PutAt(T, U, l, c, i, Entry32(kind, n, f))
    /\ kind = "dir" => U[f] = DotSlots(f, l.own[c])

(* An entry written with the new cluster it names leaves a good tree. *)
LEMMA Fill ==
  ASSUME NEW T, NEW U, NEW F, NEW G, NEW l, NEW c, NEW i, NEW n, NEW f, NEW kind,
         Filled(T, U, F, G, l, c, i, n, f, kind)
  PROVE  /\ Good(U, G, Founded(l, f, c, i, kind))
         /\ DirCells(Founded(l, f, c, i, kind)) = IF kind = "dir" THEN DirCells(l) \cup {f} ELSE DirCells(l)
<1>h. /\ Good(T, F, l) /\ c \in DirCells(l) /\ i \in 1 .. Width(c)
      /\ n \in Names /\ T[c][i] = Entry32("file", n, FREE)
      /\ f \in Clusters /\ l.own[f] = Nobody /\ G[f] = EOC
      /\ \A x \in Clusters : l.own[x] # Nobody => G[x] = F[x]
      /\ kind \in {"file", "dir"} /\ PutAt(T, U, l, c, i, Entry32(kind, n, f))
      /\ kind = "dir" => U[f] = DotSlots(f, l.own[c])
  BY DEF Filled
<1> DEFINE k == Founded(l, f, c, i, kind)
           s == Entry32(kind, n, f)
<1>0. /\ l \in Layouts /\ c \in Cell /\ l.own[c] \in Cell /\ l.own[c] \in l.dirs /\ l.own[c] # Nobody /\ i \in Nat
      /\ \A d \in l.dirs : d \in DirCells(l) /\ l.own[d] = d
      /\ \A b \in DirCells(l) : b \in Cell /\ l.own[b] \in l.dirs /\ l.own[b] \in Cell /\ l.own[b] # Nobody
      /\ ROOT_CLUSTER \in DirCells(l) /\ ROOT_CLUSTER \in l.dirs
      /\ f \in Cell /\ Nobody \notin Cell /\ f # ROOT_CLUSTER
  BY <1>h, GoodHas, CellsAre
<1>f. f \in Clusters /\ l.own[f] = Nobody
  BY <1>h
<1>1. /\ k \in Layouts
      /\ k.own[f] = f /\ k.pos[f] = 0 /\ k.rank[f] = l.rank[l.own[c]] + 1 /\ k.in[f] = c /\ k.num[f] = i
      /\ k.dirs = (IF kind = "dir" THEN l.dirs \cup {f} ELSE l.dirs)
      /\ \A x \in Cell : x # f => /\ k.own[x] = l.own[x] /\ k.pos[x] = l.pos[x] /\ k.rank[x] = l.rank[x]
                                  /\ k.in[x] = l.in[x] /\ k.num[x] = l.num[x]
  BY <1>0, <1>f, FoundedIs
<1>h1. Good(T, F, l)
  BY <1>h
<1>h2. c \in DirCells(l)
  BY <1>h
<1>h3. i \in 1 .. Width(c)
  BY <1>h
<1>h4. n \in Names
  BY <1>h
<1>h5. T[c][i] = Entry32("file", n, FREE)
  BY <1>h
<1>h6. f \in Clusters
  BY <1>h
<1>h7. l.own[f] = Nobody
  BY <1>h
<1>h8. G[f] = EOC
  BY <1>h
<1>h9. \A x \in Clusters : l.own[x] # Nobody => G[x] = F[x]
  BY <1>h
<1>h10. kind \in {"file", "dir"}
  BY <1>h
<1>h11. PutAt(T, U, l, c, i, Entry32(kind, n, f))
  BY <1>h
<1>h12. kind = "dir" => U[f] = DotSlots(f, l.own[c])
  BY <1>h
<1> USE <1>h1, <1>h2, <1>h3, <1>h4, <1>h5, <1>h6, <1>h7, <1>h8, <1>h9, <1>h10, <1>h11, <1>h12
<1>2. s \in Slot /\ s.is = kind /\ s.name = n /\ s.first = f /\ IsEntry(s)
  BY CellsAre DEF Slot, Entry32, IsEntry, Kind
<1>3. T[c][i].is = "file" /\ T[c][i].name = n /\ T[c][i].first = FREE /\ IsEntry(T[c][i])
  BY DEF Entry32, IsEntry
<1> HIDE DEF k, s
<1>4. f \notin l.dirs /\ f \notin DirCells(l) /\ \A b \in DirCells(l) : b # f /\ l.own[b] # f
  <2>1. f \notin l.dirs
    BY <1>0
  <2>2. f \notin DirCells(l)
    BY <1>0
  <2> QED BY <1>0, <2>1, <2>2
<1>5. DirCells(k) = IF kind = "dir" THEN DirCells(l) \cup {f} ELSE DirCells(l)
  <2>1. \A x \in Cell : x # f => (x \in DirCells(k) <=> x \in DirCells(l))
    <3> SUFFICES ASSUME NEW x \in Cell, x # f PROVE k.own[x] \in k.dirs <=> l.own[x] \in l.dirs
      BY DEF DirCells
    <3>1. l.own[x] # f
      <4>1. CASE x = ROOT_CLUSTER
        BY <1>0, <4>1
      <4>2. CASE x \in Clusters
        <5>1. l.own[x] # Nobody => l.own[l.own[x]] = l.own[x]
          BY <4>2 DEF Good, GoodChains
        <5> QED BY <1>0, <5>1
      <4> QED BY <4>1, <4>2, CellsAre
    <3> QED BY <1>1, <3>1
  <2>2. f \in DirCells(k) <=> kind = "dir"
    BY <1>0, <1>1, <1>4 DEF DirCells
  <2>3. \A x : x \in DirCells(k) \/ x \in DirCells(l) => x \in Cell
    BY DEF DirCells
  <2> QED BY <1>4, <2>1, <2>2, <2>3, <1>0
<1>6. /\ \A b \in DirCells(l) : U[b] \in [1 .. Width(b) -> Slot]
      /\ \A b \in DirCells(l) : \A j \in 1 .. Width(b) :
               U[b][j] = IF b = c /\ j = i THEN s ELSE T[b][j]
  BY <1>2, PutAtIs DEF s
<1>7. kind = "dir" => /\ U[f] = DotSlots(f, l.own[c]) /\ U[f] \in [1 .. Width(f) -> Slot]
                      /\ U[f][1] = Entry32("dot", ".", f) /\ U[f][2] = Entry32("dot", "..", l.own[c])
                      /\ \A j \in 1 .. Width(f) : ~IsEntry(U[f][j]) /\ (j > 2 => U[f][j].is = "unused")
                                                  /\ (j \in {1, 2} => U[f][j].is = "dot")
  BY <1>0, DotSlotsAre, WidthIs
<1>8. GoodChains(G, k)
  <2>1. \A d \in k.dirs : k.own[d] = d
    BY <1>0, <1>1, <1>4
  <2>2. ASSUME NEW x \in Clusters, k.own[x] # Nobody
        PROVE  /\ G[x] # FREE /\ k.own[x] # ROOT_CLUSTER /\ k.own[k.own[x]] = k.own[x]
               /\ k.own[x] = x <=> k.pos[x] = 0
               /\ G[x] = EOC \/ (G[x] \in Clusters /\ k.own[G[x]] = k.own[x] /\ k.pos[G[x]] = k.pos[x] + 1)
               /\ k.pos[x] # 0 => \E b \in Clusters : k.own[b] = k.own[x] /\ G[b] = x /\ k.pos[b] + 1 = k.pos[x]
               /\ k.own[x] \notin k.dirs => k.own[x] = x /\ G[x] = EOC
    <3>1. CASE x = f
      BY <1>0, <1>1, <3>1, ClustersAre
    <3>2. CASE x # f
      <4>1. x \in Cell /\ k.own[x] = l.own[x] /\ k.pos[x] = l.pos[x] /\ l.own[x] # Nobody /\ G[x] = F[x]
        BY <1>1, <2>2, <3>2, CellsAre
      <4>2. /\ F[x] # FREE /\ l.own[x] # ROOT_CLUSTER /\ l.own[l.own[x]] = l.own[x]
            /\ l.own[x] = x <=> l.pos[x] = 0
            /\ F[x] = EOC \/ (F[x] \in Clusters /\ l.own[F[x]] = l.own[x] /\ l.pos[F[x]] = l.pos[x] + 1)
            /\ l.pos[x] # 0 => \E b \in Clusters : l.own[b] = l.own[x] /\ F[b] = x /\ l.pos[b] + 1 = l.pos[x]
            /\ l.own[x] \notin l.dirs => l.own[x] = x /\ F[x] = EOC
        BY <4>1 DEF Good, GoodChains
      <4>3. l.own[x] # f /\ l.own[x] \in Cell
        BY <1>0, <4>1, <4>2, LayoutHas
      <4>4. k.own[k.own[x]] = k.own[x]
        BY <1>1, <4>1, <4>2, <4>3
      <4>5. G[x] = EOC \/ (G[x] \in Clusters /\ k.own[G[x]] = k.own[x] /\ k.pos[G[x]] = k.pos[x] + 1)
        BY <1>1, <4>1, <4>2, CellsAre
      <4>6. ASSUME k.pos[x] # 0
            PROVE  \E b \in Clusters : k.own[b] = k.own[x] /\ G[b] = x /\ k.pos[b] + 1 = k.pos[x]
        <5>1. PICK b \in Clusters : l.own[b] = l.own[x] /\ F[b] = x /\ l.pos[b] + 1 = l.pos[x]
          BY <4>1, <4>2, <4>6
        <5>2. b # f /\ b \in Cell /\ G[b] = F[b]
          BY <4>1, <5>1, CellsAre
        <5> QED BY <1>1, <4>1, <5>1, <5>2
      <4>7. k.own[x] \notin k.dirs => k.own[x] = x /\ G[x] = EOC
        BY <1>1, <4>1, <4>2
      <4> QED BY <4>1, <4>2, <4>4, <4>5, <4>6, <4>7
    <3> QED BY <3>1, <3>2
  <2>3. ASSUME NEW a \in Clusters, NEW b \in Clusters, k.own[a] = k.own[b], k.own[a] # Nobody,
               k.pos[a] = k.pos[b]
        PROVE  a = b
    <3>1. \A x \in Clusters : x # f => k.own[x] = l.own[x] /\ k.pos[x] = l.pos[x] /\ l.own[x] # f
      <4> SUFFICES ASSUME NEW x \in Clusters, x # f PROVE l.own[x] # f
        BY <1>1, CellsAre
      <4>1. l.own[x] # Nobody => l.own[l.own[x]] = l.own[x]
        BY DEF Good, GoodChains
      <4> QED BY <1>0, <4>1
    <3>2. \A x, y \in Clusters : l.own[x] = l.own[y] /\ l.own[x] # Nobody /\ l.pos[x] = l.pos[y] => x = y
      BY DEF Good, GoodChains
    <3> QED BY <1>1, <2>3, <3>1, <3>2
  <2>4. k.own[ROOT_CLUSTER] = ROOT_CLUSTER /\ k.pos[ROOT_CLUSTER] = 0 /\ k.rank[ROOT_CLUSTER] = 0
        /\ ROOT_CLUSTER \in k.dirs
    BY <1>0, <1>1, CellsAre DEF Good, GoodChains
  <2> QED BY <1>1, <2>1, <2>2, <2>3, <2>4 DEF GoodChains
<1>9. GoodSlots(U, k)
  <2>1. \A b \in DirCells(k) : U[b] \in [1 .. Width(b) -> Slot]
    BY <1>5, <1>6, <1>7
  <2>2. ASSUME NEW d \in k.dirs \ {ROOT_CLUSTER}
        PROVE  U[d][1] = Entry32("dot", ".", d) /\ U[d][2] = Entry32("dot", "..", k.own[k.in[d]])
    <3>1. CASE d = f
      <4>1. kind = "dir" /\ k.own[k.in[d]] = l.own[c]
        BY <1>0, <1>1, <1>4, <3>1
      <4> QED BY <1>7, <3>1, <4>1
    <3>2. CASE d # f
      <4>1. d \in l.dirs \ {ROOT_CLUSTER} /\ d \in DirCells(l) /\ d \in Cell /\ d \in Clusters /\ l.own[d] = d
        BY <1>0, <1>1, <3>2, CellsAre
      <4>2. T[d][1] = Entry32("dot", ".", d) /\ T[d][2] = Entry32("dot", "..", l.own[l.in[d]])
        BY <4>1 DEF Good, GoodSlots
      <4>3. l.in[d] \in DirCells(l)
        BY <4>1, FirstsHave
      <4>4. k.own[k.in[d]] = l.own[l.in[d]]
        BY <1>0, <1>1, <1>4, <3>2, <4>1, <4>3
      <4>5. 1 \in 1 .. Width(d) /\ 2 \in 1 .. Width(d) /\ T[d][1].is = "dot" /\ T[d][2].is = "dot"
        BY <4>1, <4>2, WidthIs, Constants DEF Entry32
      <4> QED BY <1>3, <1>6, <4>1, <4>2, <4>4, <4>5
    <3> QED BY <3>1, <3>2
  <2> QED BY <2>1, <2>2 DEF GoodSlots
<1>10. GoodEntries(U, k)
  <2>1. ASSUME NEW b \in DirCells(k), NEW j \in 1 .. Width(b), IsEntry(U[b][j])
        PROVE  LET g == U[b][j].first IN
          /\ U[b][j].is = "dir" => g \in k.dirs \ {ROOT_CLUSTER} /\ k.rank[g] = k.rank[k.own[b]] + 1
          /\ U[b][j].is = "file" => g \notin k.dirs \ {ROOT_CLUSTER}
          /\ g # FREE => k.own[g] = g /\ k.in[g] = b /\ k.num[g] = j
    <3>1. b \in DirCells(l)
      BY <1>5, <1>7, <2>1
    <3>2. CASE b = c /\ j = i
      <4>1. U[b][j] = s
        BY <1>6, <3>1, <3>2
      <4>2. k.rank[k.own[b]] = l.rank[l.own[c]]
        BY <1>0, <1>1, <1>4, <3>2
      <4> QED BY <1>0, <1>1, <1>2, <1>4, <3>2, <4>1, <4>2
    <3>3. CASE ~(b = c /\ j = i)
      <4>1. U[b][j] = T[b][j]
        BY <1>6, <3>1, <3>3
      <4> DEFINE g == T[b][j].first
      <4>2. /\ T[b][j].is = "dir" => g \in l.dirs \ {ROOT_CLUSTER} /\ l.rank[g] = l.rank[l.own[b]] + 1
            /\ T[b][j].is = "file" => g \notin l.dirs \ {ROOT_CLUSTER}
            /\ g # FREE => l.own[g] = g /\ l.in[g] = b /\ l.num[g] = j
        BY <2>1, <3>1, <4>1, EntriesHave
      <4>3. g \in Cell
        BY <3>1, GoodHas, SlotHas
      <4>4. g # f
        BY <1>0, <4>2, CellsAre
      <4>5. k.rank[g] = l.rank[g] /\ k.own[g] = l.own[g] /\ k.in[g] = l.in[g] /\ k.num[g] = l.num[g]
        BY <1>1, <4>3, <4>4
      <4>6. k.own[b] = l.own[b] /\ k.rank[l.own[b]] = l.rank[l.own[b]]
        BY <1>0, <1>1, <1>4, <3>1
      <4>7. g \in k.dirs <=> g \in l.dirs
        BY <1>1, <4>4
      <4> HIDE DEF g
      <4>8. U[b][j].first = g
        BY <4>1 DEF g
      <4> QED BY <4>1, <4>2, <4>5, <4>6, <4>7, <4>8
    <3> QED BY <3>2, <3>3
  <2>2. ASSUME NEW g \in Clusters, k.own[g] = g
        PROVE  /\ k.in[g] \in DirCells(k) /\ k.num[g] \in 1 .. Width(k.in[g])
               /\ U[k.in[g]][k.num[g]].first = g
               /\ U[k.in[g]][k.num[g]].is = IF g \in k.dirs THEN "dir" ELSE "file"
    <3>1. CASE g = f
      <4>1. U[c][i] = s /\ k.in[g] = c /\ k.num[g] = i /\ c \in DirCells(k)
        BY <1>1, <1>5, <1>6, <3>1
      <4>2. f \in k.dirs <=> kind = "dir"
        BY <1>1, <1>4
      <4> QED BY <1>2, <3>1, <4>1, <4>2
    <3>2. CASE g # f
      <4>1. g \in Cell /\ l.own[g] = g /\ k.in[g] = l.in[g] /\ k.num[g] = l.num[g]
        BY <1>1, <2>2, <3>2, CellsAre
      <4> DEFINE b == l.in[g]
                 j == l.num[g]
      <4>2. /\ b \in DirCells(l) /\ j \in 1 .. Width(b) /\ T[b][j].first = g
            /\ T[b][j].is = IF g \in l.dirs THEN "dir" ELSE "file"
        BY <4>1, FirstsHave
      <4>3. U[b][j] = T[b][j]
        BY <1>3, <1>6, <4>2, ClustersAre
      <4>4. g \in k.dirs <=> g \in l.dirs
        BY <1>1, <3>2
      <4> QED BY <1>5, <4>1, <4>2, <4>3, <4>4
    <3> QED BY <3>1, <3>2
  <2> QED BY <2>1, <2>2 DEF GoodEntries
<1>11. GoodNames(U, k)
  <2> SUFFICES ASSUME NEW a \in DirCells(k), NEW b \in DirCells(k), k.own[a] = k.own[b],
                      NEW j \in 1 .. Width(a), NEW h \in 1 .. Width(b)
               PROVE  /\ IsEntry(U[a][j]) /\ IsEntry(U[b][h]) /\ U[a][j].name = U[b][h].name => a = b /\ j = h
                      /\ Index(k, a, j) < Index(k, b, h) /\ U[a][j].is = "unused" => U[b][h].is = "unused"
    BY DEF GoodNames
  <2>1. a = f <=> b = f
    <3>1. \A x \in DirCells(k) : x # f => k.own[x] # f
      BY <1>0, <1>1, <1>4, <1>5
    <3> QED BY <1>1, <3>1
  <2>2. CASE a = f
    <3>1. kind = "dir" /\ b = f
      BY <1>4, <1>5, <2>1, <2>2
    <3>2. Index(k, a, j) = j /\ Index(k, b, h) = h
      BY <1>1, <2>2, <3>1, Constants DEF Index
    <3>3. U[a][j].is = "unused" => j > 2
      <4>1. j \in {1, 2} \/ j > 2
        OBVIOUS
      <4> QED BY <1>7, <2>2, <3>1, <4>1
    <3>4. j < h /\ j > 2 => U[b][h].is = "unused"
      BY <1>7, <3>1
    <3> QED BY <1>7, <2>2, <3>1, <3>2, <3>3, <3>4
  <2>3. CASE a # f
    <3>1. a \in DirCells(l) /\ b \in DirCells(l) /\ b # f /\ a \in Cell /\ b \in Cell
      BY <1>0, <1>5, <2>1, <2>3
    <3>2. l.own[a] = l.own[b] /\ Index(k, a, j) = Index(l, a, j) /\ Index(k, b, h) = Index(l, b, h)
      BY <1>1, <2>3, <3>1 DEF Index
    <3>3. /\ IsEntry(T[a][j]) /\ IsEntry(T[b][h]) /\ T[a][j].name = T[b][h].name => a = b /\ j = h
          /\ Index(l, a, j) < Index(l, b, h) /\ T[a][j].is = "unused" => T[b][h].is = "unused"
      BY <3>1, <3>2, NamesHas
    <3>4. \A x \in DirCells(l) : \A y \in 1 .. Width(x) :
             /\ IsEntry(U[x][y]) <=> IsEntry(T[x][y])
             /\ U[x][y].name = T[x][y].name /\ (U[x][y].is = "unused" <=> T[x][y].is = "unused")
      BY <1>2, <1>3, <1>6
    <3> QED BY <3>1, <3>2, <3>3, <3>4
  <2> QED BY <2>2, <2>3
<1> QED BY <1>5, <1>8, <1>9, <1>10, <1>11 DEF Good, k

(* Directory d has no entries. *)
NoneIn(T, l, d) ==
    \A b \in DirCells(l) : l.own[b] = d => \A j \in 1 .. Width(b) : ~IsEntry(T[b][j])

(* A layout without first cluster x and the chain it begins. *)
Gone(l, x) ==
    [own |-> [y \in Cell |-> IF l.own[y] = x /\ x # ROOT_CLUSTER THEN Nobody ELSE l.own[y]], pos |-> l.pos,
     dirs |-> l.dirs \ ({x} \ {ROOT_CLUSTER}), rank |-> l.rank, in |-> l.in, num |-> l.num]

(* The layout without one chain. *)
LEMMA GoneIs ==
  ASSUME NEW l \in Layouts, NEW x \in Cell
  PROVE  LET k == Gone(l, x) IN
         /\ k \in Layouts
         /\ k.pos = l.pos /\ k.rank = l.rank /\ k.in = l.in /\ k.num = l.num
         /\ \A y \in Cell : k.own[y] = IF l.own[y] = x /\ x # ROOT_CLUSTER THEN Nobody ELSE l.own[y]
         /\ \A d \in Cell : d \in k.dirs <=> d \in l.dirs /\ (d = x => x = ROOT_CLUSTER)
         /\ k.dirs \subseteq l.dirs
<1> DEFINE k == Gone(l, x)
<1>1. /\ l.own \in [Cell -> Cell \cup {Nobody}] /\ l.pos \in [Cell -> Nat]
      /\ l.dirs \in SUBSET Cell /\ l.rank \in [Cell -> Nat]
      /\ l.in \in [Cell -> Cell] /\ l.num \in [Cell -> Nat]
  BY LayoutHas
<1>2. /\ k.own = [y \in Cell |-> IF l.own[y] = x /\ x # ROOT_CLUSTER THEN Nobody ELSE l.own[y]]
      /\ k.dirs = l.dirs \ ({x} \ {ROOT_CLUSTER})
      /\ k.pos = l.pos /\ k.rank = l.rank /\ k.in = l.in /\ k.num = l.num
      /\ k = [own |-> k.own, pos |-> k.pos, dirs |-> k.dirs, rank |-> k.rank, in |-> k.in, num |-> k.num]
  BY DEF Gone
<1> HIDE DEF k
<1>3. k.own \in [Cell -> Cell \cup {Nobody}]
      /\ \A y \in Cell : k.own[y] = IF l.own[y] = x /\ x # ROOT_CLUSTER THEN Nobody ELSE l.own[y]
  BY <1>1, <1>2
<1>4. k.dirs \in SUBSET Cell
  BY <1>1, <1>2
<1>5. k \in Layouts
  BY <1>1, <1>2, <1>3, <1>4 DEF Layouts
<1>6. /\ \A d \in Cell : d \in k.dirs <=> d \in l.dirs /\ (d = x => x = ROOT_CLUSTER)
      /\ k.dirs \subseteq l.dirs
  BY <1>2
<1>7. k.pos = l.pos /\ k.rank = l.rank /\ k.in = l.in /\ k.num = l.num
  BY <1>2
<1> QED BY <1>3, <1>5, <1>6, <1>7, Zenon DEF k

(* An entry goes, with the clusters it has; a directory's has no entries. *)
LEMMA Remove ==
  ASSUME NEW T, NEW U, NEW F, NEW G, NEW l, Good(T, F, l), NEW c \in DirCells(l), NEW i \in 1 .. Width(c),
         IsEntry(T[c][i]), NEW x, x = T[c][i].first,
         T[c][i].is = "dir" => NoneIn(T, l, x),
         \A y \in Clusters : Gone(l, x).own[y] # Nobody => G[y] = F[y],
         PutAt(T, U, l, c, i, DELETED)
  PROVE  /\ Good(U, G, Gone(l, x))
         /\ \A b \in DirCells(l) : b \in DirCells(Gone(l, x)) <=> (l.own[b] = x => x = ROOT_CLUSTER)
         /\ DirCells(Gone(l, x)) \subseteq DirCells(l)
<1> DEFINE k == Gone(l, x)
<1>0. /\ l \in Layouts /\ c \in Cell /\ l.own[c] \in Cell /\ l.own[c] \in l.dirs /\ l.own[c] # Nobody
      /\ \A d \in l.dirs : d \in DirCells(l) /\ l.own[d] = d /\ d \in Cell
      /\ \A b \in DirCells(l) : b \in Cell /\ l.own[b] \in l.dirs /\ l.own[b] \in Cell /\ l.own[b] # Nobody
      /\ ROOT_CLUSTER \in DirCells(l) /\ ROOT_CLUSTER \in l.dirs /\ ROOT_CLUSTER \in Cell
      /\ Nobody \notin Cell /\ T[c][i] \in Slot /\ x \in Cell
  <2>1. T[c][i] \in Slot /\ x \in Cell
    BY GoodHas, SlotHas
  <2> QED BY <2>1, GoodHas, CellsAre
<1>1. /\ k \in Layouts
      /\ k.pos = l.pos /\ k.rank = l.rank /\ k.in = l.in /\ k.num = l.num
      /\ \A y \in Cell : k.own[y] = IF l.own[y] = x /\ x # ROOT_CLUSTER THEN Nobody ELSE l.own[y]
      /\ \A d \in Cell : d \in k.dirs <=> d \in l.dirs /\ (d = x => x = ROOT_CLUSTER)
      /\ k.dirs \subseteq l.dirs
  <2>1. l \in Layouts /\ x \in Cell
    BY <1>0
  <2> HIDE DEF k
  <2>2. k = Gone(l, x)
    BY DEF k
  <2> QED BY <2>1, <2>2, GoneIs
<1>2. DELETED \in Slot /\ DELETED.is = "deleted" /\ ~IsEntry(DELETED)
  BY CellsAre DEF DELETED, Slot, Entry32, IsEntry, Kind, Dots
<1>3. /\ T[c][i].is = "dir" => x \in l.dirs \ {ROOT_CLUSTER} /\ l.rank[x] = l.rank[l.own[c]] + 1
      /\ T[c][i].is = "file" => x \notin l.dirs \ {ROOT_CLUSTER}
      /\ x # FREE => l.own[x] = x /\ l.in[x] = c /\ l.num[x] = i
      /\ T[c][i].is \in {"dir", "file"}
  BY EntriesHave DEF IsEntry
<1> HIDE DEF k
<1>4. \A b \in DirCells(l) : b \in DirCells(k) <=> (l.own[b] = x => x = ROOT_CLUSTER)
  <2> SUFFICES ASSUME NEW b \in DirCells(l) PROVE k.own[b] \in k.dirs <=> (l.own[b] = x => x = ROOT_CLUSTER)
    BY <1>0 DEF DirCells
  <2>1. k.own[b] = IF l.own[b] = x /\ x # ROOT_CLUSTER THEN Nobody ELSE l.own[b]
    BY <1>0, <1>1
  <2>2. Nobody \notin k.dirs
    BY <1>0, <1>1
  <2>3. l.own[b] \in k.dirs <=> (l.own[b] = x => x = ROOT_CLUSTER)
    BY <1>0, <1>1
  <2> QED BY <2>1, <2>2, <2>3
<1>5. DirCells(k) \subseteq DirCells(l)
  <2> SUFFICES ASSUME NEW b \in DirCells(k) PROVE l.own[b] \in l.dirs /\ b \in Cell
    BY DEF DirCells
  <2>1. b \in Cell /\ k.own[b] \in k.dirs
    BY DEF DirCells
  <2>2. k.own[b] = l.own[b]
    BY <1>0, <1>1, <2>1
  <2> QED BY <1>1, <2>1, <2>2
<1>6. l.own[c] # x \/ x = ROOT_CLUSTER
  <2>1. CASE T[c][i].is = "dir"
    <3>1. l.rank[l.own[c]] \in Nat
      BY <1>0, LayoutHas
    <3> QED BY <1>3, <2>1, <3>1
  <2>2. CASE T[c][i].is = "file"
    BY <1>0, <1>3, <2>2
  <2> QED BY <1>3, <2>1, <2>2
<1>7. /\ \A b \in DirCells(l) : U[b] \in [1 .. Width(b) -> Slot]
      /\ \A b \in DirCells(l) : \A j \in 1 .. Width(b) :
               U[b][j] = IF b = c /\ j = i THEN DELETED ELSE T[b][j]
  BY <1>2, PutAtIs
<1>8. \A f \in Clusters : l.own[f] = f /\ f # x => l.in[f] \in DirCells(k)
  <2> SUFFICES ASSUME NEW f \in Clusters, l.own[f] = f, f # x PROVE l.in[f] \in DirCells(k)
    OBVIOUS
  <2>1. l.in[f] \in DirCells(l) /\ l.num[f] \in 1 .. Width(l.in[f]) /\ IsEntry(T[l.in[f]][l.num[f]])
    BY FirstsHave
  <2>2. l.own[l.in[f]] = x => x = ROOT_CLUSTER
    <3>1. CASE T[c][i].is = "dir"
      BY <2>1, <3>1 DEF NoneIn
    <3>2. CASE T[c][i].is = "file"
      BY <1>0, <1>3, <2>1, <3>2
    <3> QED BY <1>3, <3>1, <3>2
  <2> QED BY <1>4, <2>1, <2>2
<1>9. GoodChains(G, k)
  <2>1. \A d \in k.dirs : k.own[d] = d
    BY <1>0, <1>1
  <2>2. ASSUME NEW y \in Clusters, k.own[y] # Nobody
        PROVE  /\ G[y] # FREE /\ k.own[y] # ROOT_CLUSTER /\ k.own[k.own[y]] = k.own[y]
               /\ k.own[y] = y <=> k.pos[y] = 0
               /\ G[y] = EOC \/ (G[y] \in Clusters /\ k.own[G[y]] = k.own[y] /\ k.pos[G[y]] = k.pos[y] + 1)
               /\ k.pos[y] # 0 => \E b \in Clusters : k.own[b] = k.own[y] /\ G[b] = y /\ k.pos[b] + 1 = k.pos[y]
               /\ k.own[y] \notin k.dirs => k.own[y] = y /\ G[y] = EOC
    <3>1. y \in Cell /\ k.own[y] = l.own[y] /\ l.own[y] # Nobody /\ G[y] = F[y] /\ (l.own[y] # x \/ x = ROOT_CLUSTER)
      BY <1>1, <2>2, CellsAre DEF k
    <3>2. /\ F[y] # FREE /\ l.own[y] # ROOT_CLUSTER /\ l.own[l.own[y]] = l.own[y]
          /\ l.own[y] = y <=> l.pos[y] = 0
          /\ F[y] = EOC \/ (F[y] \in Clusters /\ l.own[F[y]] = l.own[y] /\ l.pos[F[y]] = l.pos[y] + 1)
          /\ l.pos[y] # 0 => \E b \in Clusters : l.own[b] = l.own[y] /\ F[b] = y /\ l.pos[b] + 1 = l.pos[y]
          /\ l.own[y] \notin l.dirs => l.own[y] = y /\ F[y] = EOC
      BY <3>1 DEF Good, GoodChains
    <3>3. \A b \in Clusters : l.own[b] = l.own[y] => k.own[b] = k.own[y] /\ G[b] = F[b]
      <4> SUFFICES ASSUME NEW b \in Clusters, l.own[b] = l.own[y] PROVE k.own[b] = k.own[y] /\ G[b] = F[b]
        OBVIOUS
      <4>1. k.own[b] = l.own[b]
        BY <1>1, <3>1, CellsAre
      <4> QED BY <3>1, <4>1 DEF k
    <3>4. l.own[y] \in Cell /\ k.own[l.own[y]] = l.own[y]
      BY <1>0, <1>1, <3>1, <3>2, LayoutHas
    <3>5. l.own[y] \in k.dirs <=> l.own[y] \in l.dirs
      BY <1>1, <3>1, <3>4
    <3>6. k.pos[y] # 0 => \E b \in Clusters : k.own[b] = k.own[y] /\ G[b] = y /\ k.pos[b] + 1 = k.pos[y]
      <4> SUFFICES ASSUME k.pos[y] # 0
                   PROVE  \E b \in Clusters : k.own[b] = k.own[y] /\ G[b] = y /\ k.pos[b] + 1 = k.pos[y]
        OBVIOUS
      <4>1. PICK b \in Clusters : l.own[b] = l.own[y] /\ F[b] = y /\ l.pos[b] + 1 = l.pos[y]
        BY <1>1, <3>2
      <4> QED BY <1>1, <3>3, <4>1
    <3> QED BY <1>1, <3>1, <3>2, <3>3, <3>4, <3>5, <3>6
  <2>3. \A a, b \in Clusters : k.own[a] = k.own[b] /\ k.own[a] # Nobody /\ k.pos[a] = k.pos[b] => a = b
    <3>1. \A a, b \in Clusters : l.own[a] = l.own[b] /\ l.own[a] # Nobody /\ l.pos[a] = l.pos[b] => a = b
      BY DEF Good, GoodChains
    <3>2. \A a \in Clusters : k.own[a] # Nobody => k.own[a] = l.own[a]
      BY <1>1, CellsAre
    <3> QED BY <1>1, <3>1, <3>2
  <2>4. k.own[ROOT_CLUSTER] = ROOT_CLUSTER /\ k.pos[ROOT_CLUSTER] = 0 /\ k.rank[ROOT_CLUSTER] = 0
        /\ ROOT_CLUSTER \in k.dirs
    BY <1>0, <1>1 DEF Good, GoodChains
  <2> QED BY <1>1, <2>1, <2>2, <2>3, <2>4 DEF GoodChains
<1>10. GoodSlots(U, k)
  <2>1. \A b \in DirCells(k) : U[b] \in [1 .. Width(b) -> Slot]
    BY <1>5, <1>7
  <2>2. ASSUME NEW d \in k.dirs \ {ROOT_CLUSTER}
        PROVE  U[d][1] = Entry32("dot", ".", d) /\ U[d][2] = Entry32("dot", "..", k.own[k.in[d]])
    <3>1. d \in l.dirs \ {ROOT_CLUSTER} /\ d # x /\ d \in Clusters /\ l.own[d] = d /\ d \in DirCells(l)
      BY <1>0, <1>1, CellsAre
    <3>2. T[d][1] = Entry32("dot", ".", d) /\ T[d][2] = Entry32("dot", "..", l.own[l.in[d]])
      BY <3>1 DEF Good, GoodSlots
    <3>3. l.in[d] \in DirCells(k) /\ l.in[d] \in Cell
      BY <1>0, <1>5, <1>8, <3>1
    <3>4. k.own[k.in[d]] = l.own[l.in[d]]
      BY <1>0, <1>1, <1>4, <1>5, <3>3
    <3>5. 1 \in 1 .. Width(d) /\ 2 \in 1 .. Width(d) /\ ~IsEntry(T[d][1]) /\ ~IsEntry(T[d][2])
      BY <1>0, <3>1, <3>2, WidthIs, Constants DEF Entry32, IsEntry
    <3> QED BY <1>7, <3>1, <3>2, <3>4, <3>5
  <2> QED BY <2>1, <2>2 DEF GoodSlots
<1>11. GoodEntries(U, k)
  <2>1. ASSUME NEW b \in DirCells(k), NEW j \in 1 .. Width(b), IsEntry(U[b][j])
        PROVE  LET g == U[b][j].first IN
          /\ U[b][j].is = "dir" => g \in k.dirs \ {ROOT_CLUSTER} /\ k.rank[g] = k.rank[k.own[b]] + 1
          /\ U[b][j].is = "file" => g \notin k.dirs \ {ROOT_CLUSTER}
          /\ g # FREE => k.own[g] = g /\ k.in[g] = b /\ k.num[g] = j
    <3>1. b \in DirCells(l) /\ ~(b = c /\ j = i) /\ U[b][j] = T[b][j]
      BY <1>2, <1>5, <1>7, <2>1
    <3> DEFINE g == T[b][j].first
    <3>2. /\ T[b][j].is = "dir" => g \in l.dirs \ {ROOT_CLUSTER} /\ l.rank[g] = l.rank[l.own[b]] + 1
          /\ T[b][j].is = "file" => g \notin l.dirs \ {ROOT_CLUSTER}
          /\ g # FREE => l.own[g] = g /\ l.in[g] = b /\ l.num[g] = j
      BY <2>1, <3>1, EntriesHave
    <3>3. g \in Cell
      BY <3>1, GoodHas, SlotHas
    <3>4. g = x => x = ROOT_CLUSTER
      BY <1>3, <3>1, <3>2, CellsAre
    <3>5. k.own[b] = l.own[b]
      BY <1>0, <1>1, <1>4, <3>1, <2>1
    <3>6. g # FREE => k.own[g] = g
      BY <1>1, <3>2, <3>3, <3>4
    <3>7. g \in k.dirs <=> g \in l.dirs
      BY <1>1, <3>3, <3>4
    <3> HIDE DEF g
    <3>8. U[b][j].first = g
      BY <3>1 DEF g
    <3> QED BY <1>1, <3>1, <3>2, <3>5, <3>6, <3>7, <3>8
  <2>2. ASSUME NEW g \in Clusters, k.own[g] = g
        PROVE  /\ k.in[g] \in DirCells(k) /\ k.num[g] \in 1 .. Width(k.in[g])
               /\ U[k.in[g]][k.num[g]].first = g
               /\ U[k.in[g]][k.num[g]].is = IF g \in k.dirs THEN "dir" ELSE "file"
    <3>1. g \in Cell /\ g # ROOT_CLUSTER /\ l.own[g] = g /\ g # x
      BY <1>0, <1>1, <2>2, CellsAre
    <3> DEFINE b == l.in[g]
               j == l.num[g]
    <3>2. /\ b \in DirCells(l) /\ j \in 1 .. Width(b) /\ T[b][j].first = g
          /\ T[b][j].is = IF g \in l.dirs THEN "dir" ELSE "file"
      BY <3>1, FirstsHave
    <3>3. U[b][j] = T[b][j]
      BY <1>7, <3>1, <3>2
    <3>4. g \in k.dirs <=> g \in l.dirs
      BY <1>1, <3>1
    <3>5. b \in DirCells(k)
      BY <1>8, <3>1
    <3> QED BY <1>1, <3>2, <3>3, <3>4, <3>5
  <2> QED BY <2>1, <2>2 DEF GoodEntries
<1>12. GoodNames(U, k)
  <2> SUFFICES ASSUME NEW a \in DirCells(k), NEW b \in DirCells(k), k.own[a] = k.own[b],
                      NEW j \in 1 .. Width(a), NEW h \in 1 .. Width(b)
               PROVE  /\ IsEntry(U[a][j]) /\ IsEntry(U[b][h]) /\ U[a][j].name = U[b][h].name => a = b /\ j = h
                      /\ Index(k, a, j) < Index(k, b, h) /\ U[a][j].is = "unused" => U[b][h].is = "unused"
    BY DEF GoodNames
  <2>1. a \in DirCells(l) /\ b \in DirCells(l)
    BY <1>5
  <2>2. \A y \in DirCells(k) : k.own[y] = l.own[y]
    BY <1>0, <1>1, <1>4, <1>5
  <2>3. l.own[a] = l.own[b] /\ Index(k, a, j) = Index(l, a, j) /\ Index(k, b, h) = Index(l, b, h)
    BY <1>1, <2>2 DEF Index
  <2>4. /\ IsEntry(T[a][j]) /\ IsEntry(T[b][h]) /\ T[a][j].name = T[b][h].name => a = b /\ j = h
        /\ Index(l, a, j) < Index(l, b, h) /\ T[a][j].is = "unused" => T[b][h].is = "unused"
    BY <2>1, <2>3, NamesHas
  <2>5. \A y \in DirCells(l) : \A z \in 1 .. Width(y) :
           /\ IsEntry(U[y][z]) => IsEntry(T[y][z]) /\ U[y][z] = T[y][z]
           /\ U[y][z].is = "unused" <=> T[y][z].is = "unused"
    <3>1. T[c][i].is # "unused"
      BY <1>3
    <3> QED BY <1>2, <1>7, <3>1
  <2> QED BY <2>1, <2>3, <2>4, <2>5
<1> QED BY <1>4, <1>5, <1>9, <1>10, <1>11, <1>12 DEF Good, k

(* Places of a directory are in the order of their cells. *)
LEMMA IndexOrder ==
  ASSUME NEW p \in Nat, NEW q \in Nat, NEW i \in 1 .. SlotsPerSector, NEW j \in 1 .. SlotsPerSector
  PROVE  /\ p * SlotsPerSector + i \in Nat
         /\ p < q => p * SlotsPerSector + i < q * SlotsPerSector + j
         /\ p * SlotsPerSector + i = q * SlotsPerSector + j => p = q /\ i = j
<1> DEFINE S == SlotsPerSector
<1>1. S \in Nat /\ p * S \in Nat /\ q * S \in Nat
  BY Constants
<1>2. \A a, b \in Nat : a < b => a * S + S <= b * S
  <2> SUFFICES ASSUME NEW a \in Nat, NEW b \in Nat, a < b PROVE a * S + S <= b * S
    OBVIOUS
  <2>1. b = a + 1 + (b - a - 1) /\ b - a - 1 \in Nat
    OBVIOUS
  <2> DEFINE m == b - a - 1
  <2>2. m \in Nat /\ b = a + 1 + m
    BY <2>1
  <2> HIDE DEF m
  <2>3. b * S = a * S + S + m * S
    BY <1>1, <2>2
  <2>4. m * S \in Nat /\ a * S \in Nat
    BY <1>1, <2>2
  <2> HIDE DEF S
  <2> QED BY <1>1, <2>3, <2>4
<1>3. i \in 1 .. S /\ j \in 1 .. S
  OBVIOUS
<1>4. (p < q => p * S + S <= q * S) /\ (q < p => q * S + S <= p * S)
  BY <1>2
<1> HIDE DEF S
<1>5. p * S + i \in Nat /\ (p < q => p * S + i < q * S + j)
  BY <1>1, <1>3, <1>4
<1>6. p * S + i = q * S + j => p = q /\ i = j
  BY <1>1, <1>3, <1>4
<1> QED BY <1>5, <1>6 DEF S

(* Indices order the slots of a directory as its places do. *)
LEMMA IndexIs ==
  ASSUME NEW T, NEW F, NEW l, Good(T, F, l), NEW a \in DirCells(l), NEW b \in DirCells(l), l.own[a] = l.own[b],
         NEW i \in 1 .. Width(a), NEW j \in 1 .. Width(b)
  PROVE  /\ Index(l, a, i) \in Nat /\ Index(l, a, i) > 0
         /\ l.pos[a] < l.pos[b] => Index(l, a, i) < Index(l, b, j)
         /\ Index(l, a, i) = Index(l, b, j) => a = b /\ i = j
         /\ Index(l, a, i) < Index(l, b, j) => l.pos[a] < l.pos[b] \/ (a = b /\ i < j)
<1>1. /\ l.own[a] \in l.dirs /\ a \in CellsOf(l, l.own[a]) /\ b \in CellsOf(l, l.own[a])
      /\ l.pos[a] \in Nat /\ l.pos[b] \in Nat
  BY GoodHas, LayoutHas DEF CellsOf
<1>2. GoodChains(F, l)
  BY DEF Good
<1>3. \A x, y \in CellsOf(l, l.own[a]) : l.pos[x] = l.pos[y] => x = y
  BY <1>1, <1>2, CellsOfIs
<1>4. CASE l.own[a] = ROOT_CLUSTER
  <2>1. a = ROOT_CLUSTER /\ b = ROOT_CLUSTER /\ l.pos[a] = 0 /\ l.pos[b] = 0
    BY <1>1, <1>2, <1>4, CellsOfIs
  <2>2. Index(l, a, i) = i /\ Index(l, b, j) = j /\ i \in Nat /\ j \in Nat /\ i > 0
    BY <2>1, Constants, WidthIs DEF Index
  <2> QED BY <2>1, <2>2
<1>5. CASE l.own[a] # ROOT_CLUSTER
  <2>1. a \in Clusters /\ b \in Clusters
    BY <1>1, <1>2, <1>5, CellsOfIs
  <2>2. i \in 1 .. SlotsPerSector /\ j \in 1 .. SlotsPerSector
    BY <2>1, WidthIs, CellsAre
  <2> DEFINE p == l.pos[a]
             q == l.pos[b]
             S == SlotsPerSector
  <2>3. /\ p * S + i \in Nat /\ (p < q => p * S + i < q * S + j) /\ (q < p => q * S + j < p * S + i)
        /\ (p * S + i = q * S + j => p = q /\ i = j)
    BY <1>1, <2>2, IndexOrder
  <2>4. Index(l, a, i) = p * S + i /\ Index(l, b, j) = q * S + j
    BY DEF Index
  <2>5. p * S \in Nat /\ q * S \in Nat /\ i \in Nat /\ j \in Nat /\ i > 0
    BY <1>1, <2>2, Constants
  <2>6. p = q => a = b
    BY <1>1, <1>3
  <2>7. p \in Nat /\ q \in Nat
    BY <1>1
  <2>8. p * S + i < q * S + j => p < q \/ (a = b /\ i < j)
    <3>1. p = q => p * S = q * S
      OBVIOUS
    <3> HIDE DEF p, q, S
    <3> QED BY <2>3, <2>5, <2>6, <2>7, <3>1
  <2> HIDE DEF p, q, S
  <2>9. /\ Index(l, a, i) \in Nat /\ Index(l, a, i) > 0
        /\ p < q => Index(l, a, i) < Index(l, b, j)
        /\ Index(l, a, i) = Index(l, b, j) => a = b /\ i = j
        /\ Index(l, a, i) < Index(l, b, j) => p < q \/ (a = b /\ i < j)
    BY <2>3, <2>4, <2>5, <2>6, <2>8
  <2> QED BY <2>9 DEF p, q
<1> QED BY <1>4, <1>5

(* A chain has a cell at every place up to its last one's, which is the    *)
(* one the table ends it at.                                               *)
LEMMA LastIs ==
  ASSUME NEW F, NEW l, GoodChains(F, l), NEW last \in Clusters, l.own[last] # Nobody, F[last] = EOC
  PROVE  \A b \in Clusters : l.own[b] = l.own[last] => l.pos[b] <= l.pos[last]
<1> SUFFICES ASSUME NEW b \in Clusters, l.own[b] = l.own[last], ~(l.pos[b] <= l.pos[last]) PROVE FALSE
  OBVIOUS
<1>1. /\ l \in Layouts
      /\ \A c \in Clusters : l.own[c] # Nobody /\ l.pos[c] # 0 =>
            \E a \in Clusters : l.own[a] = l.own[c] /\ F[a] = c /\ l.pos[a] + 1 = l.pos[c]
      /\ \A x, y \in Clusters : l.own[x] = l.own[y] /\ l.own[x] # Nobody /\ l.pos[x] = l.pos[y] => x = y
  BY DEF GoodChains
<1>2. \A c \in Clusters : l.pos[c] \in Nat
  BY <1>1, LayoutHas, CellsAre
<1> DEFINE p == l.pos[last]
           q == l.pos[b]
           I == {m \in Nat : \E y \in Clusters : l.own[y] = l.own[last] /\ l.pos[y] + m = q}
<1>3. p \in Nat /\ q \in Nat /\ p < q
  BY <1>2
<1>4. 0 \in I
  BY <1>2
<1>5. ASSUME NEW m \in 0 + 1 .. q - p - 1, m - 1 \in I PROVE m \in I
  <2>1. PICK y \in Clusters : l.own[y] = l.own[last] /\ l.pos[y] + (m - 1) = q
    BY <1>5
  <2>2. l.pos[y] # 0 /\ l.pos[y] \in Nat
    BY <1>2, <1>3, <2>1
  <2>3. PICK a \in Clusters : l.own[a] = l.own[y] /\ l.pos[a] + 1 = l.pos[y]
    BY <1>1, <2>1, <2>2
  <2>4. l.pos[a] + m = q /\ m \in Nat
    BY <1>2, <1>3, <2>1, <2>3
  <2> QED BY <2>1, <2>3, <2>4
<1>6. q - p - 1 \in Nat
  BY <1>3
<1>7. q - p - 1 \in I
  <2> HIDE DEF I
  <2>1. \A m \in 0 .. q - p - 1 : m \in I
    <3> HIDE DEF p, q
    <3> QED BY <1>4, <1>5, <1>6, Upwards
  <2> QED BY <1>6, <2>1
<1>8. PICK y \in Clusters : l.own[y] = l.own[last] /\ l.pos[y] + (q - p - 1) = q
  BY <1>7
<1>9. l.pos[y] = p + 1 /\ l.pos[y] # 0
  BY <1>2, <1>3, <1>8
<1>10. PICK a \in Clusters : l.own[a] = l.own[y] /\ F[a] = y /\ l.pos[a] + 1 = l.pos[y]
  BY <1>1, <1>8, <1>9
<1>11. l.pos[a] = l.pos[last]
  BY <1>2, <1>9, <1>10
<1>12. a = last
  BY <1>1, <1>8, <1>10, <1>11
<1> QED BY <1>10, <1>12, ClustersAre

(* A layout with a cluster f more at the end of the chain whose last is b. *)
Longer(l, b, f) ==
    [own |-> [l.own EXCEPT ![f] = l.own[b]], pos |-> [l.pos EXCEPT ![f] = l.pos[b] + 1],
     dirs |-> l.dirs, rank |-> l.rank, in |-> l.in, num |-> l.num]

(* The layout in which a cluster joins the end of a chain. *)
LEMMA LongerIs ==
  ASSUME NEW l \in Layouts, NEW b \in Clusters, NEW f \in Clusters
  PROVE  LET k == Longer(l, b, f) IN
         /\ k \in Layouts
         /\ k.own[f] = l.own[b] /\ k.pos[f] = l.pos[b] + 1
         /\ k.dirs = l.dirs /\ k.rank = l.rank /\ k.in = l.in /\ k.num = l.num
         /\ \A x \in Cell : x # f => k.own[x] = l.own[x] /\ k.pos[x] = l.pos[x]
<1> DEFINE k == Longer(l, b, f)
<1>1. /\ l.own \in [Cell -> Cell \cup {Nobody}] /\ l.pos \in [Cell -> Nat]
      /\ l.dirs \in SUBSET Cell /\ l.rank \in [Cell -> Nat]
      /\ l.in \in [Cell -> Cell] /\ l.num \in [Cell -> Nat] /\ f \in Cell /\ b \in Cell
      /\ l.own[b] \in Cell \cup {Nobody} /\ l.pos[b] + 1 \in Nat
  BY LayoutHas, CellsAre
<1>2. /\ k.own = [l.own EXCEPT ![f] = l.own[b]] /\ k.pos = [l.pos EXCEPT ![f] = l.pos[b] + 1]
      /\ k.dirs = l.dirs /\ k.rank = l.rank /\ k.in = l.in /\ k.num = l.num
      /\ k = [own |-> k.own, pos |-> k.pos, dirs |-> k.dirs, rank |-> k.rank, in |-> k.in, num |-> k.num]
  BY DEF Longer
<1> HIDE DEF k
<1>3. /\ k.own \in [Cell -> Cell \cup {Nobody}] /\ k.own[f] = l.own[b]
      /\ \A x \in Cell : x # f => k.own[x] = l.own[x]
  BY <1>1, <1>2
<1>4. /\ k.pos \in [Cell -> Nat] /\ k.pos[f] = l.pos[b] + 1 /\ \A x \in Cell : x # f => k.pos[x] = l.pos[x]
  BY <1>1, <1>2
<1>5. k \in Layouts
  BY <1>1, <1>2, <1>3, <1>4 DEF Layouts
<1> QED BY <1>2, <1>3, <1>4, <1>5 DEF k

(* A zeroed sector holds unused slots only. *)
LEMMA ZeroedIs ==
  /\ Zeroed \in [1 .. SlotsPerSector -> Slot]
  /\ \A i \in 1 .. SlotsPerSector : Zeroed[i] = UNUSED
  /\ UNUSED.is = "unused" /\ ~IsEntry(UNUSED) /\ ~Live(UNUSED)
<1>1. UNUSED \in Slot /\ UNUSED.is = "unused"
  BY CellsAre DEF UNUSED, Entry32, Slot, Kind, Dots
<1> QED BY <1>1 DEF Zeroed, IsEntry, Live

(* A directory whose slots are all in use grows. *)
LEMMA Grow ==
  ASSUME NEW T, NEW U, NEW F, NEW G, NEW l, Good(T, F, l),
         NEW last \in Clusters, l.own[last] \in l.dirs, F[last] = EOC,
         NEW f \in Clusters, l.own[f] = Nobody, G[f] = EOC, G[last] = f,
         \A x \in Clusters : l.own[x] # Nobody /\ x # last => G[x] = F[x],
         \A b \in DirCells(l) : U[b] = T[b], U[f] = Zeroed,
         \A b \in DirCells(l) : l.own[b] = l.own[last] => \A j \in 1 .. Width(b) : T[b][j].is # "unused"
  PROVE  /\ Good(U, G, Longer(l, last, f))
         /\ DirCells(Longer(l, last, f)) = DirCells(l) \cup {f}
         /\ Marks(U, Longer(l, last, f)) = Marks(T, l)
         /\ NoneUnusedBefore(U, Longer(l, last, f), f, 1)
<1> DEFINE k == Longer(l, last, f)
           d == l.own[last]
<1>0. /\ l \in Layouts /\ d \in l.dirs /\ d \in Cell /\ d # Nobody /\ d # ROOT_CLUSTER /\ d # f
      /\ \A x \in l.dirs : x \in DirCells(l) /\ l.own[x] = x /\ x \in Cell /\ x # f
      /\ \A b \in DirCells(l) : b \in Cell /\ l.own[b] \in l.dirs /\ l.own[b] \in Cell /\ l.own[b] # Nobody /\ b # f
      /\ ROOT_CLUSTER \in DirCells(l) /\ ROOT_CLUSTER \in l.dirs /\ ROOT_CLUSTER \in Cell
      /\ f \in Cell /\ last \in Cell /\ last # f /\ Nobody \notin Cell /\ last \in DirCells(l)
  <2>1. l \in Layouts /\ f \in Cell /\ last \in Cell /\ Nobody \notin Cell /\ ROOT_CLUSTER \in Cell
    BY GoodHas, CellsAre
  <2>2. d \in Cell /\ d # Nobody
    BY <2>1, LayoutHas
  <2>3. d # ROOT_CLUSTER
    BY <2>2 DEF Good, GoodChains
  <2>4. \A b \in DirCells(l) : b \in Cell /\ l.own[b] \in l.dirs /\ l.own[b] \in Cell /\ l.own[b] # Nobody /\ b # f
    BY GoodHas
  <2>5. last \in DirCells(l)
    BY <2>1 DEF DirCells
  <2>6. \A x \in l.dirs : x \in DirCells(l) /\ l.own[x] = x
    BY GoodHas
  <2> QED BY <2>1, <2>2, <2>3, <2>4, <2>5, <2>6, GoodHas
<1>1. /\ k \in Layouts
      /\ k.own[f] = d /\ k.pos[f] = l.pos[last] + 1
      /\ k.dirs = l.dirs /\ k.rank = l.rank /\ k.in = l.in /\ k.num = l.num
      /\ \A x \in Cell : x # f => k.own[x] = l.own[x] /\ k.pos[x] = l.pos[x]
  BY <1>0, LongerIs
<1> HIDE DEF k
<1>2. DirCells(k) = DirCells(l) \cup {f}
  <2>1. \A x \in Cell : x # f => (x \in DirCells(k) <=> x \in DirCells(l))
    BY <1>1 DEF DirCells
  <2>2. f \in DirCells(k)
    BY <1>0, <1>1 DEF DirCells
  <2>3. \A x : x \in DirCells(k) => x \in Cell
    BY DEF DirCells
  <2> QED BY <1>0, <2>1, <2>2, <2>3
<1>3. GoodChains(F, l) /\ \A b \in Clusters : l.own[b] = d => l.pos[b] <= l.pos[last]
  BY <1>0, LastIs DEF Good
<1>4. \A x \in Cell : l.pos[x] \in Nat
  BY <1>0, LayoutHas
<1>5. GoodChains(G, k)
  <2>1. \A x \in k.dirs : k.own[x] = x
    BY <1>0, <1>1
  <2>2. ASSUME NEW y \in Clusters, k.own[y] # Nobody
        PROVE  /\ G[y] # FREE /\ k.own[y] # ROOT_CLUSTER /\ k.own[k.own[y]] = k.own[y]
               /\ k.own[y] = y <=> k.pos[y] = 0
               /\ G[y] = EOC \/ (G[y] \in Clusters /\ k.own[G[y]] = k.own[y] /\ k.pos[G[y]] = k.pos[y] + 1)
               /\ k.pos[y] # 0 => \E b \in Clusters : k.own[b] = k.own[y] /\ G[b] = y /\ k.pos[b] + 1 = k.pos[y]
               /\ k.own[y] \notin k.dirs => k.own[y] = y /\ G[y] = EOC
    <3>1. CASE y = f
      <4>1. k.pos[y] # 0 /\ k.pos[last] + 1 = k.pos[y] /\ k.own[last] = d /\ k.own[d] = d /\ k.own[y] = d
        BY <1>0, <1>1, <1>4, <3>1
      <4>2. \E b \in Clusters : k.own[b] = k.own[y] /\ G[b] = y /\ k.pos[b] + 1 = k.pos[y]
        BY <3>1, <4>1
      <4>3. G[y] # FREE /\ G[y] = EOC
        BY <3>1, ClustersAre
      <4> QED BY <1>0, <1>1, <3>1, <4>1, <4>2, <4>3
    <3>2. CASE y # f
      <4>1. y \in Cell /\ k.own[y] = l.own[y] /\ k.pos[y] = l.pos[y] /\ l.own[y] # Nobody
        BY <1>1, <2>2, <3>2, CellsAre
      <4>2. /\ F[y] # FREE /\ l.own[y] # ROOT_CLUSTER /\ l.own[l.own[y]] = l.own[y]
            /\ l.own[y] = y <=> l.pos[y] = 0
            /\ F[y] = EOC \/ (F[y] \in Clusters /\ l.own[F[y]] = l.own[y] /\ l.pos[F[y]] = l.pos[y] + 1)
            /\ l.pos[y] # 0 => \E b \in Clusters : l.own[b] = l.own[y] /\ F[b] = y /\ l.pos[b] + 1 = l.pos[y]
            /\ l.own[y] \notin l.dirs => l.own[y] = y /\ F[y] = EOC
        BY <1>3, <4>1 DEF GoodChains
      <4>3. l.own[y] # f /\ l.own[y] \in Cell
        BY <1>0, <4>1, <4>2, LayoutHas
      <4>4. k.own[k.own[y]] = k.own[y]
        BY <1>1, <4>1, <4>2, <4>3
      <4>5. G[y] # FREE /\ (G[y] = EOC \/ (G[y] \in Clusters /\ k.own[G[y]] = k.own[y] /\ k.pos[G[y]] = k.pos[y] + 1))
        <5>1. CASE y = last
          BY <1>0, <1>1, <4>1, <5>1, ClustersAre
        <5>2. CASE y # last
          <6>1. G[y] = F[y]
            BY <4>1, <5>2
          <6>2. F[y] \in Clusters => F[y] # f /\ F[y] \in Cell
            BY <4>1, <4>2, CellsAre, ClustersAre
          <6> QED BY <1>1, <4>1, <4>2, <6>1, <6>2
        <5> QED BY <5>1, <5>2
      <4>6. ASSUME k.pos[y] # 0
            PROVE  \E b \in Clusters : k.own[b] = k.own[y] /\ G[b] = y /\ k.pos[b] + 1 = k.pos[y]
        <5>1. PICK b \in Clusters : l.own[b] = l.own[y] /\ F[b] = y /\ l.pos[b] + 1 = l.pos[y]
          BY <4>1, <4>2, <4>6
        <5>2. b # f /\ b \in Cell /\ b # last
          BY <4>1, <5>1, CellsAre, ClustersAre
        <5>3. G[b] = F[b]
          BY <4>1, <5>1, <5>2
        <5> QED BY <1>1, <4>1, <5>1, <5>2, <5>3
      <4>7. k.own[y] \notin k.dirs => k.own[y] = y /\ G[y] = EOC
        BY <1>0, <1>1, <4>1, <4>2
      <4> QED BY <4>1, <4>2, <4>4, <4>5, <4>6, <4>7
    <3> QED BY <3>1, <3>2
  <2>3. ASSUME NEW a \in Clusters, NEW b \in Clusters, k.own[a] = k.own[b], k.own[a] # Nobody,
               k.pos[a] = k.pos[b]
        PROVE  a = b
    <3>1. \A x \in Clusters : x # f => k.own[x] = l.own[x] /\ k.pos[x] = l.pos[x]
      BY <1>1, CellsAre
    <3>2. \A x \in Clusters : x # f /\ l.own[x] = d => k.pos[x] # k.pos[f]
      <4> SUFFICES ASSUME NEW x \in Clusters, x # f, l.own[x] = d PROVE k.pos[x] # k.pos[f]
        OBVIOUS
      <4>1. l.pos[x] <= l.pos[last] /\ l.pos[x] \in Nat /\ l.pos[last] \in Nat
        BY <1>0, <1>3, <1>4, CellsAre
      <4> QED BY <1>1, <3>1, <4>1
    <3>3. \A x, y \in Clusters : l.own[x] = l.own[y] /\ l.own[x] # Nobody /\ l.pos[x] = l.pos[y] => x = y
      BY DEF Good, GoodChains
    <3> QED BY <1>1, <2>3, <3>1, <3>2, <3>3
  <2>4. k.own[ROOT_CLUSTER] = ROOT_CLUSTER /\ k.pos[ROOT_CLUSTER] = 0 /\ k.rank[ROOT_CLUSTER] = 0
        /\ ROOT_CLUSTER \in k.dirs
    BY <1>0, <1>1 DEF Good, GoodChains
  <2> QED BY <1>1, <2>1, <2>2, <2>3, <2>4 DEF GoodChains
<1>6. /\ Width(f) = SlotsPerSector /\ U[f] \in [1 .. Width(f) -> Slot]
      /\ \A j \in 1 .. Width(f) : U[f][j].is = "unused" /\ ~IsEntry(U[f][j])
  BY <1>0, WidthIs, ZeroedIs, CellsAre
<1>7. GoodSlots(U, k)
  <2>1. \A b \in DirCells(k) : U[b] \in [1 .. Width(b) -> Slot]
    BY <1>2, <1>6 DEF Good, GoodSlots
  <2>2. ASSUME NEW x \in k.dirs \ {ROOT_CLUSTER}
        PROVE  U[x][1] = Entry32("dot", ".", x) /\ U[x][2] = Entry32("dot", "..", k.own[k.in[x]])
    <3>1. x \in l.dirs \ {ROOT_CLUSTER} /\ x \in DirCells(l) /\ x \in Clusters /\ l.own[x] = x
      BY <1>0, <1>1, CellsAre
    <3>2. T[x][1] = Entry32("dot", ".", x) /\ T[x][2] = Entry32("dot", "..", l.own[l.in[x]])
      BY <3>1 DEF Good, GoodSlots
    <3>3. l.in[x] \in DirCells(l)
      BY <3>1, FirstsHave
    <3> QED BY <1>0, <1>1, <3>1, <3>2, <3>3
  <2> QED BY <2>1, <2>2 DEF GoodSlots
<1>8. GoodEntries(U, k)
  <2>1. ASSUME NEW b \in DirCells(k), NEW j \in 1 .. Width(b), IsEntry(U[b][j])
        PROVE  LET g == U[b][j].first IN
          /\ U[b][j].is = "dir" => g \in k.dirs \ {ROOT_CLUSTER} /\ k.rank[g] = k.rank[k.own[b]] + 1
          /\ U[b][j].is = "file" => g \notin k.dirs \ {ROOT_CLUSTER}
          /\ g # FREE => k.own[g] = g /\ k.in[g] = b /\ k.num[g] = j
    <3>1. b \in DirCells(l) /\ U[b][j] = T[b][j] /\ k.own[b] = l.own[b]
      BY <1>0, <1>1, <1>2, <1>6, <2>1
    <3> DEFINE g == T[b][j].first
    <3>2. /\ T[b][j].is = "dir" => g \in l.dirs \ {ROOT_CLUSTER} /\ l.rank[g] = l.rank[l.own[b]] + 1
          /\ T[b][j].is = "file" => g \notin l.dirs \ {ROOT_CLUSTER}
          /\ g # FREE => l.own[g] = g /\ l.in[g] = b /\ l.num[g] = j
      BY <2>1, <3>1, EntriesHave
    <3>3. g \in Cell
      BY <3>1, GoodHas, SlotHas
    <3>4. g # FREE => k.own[g] = g
      BY <1>0, <1>1, <3>2, <3>3
    <3> HIDE DEF g
    <3>5. U[b][j].first = g
      BY <3>1 DEF g
    <3> QED BY <1>1, <3>1, <3>2, <3>4, <3>5
  <2>2. ASSUME NEW g \in Clusters, k.own[g] = g
        PROVE  /\ k.in[g] \in DirCells(k) /\ k.num[g] \in 1 .. Width(k.in[g])
               /\ U[k.in[g]][k.num[g]].first = g
               /\ U[k.in[g]][k.num[g]].is = IF g \in k.dirs THEN "dir" ELSE "file"
    <3>1. g # f /\ l.own[g] = g
      BY <1>0, <1>1, <2>2, CellsAre
    <3>2. /\ l.in[g] \in DirCells(l) /\ l.num[g] \in 1 .. Width(l.in[g])
          /\ T[l.in[g]][l.num[g]].first = g
          /\ T[l.in[g]][l.num[g]].is = IF g \in l.dirs THEN "dir" ELSE "file"
      BY <3>1, FirstsHave
    <3> QED BY <1>1, <1>2, <3>2
  <2> QED BY <2>1, <2>2 DEF GoodEntries
<1>9. GoodNames(U, k)
  <2> SUFFICES ASSUME NEW a \in DirCells(k), NEW b \in DirCells(k), k.own[a] = k.own[b],
                      NEW j \in 1 .. Width(a), NEW h \in 1 .. Width(b)
               PROVE  /\ IsEntry(U[a][j]) /\ IsEntry(U[b][h]) /\ U[a][j].name = U[b][h].name => a = b /\ j = h
                      /\ Index(k, a, j) < Index(k, b, h) /\ U[a][j].is = "unused" => U[b][h].is = "unused"
    BY DEF GoodNames
  <2>1. \A x \in DirCells(l) : k.own[x] = l.own[x] /\ k.pos[x] = l.pos[x] /\ U[x] = T[x]
    BY <1>0, <1>1
  <2>2. CASE a # f /\ b # f
    <3>1. a \in DirCells(l) /\ b \in DirCells(l)
      BY <1>2, <2>2
    <3>2. l.own[a] = l.own[b] /\ Index(k, a, j) = Index(l, a, j) /\ Index(k, b, h) = Index(l, b, h)
      BY <2>1, <3>1 DEF Index
    <3> QED BY <2>1, <3>1, <3>2, NamesHas
  <2>3. CASE b = f
    <3>1. h \in 1 .. Width(f) /\ U[b][h] = U[f][h]
      BY <2>3
    <3>2. U[b][h].is = "unused" /\ ~IsEntry(U[b][h])
      BY <1>6, <3>1
    <3> QED BY <3>2
  <2>4. CASE ~(a # f /\ b # f) /\ b # f
    <3> a = f
      BY <2>4
    <3>1. b \in DirCells(l) /\ l.own[b] = d /\ k.pos[b] = l.pos[b]
      BY <1>1, <1>2, <2>1, <2>4
    <3>2. b \in Clusters
      <4>1. b # ROOT_CLUSTER
        BY <1>0, <3>1 DEF Good, GoodChains
      <4> QED BY <1>0, <3>1, <4>1, CellsAre
    <3>3. l.pos[b] <= l.pos[last] /\ l.pos[b] \in Nat /\ l.pos[last] \in Nat /\ k.pos[f] = l.pos[last] + 1
      BY <1>0, <1>1, <1>3, <1>4, <3>1, <3>2
    <3>4. k.pos[b] < k.pos[f] /\ k.pos[b] \in Nat /\ k.pos[f] \in Nat
      BY <3>1, <3>3
    <3>5. h \in 1 .. SlotsPerSector /\ j \in 1 .. SlotsPerSector
      BY <1>0, <1>6, <2>4, <3>1, <3>2, WidthIs, CellsAre
    <3>6. Index(k, b, h) < Index(k, a, j) /\ Index(k, b, h) \in Nat /\ Index(k, a, j) \in Nat
      BY <2>4, <3>4, <3>5, IndexOrder DEF Index
    <3>7. j \in 1 .. Width(f) /\ ~IsEntry(U[a][j])
      BY <1>6
    <3>8. ~(Index(k, a, j) < Index(k, b, h))
      BY <3>6
    <3> QED BY <3>7, <3>8
  <2> QED BY <2>2, <2>3, <2>4
<1>10. Marks(U, k) = Marks(T, l)
  <2>1. \A b \in DirCells(l) : U[b] = T[b] /\ k.own[b] = l.own[b] /\ k.pos[b] = l.pos[b]
    BY <1>0, <1>1
  <2>2. \A m : m \in Marks(T, l) => m \in Marks(U, k)
    BY <1>2, <2>1, MarksAre DEF MarkAt, Index
  <2>3. \A m : m \in Marks(U, k) => m \in Marks(T, l)
    <3> SUFFICES ASSUME NEW m \in Marks(U, k) PROVE m \in Marks(T, l)
      OBVIOUS
    <3>1. PICK b \in DirCells(k) : \E j \in 1 .. Width(b) : IsEntry(U[b][j]) /\ m = MarkAt(U, k, b, j)
      BY MarksAre
    <3>2. b \in DirCells(l)
      BY <1>2, <1>6, <3>1
    <3> QED BY <2>1, <3>1, <3>2, MarksAre DEF MarkAt, Index
  <2> QED BY <2>2, <2>3
<1>11. NoneUnusedBefore(U, k, f, 1)
  <2> SUFFICES ASSUME NEW b \in DirCells(k), k.own[b] = k.own[f], NEW j \in 1 .. Width(b),
                      Index(k, b, j) < Index(k, f, 1)
               PROVE  U[b][j].is # "unused"
    BY DEF NoneUnusedBefore
  <2>1. CASE b = f
    <3>1. 1 \in 1 .. Width(f) /\ j \in 1 .. SlotsPerSector /\ k.pos[f] \in Nat /\ k.pos[f] * SlotsPerSector \in Nat
      BY <1>0, <1>1, <1>4, <1>6, <2>1, Constants
    <3> QED BY <2>1, <3>1 DEF Index
  <2>2. CASE b # f
    <3>1. b \in DirCells(l) /\ l.own[b] = d
      BY <1>0, <1>1, <1>2, <2>2
    <3> QED BY <3>1
  <2> QED BY <2>1, <2>2
<1> QED BY <1>2, <1>5, <1>7, <1>8, <1>9, <1>10, <1>11 DEF Good, k

(* What becomes of the marks when slot i of cell c becomes s, and cells     *)
(* without entries come or go.                                             *)
Shifted(T, U, l, k, c, i, s) ==
    /\ c \in DirCells(l) /\ c \in DirCells(k) /\ i \in 1 .. Width(c)
    /\ \A b \in DirCells(l) : b \in DirCells(k) => k.own[b] = l.own[b] /\ k.pos[b] = l.pos[b]
    /\ \A b \in DirCells(k) : b \notin DirCells(l) => \A j \in 1 .. Width(b) : ~IsEntry(U[b][j])
    /\ \A b \in DirCells(l) : b \notin DirCells(k) => \A j \in 1 .. Width(b) : ~IsEntry(T[b][j])
    /\ \A b \in DirCells(l) : b \in DirCells(k) =>
          \A j \in 1 .. Width(b) : U[b][j] = IF b = c /\ j = i THEN s ELSE T[b][j]

(* A slot written changes the marks by the old and the new entry. *)
LEMMA PutMarks ==
  ASSUME NEW T, NEW U, NEW F, NEW l, Good(T, F, l), NEW k, NEW c, NEW i, NEW s, Shifted(T, U, l, k, c, i, s)
  PROVE  Marks(U, k) = (Marks(T, l) \ (IF IsEntry(T[c][i]) THEN {MarkAt(T, l, c, i)} ELSE {}))
                          \cup (IF IsEntry(s) THEN {MarkAt(U, k, c, i)} ELSE {})
<1>0. /\ c \in DirCells(l) /\ c \in DirCells(k) /\ i \in 1 .. Width(c)
      /\ \A b \in DirCells(l) : b \in DirCells(k) => k.own[b] = l.own[b] /\ k.pos[b] = l.pos[b]
      /\ \A b \in DirCells(k) : b \notin DirCells(l) => \A j \in 1 .. Width(b) : ~IsEntry(U[b][j])
      /\ \A b \in DirCells(l) : b \notin DirCells(k) => \A j \in 1 .. Width(b) : ~IsEntry(T[b][j])
      /\ \A b \in DirCells(l) : b \in DirCells(k) =>
            \A j \in 1 .. Width(b) : U[b][j] = IF b = c /\ j = i THEN s ELSE T[b][j]
  BY DEF Shifted
<1> USE <1>0
<1> DEFINE M == Marks(T, l)
           N == (M \ (IF IsEntry(T[c][i]) THEN {MarkAt(T, l, c, i)} ELSE {}))
                          \cup (IF IsEntry(s) THEN {MarkAt(U, k, c, i)} ELSE {})
<1>1. ASSUME NEW b \in DirCells(l), b \in DirCells(k), NEW j \in 1 .. Width(b), ~(b = c /\ j = i)
      PROVE  U[b][j] = T[b][j] /\ MarkAt(U, k, b, j) = MarkAt(T, l, b, j)
  <2>1. U[b][j] = T[b][j] /\ k.own[b] = l.own[b] /\ k.pos[b] = l.pos[b]
    BY <1>1
  <2> QED BY <2>1 DEF MarkAt, Index
<1>2. U[c][i] = s
  OBVIOUS
<1>3. ASSUME NEW b \in DirCells(l), NEW j \in 1 .. Width(b), IsEntry(T[b][j]), IsEntry(T[c][i]),
             MarkAt(T, l, b, j) = MarkAt(T, l, c, i)
      PROVE  b = c /\ j = i
  <2>1. l.own[b] = l.own[c] /\ T[b][j].name = T[c][i].name
    BY <1>3, MarkIs DEF MarkAt
  <2> QED BY <1>3, <2>1, NamesHas
<1>4. ASSUME NEW m \in Marks(U, k) PROVE m \in N
  <2>1. PICK b \in DirCells(k) : \E j \in 1 .. Width(b) : IsEntry(U[b][j]) /\ m = MarkAt(U, k, b, j)
    BY MarksAre
  <2>2. PICK j \in 1 .. Width(b) : IsEntry(U[b][j]) /\ m = MarkAt(U, k, b, j)
    BY <2>1
  <2>3. b \in DirCells(l)
    BY <2>2
  <2>4. CASE b = c /\ j = i
    BY <1>2, <2>2, <2>4
  <2>5. CASE ~(b = c /\ j = i)
    <3>1. U[b][j] = T[b][j] /\ MarkAt(U, k, b, j) = MarkAt(T, l, b, j)
      BY <1>1, <2>3, <2>5
    <3>2. IsEntry(T[b][j]) /\ m = MarkAt(T, l, b, j)
      BY <2>2, <3>1
    <3>3. m \in M
      BY <2>3, <3>2, MarksAre
    <3>4. IsEntry(T[c][i]) => m # MarkAt(T, l, c, i)
      BY <1>3, <2>3, <2>5, <3>2
    <3> QED BY <3>3, <3>4
  <2> QED BY <2>4, <2>5
<1>5. ASSUME NEW m \in N PROVE m \in Marks(U, k)
  <2>1. CASE IsEntry(s) /\ m = MarkAt(U, k, c, i)
    BY <1>2, <2>1, MarksAre
  <2>2. CASE m \in M /\ (IsEntry(T[c][i]) => m # MarkAt(T, l, c, i))
    <3>1. PICK b \in DirCells(l) : \E j \in 1 .. Width(b) : IsEntry(T[b][j]) /\ m = MarkAt(T, l, b, j)
      BY <2>2, MarksAre
    <3>2. PICK j \in 1 .. Width(b) : IsEntry(T[b][j]) /\ m = MarkAt(T, l, b, j)
      BY <3>1
    <3>3. b \in DirCells(k) /\ ~(b = c /\ j = i)
      BY <2>2, <3>2
    <3>4. U[b][j] = T[b][j] /\ MarkAt(U, k, b, j) = MarkAt(T, l, b, j)
      BY <1>1, <3>3
    <3> QED BY <3>2, <3>3, <3>4, MarksAre
  <2> QED BY <2>1, <2>2
<1> QED BY <1>4, <1>5

(* Names of a directory, told by marks. *)
LEMMA NoneNamedIs ==
  ASSUME NEW T, NEW l, NEW d, NEW n
  PROVE  NoneNamed(T, l, d, n) <=> \A m \in Marks(T, l) : m.dir = d => m.name # n
<1>1. ASSUME NoneNamed(T, l, d, n), NEW m \in Marks(T, l), m.dir = d PROVE m.name # n
  <2>1. PICK c \in DirCells(l) : \E i \in 1 .. Width(c) : IsEntry(T[c][i]) /\ m = MarkAt(T, l, c, i)
    BY <1>1, MarksAre
  <2> QED BY <1>1, <2>1, MarkIs DEF NoneNamed, MarkAt
<1>2. ASSUME \A m \in Marks(T, l) : m.dir = d => m.name # n PROVE NoneNamed(T, l, d, n)
  <2> SUFFICES ASSUME NEW b \in DirCells(l), l.own[b] = d, NEW j \in 1 .. Width(b), IsEntry(T[b][j])
               PROVE  T[b][j].name # n
    BY DEF NoneNamed
  <2>1. MarkAt(T, l, b, j) \in Marks(T, l)
    BY MarksAre
  <2> QED BY <1>2, <2>1, MarkIs DEF MarkAt
<1> QED BY <1>1, <1>2

(* A directory without entries has no marks. *)
LEMMA NoneInIs ==
  ASSUME NEW T, NEW l, NEW d
  PROVE  NoneIn(T, l, d) <=> \A m \in Marks(T, l) : m.dir # d
<1>1. ASSUME NoneIn(T, l, d), NEW m \in Marks(T, l) PROVE m.dir # d
  <2>1. PICK c \in DirCells(l) : \E i \in 1 .. Width(c) : IsEntry(T[c][i]) /\ m = MarkAt(T, l, c, i)
    BY <1>1, MarksAre
  <2> QED BY <1>1, <2>1, MarkIs DEF NoneIn, MarkAt
<1>2. ASSUME \A m \in Marks(T, l) : m.dir # d PROVE NoneIn(T, l, d)
  <2> SUFFICES ASSUME NEW b \in DirCells(l), l.own[b] = d, NEW j \in 1 .. Width(b), IsEntry(T[b][j]) PROVE FALSE
    BY DEF NoneIn
  <2>1. MarkAt(T, l, b, j) \in Marks(T, l)
    BY MarksAre
  <2> QED BY <1>2, <2>1, MarkIs DEF MarkAt
<1> QED BY <1>1, <1>2

(* What the marks of a tree are like. *)
MarkSet == [dir : Cell, index : Nat, name : Names, id : Cell]
GoodMarks(M, ds) ==
    /\ M \subseteq MarkSet
    /\ \A m \in M : m.dir \in ds /\ m.id \in ds /\ m.index > 0
    /\ ROOT_CLUSTER \in ds /\ \A d \in ds \ {ROOT_CLUSTER} : \E m \in M : m.id = d
    /\ \A m, o \in M : m.dir = o.dir /\ (m.name = o.name \/ m.index = o.index) => m = o
    /\ \A m, o \in M : m.id = o.id /\ m.id # ROOT_CLUSTER => m = o

(* The marks of a good tree: each name once in a directory, one entry to   *)
(* each directory.                                                         *)
LEMMA MarksGood ==
  ASSUME NEW T, NEW F, NEW l, Good(T, F, l)
  PROVE  GoodMarks(Marks(T, l), l.dirs)
<1> DEFINE M == Marks(T, l)
<1>0. /\ l \in Layouts /\ ROOT_CLUSTER \in l.dirs
      /\ \A b \in DirCells(l) : b \in Cell /\ l.own[b] \in l.dirs /\ l.own[b] \in Cell
      /\ \A d \in l.dirs : l.own[d] = d /\ d \in Cell
  BY GoodHas
<1>1. ASSUME NEW c \in DirCells(l), NEW i \in 1 .. Width(c), IsEntry(T[c][i])
      PROVE  LET m == MarkAt(T, l, c, i) IN
             /\ m \in MarkSet /\ m.dir = l.own[c] /\ m.index = Index(l, c, i) /\ m.name = T[c][i].name
             /\ m.id = IF T[c][i].is = "dir" THEN T[c][i].first ELSE ROOT_CLUSTER
             /\ m.dir \in l.dirs /\ m.id \in l.dirs /\ m.index > 0
             /\ m.id # ROOT_CLUSTER => l.in[m.id] = c /\ l.num[m.id] = i
  <2> DEFINE id == IF T[c][i].is = "dir" THEN T[c][i].first ELSE ROOT_CLUSTER
  <2>1. T[c][i] \in Slot /\ T[c][i].name \in Names /\ T[c][i].first \in Cell
    BY <1>1, GoodHas, SlotHas
  <2>2. Index(l, c, i) \in Nat /\ Index(l, c, i) > 0
    BY IndexIs
  <2>3. id \in l.dirs /\ id \in Cell
    BY <1>0, <1>1, EntriesHave
  <2>4. id # ROOT_CLUSTER => l.in[id] = c /\ l.num[id] = i
    BY <1>1, EntriesHave, CellsAre
  <2> HIDE DEF id
  <2>5. MarkAt(T, l, c, i) = Mark(l.own[c], Index(l, c, i), T[c][i].name, id)
    BY DEF MarkAt, id
  <2>6. Mark(l.own[c], Index(l, c, i), T[c][i].name, id) \in MarkSet
    BY <1>0, <2>1, <2>2, <2>3 DEF Mark, MarkSet
  <2>7. id = IF T[c][i].is = "dir" THEN T[c][i].first ELSE ROOT_CLUSTER
    BY DEF id
  <2> QED BY <1>0, <2>2, <2>3, <2>4, <2>5, <2>6, <2>7, MarkIs
<1>2. \A m \in M : \E c \in DirCells(l) : \E i \in 1 .. Width(c) : IsEntry(T[c][i]) /\ m = MarkAt(T, l, c, i)
  BY MarksAre
<1>3. \A m \in M : m \in MarkSet /\ m.dir \in l.dirs /\ m.id \in l.dirs /\ m.index > 0
  BY <1>1, <1>2
<1>4. ASSUME NEW d \in l.dirs \ {ROOT_CLUSTER} PROVE \E m \in M : m.id = d
  <2>1. d \in Clusters /\ l.own[d] = d
    BY <1>0, CellsAre
  <2> DEFINE c == l.in[d]
             i == l.num[d]
  <2>2. c \in DirCells(l) /\ i \in 1 .. Width(c) /\ T[c][i].first = d /\ T[c][i].is = "dir" /\ IsEntry(T[c][i])
    BY <2>1, FirstsHave
  <2> HIDE DEF c, i
  <2>3. MarkAt(T, l, c, i) \in M /\ MarkAt(T, l, c, i).id = d
    BY <1>1, <2>2, MarksAre
  <2> QED BY <2>3
<1>5. ASSUME NEW m \in M, NEW o \in M,
             (m.dir = o.dir /\ (m.name = o.name \/ m.index = o.index)) \/ (m.id = o.id /\ m.id # ROOT_CLUSTER)
      PROVE  m = o
  <2>1. PICK b \in DirCells(l) : \E i \in 1 .. Width(b) : IsEntry(T[b][i]) /\ m = MarkAt(T, l, b, i)
    BY <1>2
  <2>2. PICK i \in 1 .. Width(b) : IsEntry(T[b][i]) /\ m = MarkAt(T, l, b, i)
    BY <2>1
  <2>3. PICK c \in DirCells(l) : \E j \in 1 .. Width(c) : IsEntry(T[c][j]) /\ o = MarkAt(T, l, c, j)
    BY <1>2
  <2>4. PICK j \in 1 .. Width(c) : IsEntry(T[c][j]) /\ o = MarkAt(T, l, c, j)
    BY <2>3
  <2>5. /\ m.dir = l.own[b] /\ m.index = Index(l, b, i) /\ m.name = T[b][i].name
        /\ m.id # ROOT_CLUSTER => l.in[m.id] = b /\ l.num[m.id] = i
    BY <1>1, <2>2
  <2>6. /\ o.dir = l.own[c] /\ o.index = Index(l, c, j) /\ o.name = T[c][j].name
        /\ o.id # ROOT_CLUSTER => l.in[o.id] = c /\ l.num[o.id] = j
    BY <1>1, <2>4
  <2>7. b = c /\ i = j
    <3>1. CASE m.id = o.id /\ m.id # ROOT_CLUSTER
      BY <2>5, <2>6, <3>1
    <3>2. CASE m.dir = o.dir /\ m.name = o.name
      <4>1. l.own[b] = l.own[c] /\ T[b][i].name = T[c][j].name /\ IsEntry(T[b][i]) /\ IsEntry(T[c][j])
        BY <2>2, <2>4, <2>5, <2>6, <3>2
      <4> QED BY <4>1, NamesHas
    <3>3. CASE m.dir = o.dir /\ m.index = o.index
      <4>1. l.own[b] = l.own[c] /\ Index(l, b, i) = Index(l, c, j)
        BY <2>5, <2>6, <3>3
      <4> QED BY <4>1, IndexIs
    <3> QED BY <1>5, <3>1, <3>2, <3>3
  <2> QED BY <2>2, <2>4, <2>7
<1> QED BY <1>0, <1>3, <1>4, <1>5 DEF GoodMarks

-----------------------------------------------------------------------------
(* The tree as it is reached from the root is the one of the layout. *)

HoldAt(T, F, l, c, i) == Holding(F, l.own[c], <<Index(l, c, i), T[c][i]>>)
Held(T, F, l) ==
    UNION {{HoldAt(T, F, l, c, i) : i \in {j \in 1 .. Width(c) : IsEntry(T[c][j])}} : c \in DirCells(l)}
HoldIn(rt, sb, F, d) ==
    {Holding(F, d, x) : x \in {y \in SlotsOf(rt, sb, F, d) : y[2].is \in {"file", "dir"}}}

(* What is held are the entries of all cells of directories. *)
LEMMA HeldIs ==
  ASSUME NEW T, NEW F, NEW l, NEW h
  PROVE  h \in Held(T, F, l) <=>
            \E c \in DirCells(l) : \E i \in 1 .. Width(c) : IsEntry(T[c][i]) /\ h = HoldAt(T, F, l, c, i)
BY DEF Held

(* The parts of what is held. *)
LEMMA HoldAtIs ==
  ASSUME NEW T, NEW F, NEW l, NEW c, NEW i
  PROVE  /\ HoldAt(T, F, l, c, i).dir = l.own[c] /\ HoldAt(T, F, l, c, i).index = Index(l, c, i)
         /\ HoldAt(T, F, l, c, i).is = T[c][i].is /\ HoldAt(T, F, l, c, i).name = T[c][i].name
         /\ HoldAt(T, F, l, c, i).first = T[c][i].first
         /\ T[c][i].is = "dir" => HoldAt(T, F, l, c, i).has = ChainOf(F, T[c][i].first)
         /\ T[c][i].is # "dir" => HoldAt(T, F, l, c, i).has = {T[c][i].first} \ {FREE}
BY DEF HoldAt, Holding

(* What the code finds in a directory is what the layout has in it. *)
LEMMA HoldInIs ==
  ASSUME NEW rt, NEW sb, NEW T, T = Slots(rt, sb), NEW F, NEW l, Good(T, F, l), NEW d \in l.dirs, NEW h
  PROVE  h \in HoldIn(rt, sb, F, d) <=>
            \E c \in DirCells(l) : l.own[c] = d /\ \E i \in 1 .. Width(c) : IsEntry(T[c][i]) /\ h = HoldAt(T, F, l, c, i)
<1>1. SlotsOf(rt, sb, F, d) = {<<Index(l, p[1], p[2]), T[p[1]][p[2]]>> : p \in PlacesIn(l, d)}
  BY SlotsOfIs DEF Good
<1>2. ASSUME h \in HoldIn(rt, sb, F, d)
      PROVE  \E c \in DirCells(l) : l.own[c] = d /\ \E i \in 1 .. Width(c) : IsEntry(T[c][i]) /\ h = HoldAt(T, F, l, c, i)
  <2>1. PICK x \in SlotsOf(rt, sb, F, d) : x[2].is \in {"file", "dir"} /\ h = Holding(F, d, x)
    BY <1>2 DEF HoldIn
  <2>2. PICK p \in PlacesIn(l, d) : x = <<Index(l, p[1], p[2]), T[p[1]][p[2]]>>
    BY <1>1
  <2>3. p[1] \in Cell /\ l.own[p[1]] = d /\ p[2] \in 1 .. RootSlots + SlotsPerSector /\ p[2] <= Width(p[1])
    BY DEF PlacesIn, CellsOf
  <2>4. p[1] \in DirCells(l) /\ p[2] \in 1 .. Width(p[1])
    BY <2>3, WidthIs DEF DirCells
  <2>5. x[2] = T[p[1]][p[2]]
    BY <2>2
  <2>6. IsEntry(T[p[1]][p[2]]) /\ h = HoldAt(T, F, l, p[1], p[2])
    BY <2>1, <2>2, <2>3, <2>5 DEF IsEntry, HoldAt
  <2> QED BY <2>3, <2>4, <2>6
<1>3. ASSUME NEW c \in DirCells(l), l.own[c] = d, NEW i \in 1 .. Width(c), IsEntry(T[c][i]),
             h = HoldAt(T, F, l, c, i)
      PROVE  h \in HoldIn(rt, sb, F, d)
  <2>1. <<c, i>> \in PlacesIn(l, d)
    <3>1. c \in CellsOf(l, d)
      BY <1>3, GoodHas DEF CellsOf
    <3>2. i \in 1 .. RootSlots + SlotsPerSector /\ i <= Width(c)
      BY <1>3, GoodHas, WidthIs, Constants DEF Width
    <3> QED BY <3>1, <3>2 DEF PlacesIn
  <2>2. <<Index(l, c, i), T[c][i]>> \in SlotsOf(rt, sb, F, d)
    <3>1. \E p \in PlacesIn(l, d) : <<Index(l, c, i), T[c][i]>> = <<Index(l, p[1], p[2]), T[p[1]][p[2]]>>
      BY <2>1
    <3> QED BY <1>1, <3>1
  <2>3. <<Index(l, c, i), T[c][i]>>[2].is \in {"file", "dir"}
    BY <1>3 DEF IsEntry
  <2>4. h = Holding(F, d, <<Index(l, c, i), T[c][i]>>)
    BY <1>3 DEF HoldAt
  <2> QED BY <2>2, <2>3, <2>4 DEF HoldIn
<1> QED BY <1>2, <1>3

(* No directory is farther below the root than there are clusters. *)
LEMMA RankIs ==
  ASSUME NEW T, NEW F, NEW l, Good(T, F, l)
  PROVE  \A d \in l.dirs : /\ l.rank[d] \in 0 .. NClusters
                           /\ l.rank[d] = 0 => d = ROOT_CLUSTER
                           /\ d # ROOT_CLUSTER =>
                                 /\ l.in[d] \in DirCells(l) /\ l.num[d] \in 1 .. Width(l.in[d])
                                 /\ T[l.in[d]][l.num[d]].is = "dir" /\ T[l.in[d]][l.num[d]].first = d
                                 /\ l.own[l.in[d]] \in l.dirs /\ l.rank[d] = l.rank[l.own[l.in[d]]] + 1
<1>1. l \in Layouts /\ \A d \in l.dirs : d \in Cell /\ l.rank[d] \in Nat /\ l.own[d] = d
  BY GoodHas, LayoutHas
<1>2. ASSUME NEW d \in l.dirs, d # ROOT_CLUSTER
      PROVE  /\ l.in[d] \in DirCells(l) /\ l.num[d] \in 1 .. Width(l.in[d])
             /\ T[l.in[d]][l.num[d]].is = "dir" /\ T[l.in[d]][l.num[d]].first = d
             /\ l.own[l.in[d]] \in l.dirs /\ l.rank[d] = l.rank[l.own[l.in[d]]] + 1
  <2>1. d \in Clusters /\ l.own[d] = d
    BY <1>1, <1>2, CellsAre
  <2> DEFINE c == l.in[d]
             i == l.num[d]
  <2>2. c \in DirCells(l) /\ i \in 1 .. Width(c) /\ T[c][i].first = d /\ T[c][i].is = "dir" /\ IsEntry(T[c][i])
    BY <2>1, FirstsHave
  <2> HIDE DEF c, i
  <2>3. l.own[c] \in l.dirs /\ l.rank[d] = l.rank[l.own[c]] + 1
    BY <2>2, EntriesHave, GoodHas
  <2> QED BY <2>2, <2>3 DEF c, i
<1>3. \A d \in l.dirs : l.rank[d] < NClusters + 1
  <2> DEFINE S == l.dirs
             f == [d \in S |-> l.rank[d]]
  <2>1. S \subseteq Cell /\ IsFiniteSet(S) /\ Cardinality(S) \in Nat /\ Cardinality(S) <= NClusters + 1
    <3>1. S \subseteq Cell
      BY <1>1
    <3> QED BY <3>1, CellsAre, FS_Subset, FS_CardinalityType
  <2>2. f \in [S -> Nat]
    BY <1>1
  <2>3. ASSUME NEW x \in S, f[x] # 0 PROVE \E y \in S : f[y] + 1 = f[x]
    <3>1. x # ROOT_CLUSTER
      BY <2>3 DEF Good, GoodChains
    <3>2. l.own[l.in[x]] \in S /\ l.rank[x] = l.rank[l.own[l.in[x]]] + 1
      BY <1>2, <3>1
    <3> QED BY <3>2
  <2>4. \A d \in S : f[d] = l.rank[d]
    OBVIOUS
  <2> HIDE DEF S, f
  <2>5. \A x \in S : f[x] < Cardinality(S)
    BY <2>1, <2>2, <2>3, NoGaps
  <2>6. ASSUME NEW d \in S PROVE l.rank[d] < NClusters + 1
    <3>1. f[d] < Cardinality(S) /\ f[d] \in Nat
      BY <2>2, <2>5
    <3> QED BY <2>1, <2>4, <3>1, ClustersFinite
  <2> QED BY <2>6 DEF S
<1>4. \A d \in l.dirs : l.rank[d] \in 0 .. NClusters
  BY <1>1, <1>3, ClustersFinite
<1>5. ASSUME NEW d \in l.dirs, l.rank[d] = 0 PROVE d = ROOT_CLUSTER
  <2> SUFFICES ASSUME d # ROOT_CLUSTER PROVE FALSE
    OBVIOUS
  <2>1. l.own[l.in[d]] \in l.dirs /\ l.rank[d] = l.rank[l.own[l.in[d]]] + 1
    BY <1>2
  <2> QED BY <1>1, <1>5, <2>1
<1> QED BY <1>2, <1>4, <1>5

Below(rt, sb, F, hs) == UNION {HoldIn(rt, sb, F, h.first) : h \in {x \in hs : x.is = "dir"}}
KnownTurns(g, rt, sb, F) ==
    g = [k \in 0 .. NClusters |->
            IF k = 0 THEN HoldIn(rt, sb, F, ROOT_CLUSTER) ELSE g[k - 1] \cup Below(rt, sb, F, g[k - 1])]

(* What is known after k turns: what is in the tree, and all of it down to *)
(* rank k.                                                                 *)
Known(T, F, l, hs, k) ==
    /\ hs \subseteq Held(T, F, l)
    /\ \A c \in DirCells(l) : l.rank[l.own[c]] <= k =>
          \A i \in 1 .. Width(c) : IsEntry(T[c][i]) => HoldAt(T, F, l, c, i) \in hs

(* The walk from the root first finds what the root holds. *)
LEMMA KnownFirst ==
  ASSUME NEW rt, NEW sb, NEW T, T = Slots(rt, sb), NEW F, NEW l, Good(T, F, l)
  PROVE  Known(T, F, l, HoldIn(rt, sb, F, ROOT_CLUSTER), 0)
<1>1. ROOT_CLUSTER \in l.dirs /\ l \in Layouts
  BY GoodHas
<1>2. HoldIn(rt, sb, F, ROOT_CLUSTER) \subseteq Held(T, F, l)
  BY <1>1, HoldInIs, HeldIs
<1>3. ASSUME NEW c \in DirCells(l), l.rank[l.own[c]] <= 0, NEW i \in 1 .. Width(c), IsEntry(T[c][i])
      PROVE  HoldAt(T, F, l, c, i) \in HoldIn(rt, sb, F, ROOT_CLUSTER)
  <2>1. l.own[c] \in l.dirs /\ l.rank[l.own[c]] \in 0 .. NClusters
    BY GoodHas, RankIs
  <2>2. l.rank[l.own[c]] = 0
    BY <1>3, <2>1
  <2>3. l.own[c] = ROOT_CLUSTER
    BY <2>1, <2>2, RankIs
  <2> QED BY <1>1, <1>3, <2>3, HoldInIs
<1> QED BY <1>2, <1>3 DEF Known

(* Each turn of the walk adds the directories one rank further down. *)
LEMMA KnownStep ==
  ASSUME NEW rt, NEW sb, NEW T, T = Slots(rt, sb), NEW F, NEW l, Good(T, F, l),
         NEW k \in Nat, NEW hs, Known(T, F, l, hs, k)
  PROVE  Known(T, F, l, hs \cup Below(rt, sb, F, hs), k + 1)
<1>1. ASSUME NEW h \in hs, h.is = "dir" PROVE h.first \in l.dirs
  <2>1. h \in Held(T, F, l)
    BY DEF Known
  <2>2. PICK c \in DirCells(l) : \E i \in 1 .. Width(c) : IsEntry(T[c][i]) /\ h = HoldAt(T, F, l, c, i)
    BY <2>1, HeldIs
  <2>3. PICK i \in 1 .. Width(c) : IsEntry(T[c][i]) /\ h = HoldAt(T, F, l, c, i)
    BY <2>2
  <2>4. h.is = T[c][i].is /\ h.first = T[c][i].first
    BY <2>3 DEF HoldAt, Holding
  <2> QED BY <1>1, <2>3, <2>4, EntriesHave
<1>2. ASSUME NEW g \in Below(rt, sb, F, hs) PROVE g \in Held(T, F, l)
  <2>1. PICK h \in hs : h.is = "dir" /\ g \in HoldIn(rt, sb, F, h.first)
    BY <1>2 DEF Below
  <2>2. h.first \in l.dirs
    BY <1>1, <2>1
  <2> QED BY <2>1, <2>2, HoldInIs, HeldIs
<1>3. ASSUME NEW c \in DirCells(l), l.rank[l.own[c]] <= k + 1, NEW i \in 1 .. Width(c), IsEntry(T[c][i])
      PROVE  HoldAt(T, F, l, c, i) \in hs \cup Below(rt, sb, F, hs)
  <2> DEFINE d == l.own[c]
  <2>1. d \in l.dirs /\ l.rank[d] \in Nat
    BY GoodHas, RankIs
  <2>2. CASE l.rank[d] <= k
    BY <1>3, <2>2 DEF Known
  <2>3. CASE ~(l.rank[d] <= k)
    <3>1. l.rank[d] = k + 1 /\ l.rank[d] # 0
      BY <1>3, <2>1, <2>3
    <3>2. d # ROOT_CLUSTER
      BY <3>1 DEF Good, GoodChains
    <3> DEFINE b == l.in[d]
               j == l.num[d]
    <3>3. /\ b \in DirCells(l) /\ j \in 1 .. Width(b) /\ T[b][j].is = "dir" /\ T[b][j].first = d
          /\ l.own[b] \in l.dirs /\ l.rank[d] = l.rank[l.own[b]] + 1
      BY <2>1, <3>2, RankIs
    <3> HIDE DEF b, j
    <3>4. l.rank[l.own[b]] <= k /\ IsEntry(T[b][j])
      <4>1. l.rank[l.own[b]] \in Nat
        BY <3>3, RankIs
      <4> QED BY <3>1, <3>3, <4>1 DEF IsEntry
    <3>5. HoldAt(T, F, l, b, j) \in hs
      BY <3>3, <3>4 DEF Known
    <3>6. HoldAt(T, F, l, b, j).is = "dir" /\ HoldAt(T, F, l, b, j).first = d
      BY <3>3 DEF HoldAt, Holding
    <3>7. HoldAt(T, F, l, c, i) \in HoldIn(rt, sb, F, d)
      BY <1>3, <2>1, HoldInIs
    <3> QED BY <3>5, <3>6, <3>7 DEF Below
  <2> QED BY <2>2, <2>3
<1> QED BY <1>2, <1>3 DEF Known

(* What is reached from the root is exactly what the layout holds. *)
LEMMA HoldingsIs ==
  ASSUME NEW rt, NEW sb, NEW T, T = Slots(rt, sb), NEW F, NEW l, Good(T, F, l)
  PROVE  Holdings(rt, sb, F) = Held(T, F, l)
<1>0. NClusters \in Nat
  BY ClustersFinite
<1> DEFINE h == CHOOSE g : KnownTurns(g, rt, sb, F)
<1>1. Holdings(rt, sb, F) = h[NClusters]
  BY DEF Holdings, KnownTurns, HoldIn, Below, NClusters
<1> DEFINE Next1(hs) == hs \cup Below(rt, sb, F, hs)
           S == [x \in (SUBSET Held(T, F, l)) \X (1 .. NClusters) |-> Next1(x[1])]
           X == {x \in (0 .. NClusters) \X (SUBSET Held(T, F, l)) : Known(T, F, l, x[2], x[1])}
           b == HoldIn(rt, sb, F, ROOT_CLUSTER)
<1>2. <<0, b>> \in X
  <2>1. Known(T, F, l, b, 0)
    BY KnownFirst
  <2>2. b \in SUBSET Held(T, F, l)
    BY <2>1 DEF Known
  <2> QED BY <1>0, <2>1, <2>2
<1>3. ASSUME NEW k \in 0 + 1 .. NClusters, NEW x, <<k - 1, x>> \in X
      PROVE  <<k, S[<<x, k>>]>> \in X /\ S[<<x, k>>] = Next1(x)
  <2>1. Known(T, F, l, x, k - 1) /\ x \in SUBSET Held(T, F, l) /\ k - 1 \in Nat /\ k \in 1 .. NClusters
    BY <1>0, <1>3
  <2>2. S[<<x, k>>] = Next1(x)
    BY <2>1
  <2>3. Known(T, F, l, Next1(x), k)
    <3>1. (k - 1) + 1 = k
      BY <1>0
    <3>2. Known(T, F, l, x \cup Below(rt, sb, F, x), (k - 1) + 1)
      BY <2>1, KnownStep
    <3> QED BY <3>1, <3>2
  <2>4. Next1(x) \in SUBSET Held(T, F, l)
    BY <2>3 DEF Known
  <2>5. k \in 0 .. NClusters
    BY <1>0
  <2> HIDE DEF Next1, S
  <2> QED BY <2>2, <2>3, <2>4, <2>5
<1> HIDE DEF X, S, b
<1>4. PICK g : Turns(g, X, 0, NClusters, b, S)
  <2>1. \A k \in 0 + 1 .. NClusters : \A x : <<k - 1, x>> \in X => <<k, S[<<x, k>>]>> \in X
    BY <1>3
  <2>2. 0 \in Nat /\ NClusters \in Nat /\ 0 <= NClusters
    BY <1>0
  <2> HIDE DEF Next1
  <2> QED BY <1>2, <2>1, <2>2, TurnsExist
<1>5. KnownTurns(g, rt, sb, F)
  <2>1. \A k \in 0 + 1 .. NClusters : g[k] = Next1(g[k - 1])
    <3> SUFFICES ASSUME NEW k \in 0 + 1 .. NClusters PROVE g[k] = Next1(g[k - 1])
      OBVIOUS
    <3>1. k - 1 \in 0 .. NClusters
      BY <1>0
    <3>2. <<k - 1, g[k - 1]>> \in X /\ g[k] = S[<<g[k - 1], k>>]
      BY <1>4, <3>1 DEF Turns
    <3> QED BY <1>3, <3>2
  <2>2. g = [k \in 0 .. NClusters |-> g[k]] /\ g[0] = b
    BY <1>4 DEF Turns
  <2>3. \A k \in 0 .. NClusters : k # 0 => k \in 0 + 1 .. NClusters
    BY <1>0
  <2> QED BY <2>1, <2>2, <2>3 DEF KnownTurns, b
<1>6. KnownTurns(h, rt, sb, F)
  BY <1>5
<1> HIDE DEF h
<1> DEFINE I == {k \in 0 .. NClusters : Known(T, F, l, h[k], k)}
<1>7. 0 \in I
  <2>1. h[0] = b
    BY <1>0, <1>6 DEF KnownTurns, b
  <2> QED BY <1>0, <2>1, KnownFirst DEF b
<1>8. ASSUME NEW k \in 0 + 1 .. NClusters, k - 1 \in I PROVE k \in I
  <2>1. k \in 0 .. NClusters /\ k # 0 /\ k - 1 \in Nat /\ (k - 1) + 1 = k
    BY <1>0
  <2>2. h[k] = h[k - 1] \cup Below(rt, sb, F, h[k - 1])
    BY <1>6, <2>1 DEF KnownTurns
  <2>3. Known(T, F, l, h[k - 1], k - 1)
    BY <1>8
  <2>4. Known(T, F, l, h[k - 1] \cup Below(rt, sb, F, h[k - 1]), (k - 1) + 1)
    BY <2>1, <2>3, KnownStep
  <2> QED BY <2>1, <2>2, <2>4
<1> HIDE DEF I
<1>9. NClusters \in I
  <2>1. \A k \in 0 .. NClusters : k \in I
    BY <1>0, <1>7, <1>8, Upwards
  <2> QED BY <1>0, <2>1
<1>10. Known(T, F, l, h[NClusters], NClusters)
  BY <1>9 DEF I
<1>11. ASSUME NEW x \in Held(T, F, l) PROVE x \in h[NClusters]
  <2>1. PICK c \in DirCells(l) : \E i \in 1 .. Width(c) : IsEntry(T[c][i]) /\ x = HoldAt(T, F, l, c, i)
    BY HeldIs
  <2>2. l.own[c] \in l.dirs /\ l.rank[l.own[c]] <= NClusters
    BY <1>0, GoodHas, RankIs
  <2> QED BY <1>10, <2>1, <2>2 DEF Known
<1>12. h[NClusters] \subseteq Held(T, F, l)
  BY <1>10 DEF Known
<1> QED BY <1>1, <1>11, <1>12

(* The directories, and the names in them. *)
LEMMA DirsInIs ==
  ASSUME NEW T, NEW F, NEW l, Good(T, F, l)
  PROVE  DirsIn(Held(T, F, l)) = l.dirs
<1>1. ASSUME NEW h \in Held(T, F, l), h.is = "dir" PROVE h.first \in l.dirs
  <2>1. PICK c \in DirCells(l) : \E i \in 1 .. Width(c) : IsEntry(T[c][i]) /\ h = HoldAt(T, F, l, c, i)
    BY HeldIs
  <2>2. PICK i \in 1 .. Width(c) : IsEntry(T[c][i]) /\ h = HoldAt(T, F, l, c, i)
    BY <2>1
  <2>3. h.is = T[c][i].is /\ h.first = T[c][i].first
    BY <2>2 DEF HoldAt, Holding
  <2> QED BY <1>1, <2>2, <2>3, EntriesHave
<1>2. ASSUME NEW d \in l.dirs, d # ROOT_CLUSTER
      PROVE  \E h \in Held(T, F, l) : h.is = "dir" /\ h.first = d
  <2> DEFINE c == l.in[d]
             i == l.num[d]
  <2>1. c \in DirCells(l) /\ i \in 1 .. Width(c) /\ T[c][i].first = d /\ T[c][i].is = "dir"
    BY <1>2, RankIs
  <2> HIDE DEF c, i
  <2>2. HoldAt(T, F, l, c, i) \in Held(T, F, l)
    BY <2>1, HeldIs DEF IsEntry
  <2> QED BY <2>1, <2>2 DEF HoldAt, Holding
<1>3. ROOT_CLUSTER \in l.dirs
  BY GoodHas
<1> QED BY <1>1, <1>2, <1>3 DEF DirsIn

(* The names in a directory are those of its marks. *)
LEMMA NamesInIs ==
  ASSUME NEW T, NEW F, NEW l, NEW d
  PROVE  NamesIn(Held(T, F, l), d) = {m.name : m \in {x \in Marks(T, l) : x.dir = d}}
<1>1. ASSUME NEW n \in NamesIn(Held(T, F, l), d) PROVE \E m \in Marks(T, l) : m.dir = d /\ m.name = n
  <2>1. PICK h \in Held(T, F, l) : h.dir = d /\ h.name = n
    BY DEF NamesIn
  <2>2. PICK c \in DirCells(l) : \E i \in 1 .. Width(c) : IsEntry(T[c][i]) /\ h = HoldAt(T, F, l, c, i)
    BY HeldIs
  <2>3. PICK i \in 1 .. Width(c) : IsEntry(T[c][i]) /\ h = HoldAt(T, F, l, c, i)
    BY <2>2
  <2>4. MarkAt(T, l, c, i) \in Marks(T, l)
    BY <2>3, MarksAre
  <2>5. MarkAt(T, l, c, i).dir = d /\ MarkAt(T, l, c, i).name = n
    BY <2>1, <2>3, MarkIs DEF MarkAt, HoldAt, Holding
  <2> QED BY <2>4, <2>5
<1>2. ASSUME NEW m \in Marks(T, l), m.dir = d PROVE m.name \in NamesIn(Held(T, F, l), d)
  <2>1. PICK c \in DirCells(l) : \E i \in 1 .. Width(c) : IsEntry(T[c][i]) /\ m = MarkAt(T, l, c, i)
    BY MarksAre
  <2>2. PICK i \in 1 .. Width(c) : IsEntry(T[c][i]) /\ m = MarkAt(T, l, c, i)
    BY <2>1
  <2>3. HoldAt(T, F, l, c, i) \in Held(T, F, l)
    BY <2>2, HeldIs
  <2>4. HoldAt(T, F, l, c, i).dir = d /\ HoldAt(T, F, l, c, i).name = m.name
    BY <1>2, <2>2, MarkIs DEF MarkAt, HoldAt, Holding
  <2> QED BY <2>3, <2>4 DEF NamesIn
<1> QED BY <1>1, <1>2

(* The tree NameTree speaks of. *)
TreeOf(hs) == {[dir |-> h.dir, name |-> h.name,
                id |-> IF h.is = "dir" THEN h.first ELSE ROOT_CLUSTER] : h \in hs}

(* The tree of names is that of the marks. *)
LEMMA TreeOfIs ==
  ASSUME NEW T, NEW F, NEW l
  PROVE  TreeOf(Held(T, F, l)) = {[dir |-> m.dir, name |-> m.name, id |-> m.id] : m \in Marks(T, l)}
<1>1. ASSUME NEW e \in TreeOf(Held(T, F, l))
      PROVE  \E m \in Marks(T, l) : e = [dir |-> m.dir, name |-> m.name, id |-> m.id]
  <2>1. PICK h \in Held(T, F, l) :
          e = [dir |-> h.dir, name |-> h.name, id |-> IF h.is = "dir" THEN h.first ELSE ROOT_CLUSTER]
    BY DEF TreeOf
  <2>2. PICK c \in DirCells(l) : \E i \in 1 .. Width(c) : IsEntry(T[c][i]) /\ h = HoldAt(T, F, l, c, i)
    BY HeldIs
  <2>3. PICK i \in 1 .. Width(c) : IsEntry(T[c][i]) /\ h = HoldAt(T, F, l, c, i)
    BY <2>2
  <2>4. MarkAt(T, l, c, i) \in Marks(T, l)
    BY <2>3, MarksAre
  <2>5. h.dir = l.own[c] /\ h.name = T[c][i].name /\ h.is = T[c][i].is /\ h.first = T[c][i].first
    BY <2>3 DEF HoldAt, Holding
  <2>6. MarkAt(T, l, c, i).dir = h.dir /\ MarkAt(T, l, c, i).name = h.name
        /\ MarkAt(T, l, c, i).id = IF h.is = "dir" THEN h.first ELSE ROOT_CLUSTER
    BY <2>5, MarkIs DEF MarkAt
  <2> QED BY <2>1, <2>4, <2>6
<1>2. ASSUME NEW m \in Marks(T, l)
      PROVE  [dir |-> m.dir, name |-> m.name, id |-> m.id] \in TreeOf(Held(T, F, l))
  <2>1. PICK c \in DirCells(l) : \E i \in 1 .. Width(c) : IsEntry(T[c][i]) /\ m = MarkAt(T, l, c, i)
    BY MarksAre
  <2>2. PICK i \in 1 .. Width(c) : IsEntry(T[c][i]) /\ m = MarkAt(T, l, c, i)
    BY <2>1
  <2> DEFINE h == HoldAt(T, F, l, c, i)
  <2>3. h \in Held(T, F, l)
    BY <2>2, HeldIs
  <2>4. h.dir = l.own[c] /\ h.name = T[c][i].name /\ h.is = T[c][i].is /\ h.first = T[c][i].first
    BY DEF HoldAt, Holding
  <2> HIDE DEF h
  <2>5. m.dir = h.dir /\ m.name = h.name /\ m.id = IF h.is = "dir" THEN h.first ELSE ROOT_CLUSTER
    BY <2>2, <2>4, MarkIs DEF MarkAt
  <2> QED BY <2>3, <2>5 DEF TreeOf
<1> QED BY <1>1, <1>2

-----------------------------------------------------------------------------
(* The volume of a call *)

Roots == [1 .. RootSlots -> Slot]
SubSlots == {Junk} \cup [1 .. SlotsPerSector -> Slot]
Subs == [Clusters -> SubSlots]
Vols == [fat : Tables, root : Roots, disk : Roots, sub : Subs, unread : BOOLEAN, leaked : BOOLEAN]

Seen(v) == Slots(v.root, v.sub)
Fat(v) == View(v.fat)
Fine(v, l) == v \in Vols /\ Good(Seen(v), Fat(v), l)

(* The types of a volume's parts. *)
LEMMA VolHas ==
  ASSUME NEW v \in Vols
  PROVE  /\ v.fat \in Tables /\ v.root \in Roots /\ v.disk \in Roots /\ v.sub \in Subs
         /\ v.unread \in BOOLEAN /\ v.leaked \in BOOLEAN
BY DEF Vols

(* A volume with another table. *)
LEMMA FatPut ==
  ASSUME NEW v \in Vols, NEW t \in Tables
  PROVE  LET w == [v EXCEPT !.fat = t] IN
         /\ w \in Vols /\ w.fat = t /\ w.root = v.root /\ w.disk = v.disk /\ w.sub = v.sub
         /\ w.unread = v.unread /\ w.leaked = v.leaked
BY DEF Vols

(* What a call that only reads, or only writes tables back, does.          *)
Reads(v, w) ==
    /\ v \in Vols /\ w \in Vols /\ w.root = v.root /\ w.disk = v.disk /\ w.sub = v.sub /\ w.leaked = v.leaked
    /\ Kept(v.fat, w.fat)
    /\ v.unread => w.unread
    /\ w.unread => v.unread \/ Broken(w.fat)

(* What a step that only reads keeps. *)
LEMMA ReadsIs ==
  ASSUME NEW v, NEW w, Reads(v, w)
  PROVE  /\ w \in Vols /\ Seen(w) = Seen(v) /\ Fat(w) = Fat(v) /\ w.leaked = v.leaked
         /\ w.unread \in BOOLEAN
         /\ \A l : Fine(v, l) => Fine(w, l)
         /\ v.fat.fails = {} => (w.unread <=> v.unread) /\ w.fat.fails = {}
<1>1. w \in Vols /\ Seen(w) = Seen(v) /\ Fat(w) = Fat(v) /\ w.leaked = v.leaked /\ w.unread \in BOOLEAN
      /\ v.unread \in BOOLEAN
  BY VolHas DEF Reads, Kept, Seen, Fat
<1>2. w.fat.fails = v.fat.fails
  BY DEF Reads, Kept
<1>3. v.fat.fails = {} => ~Broken(w.fat)
  BY <1>2 DEF Broken
<1> QED BY <1>1, <1>2, <1>3 DEF Fine, Reads

(* Doing nothing keeps a table. *)
LEMMA KeptRefl == ASSUME NEW t \in Tables PROVE Kept(t, t)
BY TableHas DEF Kept, Onwards

(* Doing nothing is a step that only reads. *)
LEMMA ReadsSelf == ASSUME NEW v \in Vols PROVE Reads(v, v)
BY VolHas, KeptRefl DEF Reads

(* Two steps that only read are one. *)
LEMMA ReadsMore ==
  ASSUME NEW u, NEW v, NEW w, Reads(u, v), Reads(v, w)
  PROVE  Reads(u, w)
<1>1. u.fat \in Tables /\ v.fat \in Tables /\ w.fat \in Tables
  BY VolHas DEF Reads
<1>2. Kept(u.fat, w.fat)
  BY <1>1, KeptMore DEF Reads
<1>3. Broken(v.fat) => Broken(w.fat)
  BY <1>1, BrokenStays DEF Reads, Kept
<1> QED BY <1>2, <1>3 DEF Reads

(* A read of a sector, or of a table entry, that says when it failed. *)
Marked(v, t) == [v EXCEPT !.fat = t, !.unread = v.unread \/ t.cf]

(* A table's failed read is noted in the volume. *)
LEMMA MarkedIs ==
  ASSUME NEW v \in Vols, NEW t, Kept(v.fat, t), t.cf \in BOOLEAN, t.cf => Broken(t)
  PROVE  /\ Reads(v, Marked(v, t)) /\ Marked(v, t).fat = t /\ (t.cf => Marked(v, t).unread)
<1> DEFINE w == Marked(v, t)
           x == v.unread \/ t.cf
<1>1. t \in Tables /\ x \in BOOLEAN /\ v.unread \in BOOLEAN
  <2>1. x \in BOOLEAN
    OBVIOUS
  <2> HIDE DEF x
  <2> QED BY <2>1, VolHas DEF Kept
<1>2. w = [v EXCEPT !.fat = t, !.unread = x]
  BY DEF Marked
<1>3. (v.unread => x) /\ (x => v.unread \/ Broken(t)) /\ (t.cf => x)
  OBVIOUS
<1> HIDE DEF w, x
<1>4. w \in Vols /\ w.fat = t /\ w.root = v.root /\ w.disk = v.disk /\ w.sub = v.sub
      /\ w.unread = x /\ w.leaked = v.leaked
  BY <1>1, <1>2 DEF Vols
<1>5. Reads(v, w)
  BY <1>3, <1>4 DEF Reads
<1> QED BY <1>3, <1>4, <1>5 DEF w

(* A transfer changes nothing of the table but its registers. *)
LEMMA KeptIo ==
  ASSUME NEW t \in Tables
  PROVE  /\ Kept(t, Io(t)) /\ Io(t).cf \in BOOLEAN /\ (Io(t).cf => Broken(Io(t)))
         /\ Io(t).ax = t.ax /\ Io(t).sector = t.sector /\ Io(t).ioerr = t.ioerr /\ Io(t).copies = t.copies
<1>1. /\ Io(t) \in Tables /\ SameTable(t, Io(t)) /\ View(Io(t)) = View(t)
      /\ Io(t).ioerr = t.ioerr /\ Io(t).fails = t.fails /\ Io(t).ios = t.ios + 1 /\ Io(t).cf \in BOOLEAN
      /\ (Io(t).cf => Broken(Io(t))) /\ Io(t).ax = t.ax
  BY IoIs
<1>2. Onwards(t, Io(t))
  BY <1>1, TableHas DEF Onwards, SameTable
<1> QED BY <1>1, <1>2 DEF Kept, SameTable

(* Reading a directory sector changes nothing, and a failure is noted. *)
LEMMA ReadSectorIs ==
  ASSUME NEW v \in Vols
  PROVE  /\ Reads(v, ReadSector(v)) /\ ReadSector(v).fat.cf \in BOOLEAN
         /\ ReadSector(v).fat.cf => ReadSector(v).unread /\ Broken(ReadSector(v).fat)
         /\ ReadSector(v).fat.sector = v.fat.sector /\ ReadSector(v).fat.ioerr = v.fat.ioerr
<1>1. ReadSector(v) = Marked(v, Io(v.fat))
  BY DEF ReadSector, Marked
<1>2. v.fat \in Tables
  BY VolHas
<1> QED BY <1>1, <1>2, KeptIo, MarkedIs

(* Loading a slot's sector changes nothing. *)
LEMMA LoadIs ==
  ASSUME NEW v \in Vols, NEW p
  PROVE  /\ Reads(v, Load(v, p)) /\ Load(v, p).fat.cf \in BOOLEAN
         /\ Load(v, p).fat.cf => Broken(Load(v, p).fat)
         /\ Load(v, p).fat.sector = v.fat.sector /\ Load(v, p).fat.ioerr = v.fat.ioerr
<1>1. CASE p.c = ROOT_CLUSTER
  <2> DEFINE t == [v.fat EXCEPT !.cf = FALSE]
  <2>1. v.fat \in Tables
    BY VolHas
  <2>2. /\ t \in Tables /\ SameTable(v.fat, t) /\ View(t) = View(v.fat)
        /\ ~t.cf /\ t.ioerr = v.fat.ioerr /\ t.fails = v.fat.fails /\ t.ax = v.fat.ax /\ t.ios = v.fat.ios
    BY <2>1, ClearedIs
  <2>3. Load(v, p) = [v EXCEPT !.fat = t]
    BY <1>1 DEF Load, Vols
  <2> HIDE DEF t
  <2>4. Onwards(v.fat, t)
    BY <2>1, <2>2, TableHas DEF Onwards, SameTable
  <2>5. Kept(v.fat, t) /\ t.sector = v.fat.sector
    BY <2>2, <2>4 DEF Kept, SameTable
  <2> DEFINE w == Load(v, p)
  <2>6. /\ w.fat = t /\ w \in Vols /\ w.root = v.root /\ w.disk = v.disk /\ w.sub = v.sub
        /\ w.unread = v.unread /\ w.leaked = v.leaked
    BY <2>2, <2>3, FatPut
  <2> HIDE DEF w
  <2>7. Reads(v, w)
    BY <2>5, <2>6 DEF Reads
  <2>8. w.fat.cf \in BOOLEAN /\ ~w.fat.cf
    BY <2>2, <2>6, TableHas
  <2> QED BY <2>2, <2>5, <2>6, <2>7, <2>8 DEF w
<1>2. CASE p.c # ROOT_CLUSTER
  BY <1>2, ReadSectorIs DEF Load
<1> QED BY <1>1, <1>2

-----------------------------------------------------------------------------
(* Writing a slot *)

Sited(v, p) ==
    /\ p.c \in Cell
    /\ p.c = ROOT_CLUSTER => p.i \in 1 .. RootSlots
    /\ p.c # ROOT_CLUSTER => v.sub[p.c] \in [1 .. SlotsPerSector -> Slot] /\ p.i \in 1 .. SlotsPerSector

(* The slot at a place is the one that is seen there. *)
LEMMA SeenAt ==
  ASSUME NEW v, NEW p, p.c \in Cell
  PROVE  At(v, p) = Seen(v)[p.c][p.i]
<1>1. CASE p.c = ROOT_CLUSTER
  <2>1. Seen(v)[p.c] = v.root
    BY <1>1, SlotsAre DEF Seen
  <2> QED BY <1>1, <2>1 DEF At
<1>2. CASE p.c # ROOT_CLUSTER
  <2>0. p.c \in Clusters
    BY <1>2, CellsAre
  <2>1. Seen(v)[p.c] = v.sub[p.c]
    BY <2>0, SlotsAre DEF Seen
  <2> QED BY <1>2, <2>1 DEF At
<1> QED BY <1>1, <1>2

(* A place in a directory can be written. *)
LEMMA SitedIs ==
  ASSUME NEW v \in Vols, NEW p, p.c \in Cell, p.i \in 1 .. Width(p.c),
         p.c # ROOT_CLUSTER => Seen(v)[p.c] \in [1 .. Width(p.c) -> Slot]
  PROVE  Sited(v, p)
<1>1. CASE p.c = ROOT_CLUSTER
  BY <1>1 DEF Sited, Width
<1>2. CASE p.c # ROOT_CLUSTER
  <2>0. p.c \in Clusters /\ Width(p.c) = SlotsPerSector
    BY <1>2, CellsAre, WidthIs
  <2>1. Seen(v)[p.c] = v.sub[p.c] /\ Width(p.c) = SlotsPerSector
    BY <2>0, SlotsAre DEF Seen
  <2> QED BY <1>2, <2>1 DEF Sited
<1> QED BY <1>1, <1>2

Wrote(v, p, s, w) ==
    /\ w \in Vols /\ w.fat = Io(v.fat) /\ Fat(w) = Fat(v) /\ w.fat.cf \in BOOLEAN
    /\ w.unread = v.unread /\ w.leaked = v.leaked
    /\ p.c = ROOT_CLUSTER => w.sub = v.sub
    /\ p.c = ROOT_CLUSTER \/ ~w.fat.cf => \A l : PutAt(Seen(v), Seen(w), l, p.c, p.i, s)
    /\ p.c # ROOT_CLUSTER /\ w.fat.cf => Seen(w) = Seen(v)
    /\ p.c # ROOT_CLUSTER => w.root = v.root /\ \A b \in Clusters : b # p.c => w.sub[b] = v.sub[b]
    /\ w.disk = IF p.c = ROOT_CLUSTER /\ ~w.fat.cf THEN w.root ELSE v.disk

(* write_dir_slot: in the root the slot is there even when its transfer    *)
(* fails, elsewhere only when it succeeds.                                 *)
LEMMA WriteSlotIs ==
  ASSUME NEW v \in Vols, NEW p, Sited(v, p), NEW s \in Slot
  PROVE  Wrote(v, p, s, WriteSlot(v, p, s))
<1> DEFINE t == Io(v.fat)
           w == WriteSlot(v, p, s)
<1>1. t \in Tables /\ View(t) = Fat(v) /\ t.cf \in BOOLEAN
  BY VolHas, IoIs DEF Fat
<1>2. /\ v.root \in Roots /\ v.disk \in Roots /\ v.sub \in Subs
  BY VolHas
<1>3. CASE p.c = ROOT_CLUSTER
  <2> DEFINE r == [v.root EXCEPT ![p.i] = s]
             k == IF t.cf THEN v.disk ELSE r
  <2>1. r \in Roots
    BY <1>2 DEF Roots
  <2>2. w = [v EXCEPT !.fat = t, !.root = r, !.disk = k]
    BY <1>3 DEF WriteSlot
  <2>3. k \in Roots
    BY <1>2, <2>1
  <2>4. r = [v.root EXCEPT ![p.i] = s]
    OBVIOUS
  <2>5. k = IF t.cf THEN v.disk ELSE r
    OBVIOUS
  <2> HIDE DEF t, w, r, k
  <2>6. w \in Vols /\ w.fat = t /\ w.root = r /\ w.disk = k /\ w.sub = v.sub /\ w.unread = v.unread
        /\ w.leaked = v.leaked
    BY <1>1, <2>1, <2>2, <2>3 DEF Vols
  <2>7. \A l : PutAt(Seen(v), Seen(w), l, p.c, p.i, s)
    <3>1. Seen(w)[ROOT_CLUSTER] = r /\ Seen(v)[ROOT_CLUSTER] = v.root
      BY <2>6, SlotsAre DEF Seen
    <3>2. \A b \in Cell : b # ROOT_CLUSTER => Seen(w)[b] = Seen(v)[b]
      BY <2>6, SlotsAre, CellsAre DEF Seen
    <3>3. \A l : \A b \in DirCells(l) : b \in Cell
      BY DEF DirCells
    <3> QED BY <1>3, <2>4, <3>1, <3>2, <3>3 DEF PutAt
  <2> QED BY <1>1, <1>3, <2>5, <2>6, <2>7 DEF Fat, t, w, Wrote
<1>4. CASE p.c # ROOT_CLUSTER
  <2>0. p.c \in Clusters /\ v.sub[p.c] \in [1 .. SlotsPerSector -> Slot] /\ p.i \in 1 .. SlotsPerSector
    BY <1>4, CellsAre DEF Sited
  <2> DEFINE x == IF t.cf THEN v.sub[p.c] ELSE [v.sub[p.c] EXCEPT ![p.i] = s]
             b == [v.sub EXCEPT ![p.c] = x]
  <2>1. w = [v EXCEPT !.fat = t, !.sub = b]
    BY <1>4, <2>0 DEF WriteSlot, Vols
  <2>2. x \in SubSlots
    BY <2>0 DEF SubSlots
  <2>3. b \in Subs /\ b[p.c] = x /\ \A c \in Clusters : c # p.c => b[c] = v.sub[c]
    <3> HIDE DEF x
    <3> QED BY <1>2, <2>0, <2>2 DEF Subs
  <2>4. x = IF t.cf THEN v.sub[p.c] ELSE [v.sub[p.c] EXCEPT ![p.i] = s]
    OBVIOUS
  <2> HIDE DEF t, w, b, x
  <2>6. w \in Vols /\ w.fat = t /\ w.root = v.root /\ w.disk = v.disk /\ w.sub = b /\ w.unread = v.unread
        /\ w.leaked = v.leaked
    BY <1>1, <2>1, <2>3 DEF Vols
  <2>7. /\ Seen(w)[ROOT_CLUSTER] = Seen(v)[ROOT_CLUSTER]
        /\ Seen(w)[p.c] = x /\ Seen(v)[p.c] = v.sub[p.c]
        /\ \A c \in Cell : c # p.c => Seen(w)[c] = Seen(v)[c]
        /\ Seen(w) = [c \in Cell |-> Seen(w)[c]] /\ Seen(v) = [c \in Cell |-> Seen(v)[c]]
    <3>1. /\ Seen(w)[ROOT_CLUSTER] = v.root /\ Seen(v)[ROOT_CLUSTER] = v.root
          /\ \A c \in Clusters : Seen(w)[c] = b[c] /\ Seen(v)[c] = v.sub[c]
      BY <2>6, SlotsAre DEF Seen
    <3>2. Seen(w) = [c \in Cell |-> Seen(w)[c]] /\ Seen(v) = [c \in Cell |-> Seen(v)[c]]
      BY DEF Seen, Slots
    <3> QED BY <2>0, <2>3, <3>1, <3>2, CellsAre
  <2>8. ~t.cf => \A l : PutAt(Seen(v), Seen(w), l, p.c, p.i, s)
    <3>1. \A l : \A c \in DirCells(l) : c \in Cell
      BY DEF DirCells
    <3> QED BY <2>4, <2>7, <3>1 DEF PutAt
  <2>9. t.cf => Seen(w) = Seen(v)
    BY <2>4, <2>7
  <2> QED BY <1>1, <1>4, <2>3, <2>6, <2>8, <2>9 DEF Fat, t, w, Wrote
<1> QED BY <1>3, <1>4

-----------------------------------------------------------------------------
(* Scans *)

(* The least of a set of numbers. *)
LEMMA MinIs ==
  ASSUME NEW S, S \subseteq Nat, S # {}
  PROVE  Min(S) \in S /\ \A y \in S : Min(S) <= y
<1> DEFINE R == {ss \in Nat \X Nat : ss[1] < ss[2]}
<1>1. IsWellFoundedOn(R, Nat)
  BY NatLessThanWellFounded DEF OpToRel
<1> HIDE DEF R
<1>2. PICK m \in S : \A y \in S : ~(<<y, m>> \in R)
  BY <1>1, WFMin
<1>3. \A y \in S : m <= y
  <2> SUFFICES ASSUME NEW y \in S PROVE m <= y
    OBVIOUS
  <2>1. m \in Nat /\ y \in Nat
    OBVIOUS
  <2>2. <<y, m>> \notin R
    BY <1>2
  <2>3. ~(y < m)
    BY <2>1, <2>2 DEF R
  <2> QED BY <2>1, <2>3
<1> QED BY <1>3 DEF Min

HitsIn(sought, slots, base) == {i \in DOMAIN slots : Stops(sought, slots[i], base + i - 1)}
FoundIn(sought, u, slots) == [u EXCEPT !.how = "found", !.i = Min(HitsIn(sought, slots, u.base))]
FollowTo(u, t) ==
    LET w == [u EXCEPT !.v.fat = t, !.v.unread = @ \/ t.cf]
    IN  IF t.ax \in Clusters THEN [w EXCEPT !.c = t.ax, !.base = @ + SlotsPerSector]
        ELSE [w EXCEPT !.how = IF t.ax = EOC THEN "end" ELSE "bad"]
LookAt(sought, u) ==
    IF u.v.fat.cf THEN [u EXCEPT !.how = "bad"]
    ELSE IF HitsIn(sought, u.v.sub[u.c], u.base) # {} THEN FoundIn(sought, u, u.v.sub[u.c])
    ELSE FollowTo(u, FatNext(u.v.fat, u.c))
ScanNext(sought, u) == IF u.how = "more" THEN LookAt(sought, [u EXCEPT !.v = ReadSector(@)]) ELSE u
ScanFirst(v, d) == [v |-> v, c |-> d, i |-> 0, base |-> 0, how |-> "more"]
ScanTurns(g, v, d, sought) ==
    g = [k \in 0 .. NClusters |-> IF k = 0 THEN ScanFirst(v, d) ELSE ScanNext(sought, g[k - 1])]

ScanStates == [v : Vols, c : Cell, i : Nat, base : Nat, how : {"more", "found", "end", "bad"}]

(* The types of a scan's state. *)
LEMMA ScanHas ==
  ASSUME NEW u \in ScanStates
  PROVE  u.v \in Vols /\ u.c \in Cell /\ u.i \in Nat /\ u.base \in Nat /\ u.how \in {"more", "found", "end", "bad"}
BY DEF ScanStates

(* Nothing in cell b is sought; nothing in directory d's cells before      *)
(* place k is.                                                             *)
NoStop(T, l, sought, b) == \A j \in 1 .. Width(b) : ~Stops(sought, T[b][j], Index(l, b, j) - 1)
NoneBefore(T, l, d, sought, k) == \A b \in Clusters : l.own[b] = d /\ l.pos[b] < k => NoStop(T, l, sought, b)

Scanned(v, l, d, sought, u, k) ==
    /\ u \in ScanStates /\ Reads(v, u.v) /\ u.c \in Clusters /\ l.own[u.c] = d
    /\ u.base = l.pos[u.c] * SlotsPerSector
    /\ u.how = "more" => l.pos[u.c] = k /\ NoneBefore(Seen(v), l, d, sought, k)
    /\ u.how = "found" =>
          /\ u.i \in 1 .. SlotsPerSector /\ Stops(sought, Seen(v)[u.c][u.i], Index(l, u.c, u.i) - 1)
          /\ NoneBefore(Seen(v), l, d, sought, l.pos[u.c])
          /\ \A j \in 1 .. SlotsPerSector : j < u.i => ~Stops(sought, Seen(v)[u.c][j], Index(l, u.c, j) - 1)
    /\ u.how = "end" =>
          u.v.unread \/ (Fat(v)[u.c] = EOC /\ NoneBefore(Seen(v), l, d, sought, l.pos[u.c] + 1))
    /\ u.how = "bad" => u.v.unread

(* One more cell of a subdirectory scanned. *)
LEMMA ScanNextIs ==
  ASSUME NEW v, NEW l, Fine(v, l), NEW d \in l.dirs \ {ROOT_CLUSTER}, NEW sought, NEW k \in Nat,
         NEW u, Scanned(v, l, d, sought, u, k)
  PROVE  Scanned(v, l, d, sought, ScanNext(sought, u), k + 1)
<1>0. /\ u \in ScanStates /\ Reads(v, u.v) /\ u.c \in Clusters /\ l.own[u.c] = d
      /\ u.base = l.pos[u.c] * SlotsPerSector /\ u.v \in Vols /\ u.base \in Nat /\ u.i \in Nat
  BY ScanHas DEF Scanned
<1>1. CASE u.how # "more"
  <2>1. ScanNext(sought, u) = u
    BY <1>1 DEF ScanNext
  <2> QED BY <1>1, <2>1 DEF Scanned
<1>2. CASE u.how = "more"
  <2> DEFINE r == ReadSector(u.v)
             w == [u EXCEPT !.v = r]
             T == Seen(v)
  <2>1. /\ r \in Vols /\ Reads(v, r) /\ r.fat.cf \in BOOLEAN /\ (r.fat.cf => r.unread)
        /\ Seen(r) = Seen(v) /\ Fat(r) = Fat(v) /\ r.fat \in Tables
    <3>1. Reads(u.v, r) /\ r.fat.cf \in BOOLEAN /\ (r.fat.cf => r.unread)
      BY <1>0, ReadSectorIs
    <3> HIDE DEF r
    <3>2. Reads(v, r)
      BY <1>0, <3>1, ReadsMore
    <3>3. r \in Vols /\ r.fat \in Tables
      BY <3>2, ReadsIs, VolHas
    <3> QED BY <3>1, <3>2, <3>3, ReadsIs
  <2> HIDE DEF r
  <2>2. /\ w \in ScanStates /\ w.v = r /\ w.c = u.c /\ w.i = u.i /\ w.base = u.base /\ w.how = "more"
        /\ w = [v |-> r, c |-> u.c, i |-> u.i, base |-> u.base, how |-> "more"]
    BY <1>0, <1>2, <2>1 DEF ScanStates
  <2>3. ScanNext(sought, u) = LookAt(sought, w)
    BY <1>2 DEF ScanNext, r
  <2>4. /\ l \in Layouts /\ l.pos[u.c] = k /\ NoneBefore(T, l, d, sought, k) /\ u.c \in DirCells(l) /\ d \in l.dirs
        /\ T[u.c] = r.sub[u.c] /\ T[u.c] \in [1 .. SlotsPerSector -> Slot] /\ Width(u.c) = SlotsPerSector
        /\ \A j \in 1 .. SlotsPerSector : w.base + j = Index(l, u.c, j) /\ j \in Nat
    <3>1. l.pos[u.c] = k /\ NoneBefore(T, l, d, sought, k)
      BY <1>2 DEF Scanned
    <3>2. u.c \in DirCells(l) /\ u.c \in Cell /\ u.c # ROOT_CLUSTER
      BY <1>0, CellsAre DEF DirCells
    <3>3. T[u.c] = r.sub[u.c]
      BY <1>0, <2>1, SlotsAre DEF Seen
    <3>4. Width(u.c) = SlotsPerSector /\ SlotsPerSector \in Nat
      BY <3>2, WidthIs, Constants
    <3>5. T[u.c] \in [1 .. SlotsPerSector -> Slot] /\ l \in Layouts
      BY <3>2, <3>4, GoodHas DEF Fine
    <3>6. \A j \in 1 .. SlotsPerSector : w.base + j = Index(l, u.c, j) /\ j \in Nat
      BY <1>0, <2>2 DEF Index
    <3> QED BY <3>1, <3>2, <3>3, <3>4, <3>5, <3>6
  <2> HIDE DEF w
  <2> DEFINE S == HitsIn(sought, r.sub[u.c], w.base)
  <2>5. /\ S \subseteq 1 .. SlotsPerSector
        /\ \A j \in 1 .. SlotsPerSector : j \in S <=> Stops(sought, T[u.c][j], Index(l, u.c, j) - 1)
    <3>1. DOMAIN r.sub[u.c] = 1 .. SlotsPerSector
      BY <2>4
    <3>2. \A j \in 1 .. SlotsPerSector : w.base + j - 1 = Index(l, u.c, j) - 1
      BY <1>0, <2>2, <2>4
    <3> QED BY <2>4, <3>1, <3>2 DEF HitsIn
  <2> HIDE DEF S
  <2>6. CASE r.fat.cf
    <3> DEFINE x == [w EXCEPT !.how = "bad"]
    <3>1. LookAt(sought, w) = x
      BY <2>2, <2>6 DEF LookAt
    <3>2. x \in ScanStates /\ x.v = r /\ x.c = u.c /\ x.base = u.base /\ x.how = "bad"
      BY <2>2 DEF ScanStates
    <3> QED BY <1>0, <2>1, <2>3, <2>6, <3>1, <3>2 DEF Scanned
  <2>7. CASE ~r.fat.cf /\ S # {}
    <3> DEFINE x == [w EXCEPT !.how = "found", !.i = Min(S)]
    <3>1. LookAt(sought, w) = x
      BY <2>2, <2>7 DEF LookAt, FoundIn, S
    <3>2. S \subseteq Nat
      BY <2>5
    <3>3. Min(S) \in S /\ \A y \in S : Min(S) <= y
      BY <2>7, <3>2, MinIs
    <3>4. Min(S) \in 1 .. SlotsPerSector /\ Min(S) \in Nat
      <4> DEFINE y == Min(S)
      <4>1. y \in S
        BY <3>3
      <4> HIDE DEF y
      <4>2. y \in 1 .. SlotsPerSector
        BY <2>5, <4>1
      <4> QED BY <4>2, Constants DEF y
    <3>5. x \in ScanStates /\ x.v = r /\ x.c = u.c /\ x.base = u.base /\ x.how = "found" /\ x.i = Min(S)
      BY <2>2, <3>4 DEF ScanStates
    <3>6. \A j \in 1 .. SlotsPerSector : j < x.i => ~Stops(sought, T[u.c][j], Index(l, u.c, j) - 1)
      <4> SUFFICES ASSUME NEW j \in 1 .. SlotsPerSector, j < Min(S), j \in S PROVE FALSE
        BY <2>5, <3>5
      <4> QED BY <3>3, <3>4
    <3> HIDE DEF x
    <3> QED BY <1>0, <2>1, <2>3, <2>4, <2>5, <3>1, <3>3, <3>4, <3>5, <3>6 DEF Scanned
  <2>8. CASE ~r.fat.cf /\ S = {}
    <3> DEFINE t == FatNext(r.fat, u.c)
               m == Marked(r, t)
               y == [w EXCEPT !.v.fat = t, !.v.unread = @ \/ t.cf]
    <3>1. /\ Kept(r.fat, t) /\ t.cf \in BOOLEAN /\ (t.cf => t.ax = EOC /\ Broken(t))
          /\ (~t.cf => t.ax = Fat(v)[u.c])
      BY <1>0, <2>1, FatNextIs DEF Fat
    <3>2. LookAt(sought, w) = FollowTo(w, t)
      BY <2>2, <2>8 DEF LookAt, S
    <3> HIDE DEF t
    <3>3. Reads(r, m) /\ (t.cf => m.unread) /\ m \in Vols
      BY <2>1, <3>1, MarkedIs, ReadsIs
    <3>4. Reads(v, m)
      BY <2>1, <3>3, ReadsMore
    <3>5. y = [w EXCEPT !.v = m]
      BY <2>1, <2>2 DEF Marked, Vols
    <3> HIDE DEF m, y
    <3>6. /\ y \in ScanStates /\ y.v = m /\ y.c = u.c /\ y.base = u.base /\ y.how = "more" /\ y.i = u.i
      BY <2>2, <3>3, <3>5 DEF ScanStates
    <3>7. NoneBefore(T, l, d, sought, k + 1)
      <4> SUFFICES ASSUME NEW b \in Clusters, l.own[b] = d, l.pos[b] < k + 1 PROVE NoStop(T, l, sought, b)
        BY DEF NoneBefore
      <4>1. l.pos[b] \in Nat
        BY <2>4, LayoutHas, CellsAre
      <4>2. CASE l.pos[b] < k
        BY <2>4, <4>2 DEF NoneBefore
      <4>3. CASE ~(l.pos[b] < k)
        <5>1. l.pos[b] = l.pos[u.c] /\ l.own[b] = l.own[u.c] /\ l.own[b] # Nobody
          <6>1. l.pos[b] = k
            BY <4>1, <4>3
          <6>2. d # Nobody
            BY <2>4, LayoutHas, CellsAre
          <6> QED BY <1>0, <2>4, <6>1, <6>2
        <5>2. b = u.c
          BY <1>0, <5>1 DEF Fine, Good, GoodChains
        <5> QED BY <2>4, <2>5, <2>8, <5>2 DEF NoStop
      <4> QED BY <4>2, <4>3
    <3>8. CASE t.ax \in Clusters
      <4> DEFINE x == [y EXCEPT !.c = t.ax, !.base = y.base + SlotsPerSector]
      <4>1. FollowTo(w, t) = x
        BY <3>6, <3>8 DEF FollowTo, y, ScanStates
      <4>2. t.ax = Fat(v)[u.c] /\ t.ax \in Cell
        BY <3>1, <3>8, ClustersAre, CellsAre
      <4>3. l.own[u.c] # Nobody
        BY <1>0, <2>4, LayoutHas, CellsAre
      <4>4. l.own[t.ax] = d /\ l.pos[t.ax] = k + 1
        BY <1>0, <2>4, <3>8, <4>2, <4>3, ClustersAre DEF Fine, Good, GoodChains
      <4>5. y.base + SlotsPerSector \in Nat /\ y.base + SlotsPerSector = l.pos[t.ax] * SlotsPerSector
        <5>1. (k + 1) * SlotsPerSector = k * SlotsPerSector + SlotsPerSector
          BY Constants
        <5> QED BY <1>0, <2>4, <3>6, <4>4, <5>1, Constants
      <4>6. /\ x \in ScanStates /\ x.v = m /\ x.c = t.ax /\ x.base = y.base + SlotsPerSector /\ x.how = "more"
        BY <3>6, <4>2, <4>5 DEF ScanStates
      <4> HIDE DEF x
      <4> QED BY <2>3, <3>2, <3>4, <3>7, <3>8, <4>1, <4>4, <4>5, <4>6 DEF Scanned
    <3>9. CASE t.ax \notin Clusters
      <4> DEFINE h == IF t.ax = EOC THEN "end" ELSE "bad"
                 x == [y EXCEPT !.how = h]
      <4>1. FollowTo(w, t) = x
        BY <3>6, <3>9 DEF FollowTo, y, ScanStates
      <4>2. h \in {"end", "bad"} /\ (h = "end" <=> t.ax = EOC)
        OBVIOUS
      <4> HIDE DEF h
      <4>3. x \in ScanStates /\ x.v = m /\ x.c = u.c /\ x.base = u.base /\ x.how = h
        BY <3>6, <4>2 DEF ScanStates
      <4> HIDE DEF x
      <4>4. ~m.unread => t.ax = Fat(v)[u.c]
        BY <3>1, <3>3
      <4>5. l.own[u.c] # Nobody
        BY <1>0, <2>4, LayoutHas, CellsAre
      <4>6. Fat(v)[u.c] = EOC \/ Fat(v)[u.c] \in Clusters
        BY <1>0, <4>5 DEF Fine, Good, GoodChains
      <4>7. h = "bad" => m.unread
        BY <3>9, <4>2, <4>4, <4>6
      <4>8. h = "end" => m.unread \/ (Fat(v)[u.c] = EOC /\ NoneBefore(T, l, d, sought, l.pos[u.c] + 1))
        BY <2>4, <3>7, <4>2, <4>4
      <4> QED BY <1>0, <2>3, <3>2, <3>4, <4>1, <4>2, <4>3, <4>7, <4>8 DEF Scanned
    <3> QED BY <3>8, <3>9
  <2> QED BY <2>1, <2>6, <2>7, <2>8
<1> QED BY <1>1, <1>2

-----------------------------------------------------------------------------
(* What a scan ends with: the first slot that is sought, or none is there,  *)
(* or a sector could not be read.                                          *)
NoStopIn(T, l, d, sought) == \A b \in DirCells(l) : l.own[b] = d => NoStop(T, l, sought, b)
FirstStop(T, l, sought, c, i) ==
    /\ Stops(sought, T[c][i], Index(l, c, i) - 1)
    /\ \A b \in DirCells(l) : l.own[b] = l.own[c] => \A j \in 1 .. Width(b) :
          Index(l, b, j) < Index(l, c, i) => ~Stops(sought, T[b][j], Index(l, b, j) - 1)

ScanDone(v, l, d, sought, r) ==
    /\ r \in ScanStates /\ Reads(v, r.v) /\ r.c \in DirCells(l) /\ l.own[r.c] = d
    /\ r.how \in {"found", "end", "bad"}
    /\ r.how = "found" => /\ r.i \in 1 .. Width(r.c) /\ r.base + r.i = Index(l, r.c, r.i)
                          /\ FirstStop(Seen(v), l, sought, r.c, r.i)
    /\ r.how = "end" => \/ r.v.unread
                        \/ /\ NoStopIn(Seen(v), l, d, sought)
                           /\ d # ROOT_CLUSTER => r.c \in Clusters /\ Fat(v)[r.c] = EOC
    /\ r.how = "bad" => r.v.unread

(* A scan of the root directory. *)
LEMMA ScanRootIs ==
  ASSUME NEW v, NEW l, Fine(v, l), NEW sought
  PROVE  ScanDone(v, l, ROOT_CLUSTER, sought, Scan(v, ROOT_CLUSTER, sought))
<1> DEFINE d == ROOT_CLUSTER
           r == Scan(v, d, sought)
           S == HitsIn(sought, v.root, 0)
           T == Seen(v)
<1>1. /\ v \in Vols /\ v.root \in [1 .. RootSlots -> Slot] /\ T[d] = v.root
  BY VolHas, SlotsAre DEF Fine, Roots, Seen
<1>2. /\ l \in Layouts /\ l.own[d] = d /\ l.pos[d] = 0 /\ d \in DirCells(l) /\ d \in l.dirs
      /\ \A b \in DirCells(l) : l.own[b] = d => b = d
  <2>1. GoodChains(Fat(v), l) /\ d \in l.dirs
    BY GoodHas DEF Fine, Good
  <2>2. CellsOf(l, d) = {d} /\ d \in DirCells(l) /\ l.pos[d] = 0
    BY <2>1, CellsOfIs
  <2>3. \A b \in DirCells(l) : l.own[b] = d => b \in CellsOf(l, d)
    BY DEF DirCells, CellsOf
  <2> QED BY <2>1, <2>2, <2>3 DEF GoodChains
<1>3. Width(d) = RootSlots /\ RootSlots \in Nat /\ SlotsPerSector \in Nat
  BY Constants DEF Width
<1>4. \A j \in 1 .. RootSlots : Index(l, d, j) = j /\ j \in Nat
  BY <1>2, <1>3 DEF Index
<1>5. /\ S \subseteq 1 .. RootSlots
      /\ \A j \in 1 .. RootSlots : j \in S <=> Stops(sought, T[d][j], Index(l, d, j) - 1)
  <2>1. DOMAIN v.root = 1 .. RootSlots
    BY <1>1
  <2>2. \A j \in 1 .. RootSlots : 0 + j - 1 = Index(l, d, j) - 1
    BY <1>4
  <2> QED BY <1>1, <2>1, <2>2 DEF HitsIn
<1>6. ScanFirst(v, d) \in ScanStates /\ Reads(v, v)
  BY <1>1, ReadsSelf, CellsAre DEF ScanFirst, ScanStates
<1>7. r = IF S # {} THEN FoundIn(sought, ScanFirst(v, d), v.root) ELSE [ScanFirst(v, d) EXCEPT !.how = "end"]
  BY DEF Scan, ScanFirst, FoundIn, HitsIn
<1> HIDE DEF S, T
<1>8. CASE S # {}
  <2> DEFINE m == Min(S)
  <2>1. S \subseteq Nat
    BY <1>5
  <2>2. m \in S /\ \A y \in S : m <= y
    BY <1>8, <2>1, MinIs
  <2> HIDE DEF m
  <2>3. m \in 1 .. RootSlots /\ m \in Nat
    BY <1>3, <1>5, <2>2
  <2>4. r = [v |-> v, c |-> d, i |-> m, base |-> 0, how |-> "found"]
    BY <1>7, <1>8 DEF FoundIn, ScanFirst, S, m
  <2>5. /\ r \in ScanStates /\ r.v = v /\ r.c = d /\ r.i = m /\ r.base = 0 /\ r.how = "found"
    BY <1>1, <2>3, <2>4, CellsAre DEF ScanStates
  <2>6. \A j \in 1 .. RootSlots : j < m => ~Stops(sought, T[d][j], Index(l, d, j) - 1)
    <3> SUFFICES ASSUME NEW j \in 1 .. RootSlots, j < m, j \in S PROVE FALSE
      BY <1>5
    <3> QED BY <2>2, <2>3
  <2>7. FirstStop(T, l, sought, d, m)
    <3>1. Stops(sought, T[d][m], Index(l, d, m) - 1)
      BY <1>5, <2>2, <2>3
    <3>2. \A j \in 1 .. RootSlots : Index(l, d, j) < Index(l, d, m) => j < m
      BY <1>4, <2>3
    <3> QED BY <1>2, <1>3, <2>6, <3>1, <3>2 DEF FirstStop
  <2>8. r.base + r.i = Index(l, r.c, r.i) /\ r.i \in 1 .. Width(r.c)
    BY <1>3, <1>4, <2>3, <2>5
  <2> HIDE DEF r
  <2> HIDE DEF d
  <2>9. Reads(v, r.v) /\ r.c \in DirCells(l) /\ l.own[r.c] = d /\ FirstStop(Seen(v), l, sought, r.c, r.i)
    BY <1>2, <1>6, <2>5, <2>7 DEF T
  <2>10. ScanDone(v, l, d, sought, r)
    BY <2>5, <2>8, <2>9 DEF ScanDone
  <2> QED BY <2>10 DEF d, r
<1>9. CASE S = {}
  <2>1. r = [v |-> v, c |-> d, i |-> 0, base |-> 0, how |-> "end"]
    BY <1>7, <1>9 DEF ScanFirst
  <2>2. /\ r \in ScanStates /\ r.v = v /\ r.c = d /\ r.how = "end"
    BY <1>1, <2>1, CellsAre DEF ScanStates
  <2>3. NoStopIn(T, l, d, sought)
    BY <1>2, <1>3, <1>5, <1>9 DEF NoStopIn, NoStop
  <2> HIDE DEF r
  <2>4. Reads(v, r.v) /\ r.c \in DirCells(l) /\ l.own[r.c] = d /\ NoStopIn(Seen(v), l, d, sought)
    BY <1>2, <1>6, <2>2, <2>3 DEF T
  <2>5. ScanDone(v, l, d, sought, r)
    BY <2>2, <2>4 DEF ScanDone
  <2> QED BY <2>5 DEF r
<1> QED BY <1>8, <1>9

(* A scan of a subdirectory after as many turns as there are clusters. *)
LEMMA ScanTurnsIs ==
  ASSUME NEW v, NEW l, Fine(v, l), NEW d \in l.dirs \ {ROOT_CLUSTER}, NEW sought
  PROVE  Scanned(v, l, d, sought, Scan(v, d, sought), NClusters)
<1>0. NClusters \in Nat
  BY ClustersFinite
<1> DEFINE h == CHOOSE g : ScanTurns(g, v, d, sought)
<1>1. Scan(v, d, sought) = h[NClusters]
  BY DEF Scan, ScanTurns, ScanFirst, ScanNext, LookAt, FoundIn, FollowTo, HitsIn, NClusters
<1> DEFINE S == [x \in ScanStates \X (1 .. NClusters) |-> ScanNext(sought, x[1])]
           X == {x \in (0 .. NClusters) \X ScanStates : Scanned(v, l, d, sought, x[2], x[1])}
           b == ScanFirst(v, d)
<1>2. Scanned(v, l, d, sought, b, 0) /\ b \in ScanStates
  <2>1. v \in Vols /\ Reads(v, v)
    BY ReadsSelf DEF Fine
  <2>2. d \in Clusters /\ d \in Cell /\ l.own[d] = d /\ l.pos[d] = 0
    <3>1. GoodChains(Fat(v), l)
      BY DEF Fine, Good
    <3> QED BY <3>1, CellsOfIs DEF GoodChains
  <2>3. b = [v |-> v, c |-> d, i |-> 0, base |-> 0, how |-> "more"]
    BY DEF ScanFirst
  <2> HIDE DEF b
  <2>4. b \in ScanStates /\ b.v = v /\ b.c = d /\ b.base = 0 /\ b.how = "more"
    BY <2>1, <2>2, <2>3 DEF ScanStates
  <2>5. NoneBefore(Seen(v), l, d, sought, 0)
    <3>1. \A a \in Clusters : l.pos[a] \in Nat
      BY LayoutHas, GoodHas, CellsAre DEF Fine
    <3> QED BY <3>1 DEF NoneBefore
  <2>6. 0 = 0 * SlotsPerSector
    BY Constants
  <2> QED BY <2>1, <2>2, <2>4, <2>5, <2>6 DEF Scanned
<1>3. ASSUME NEW k \in 0 + 1 .. NClusters, NEW x, <<k - 1, x>> \in X
      PROVE  <<k, S[<<x, k>>]>> \in X /\ S[<<x, k>>] = ScanNext(sought, x)
  <2>1. Scanned(v, l, d, sought, x, k - 1) /\ x \in ScanStates /\ k - 1 \in Nat /\ k \in 1 .. NClusters
        /\ k \in 0 .. NClusters /\ (k - 1) + 1 = k
    BY <1>0, <1>3
  <2>2. S[<<x, k>>] = ScanNext(sought, x)
    BY <2>1
  <2>3. Scanned(v, l, d, sought, ScanNext(sought, x), (k - 1) + 1)
    BY <2>1, ScanNextIs
  <2>4. ScanNext(sought, x) \in ScanStates
    BY <2>3 DEF Scanned
  <2> HIDE DEF S
  <2> QED BY <2>1, <2>2, <2>3, <2>4
<1> HIDE DEF X, S, b
<1>4. PICK g : Turns(g, X, 0, NClusters, b, S)
  <2>1. \A k \in 0 + 1 .. NClusters : \A x : <<k - 1, x>> \in X => <<k, S[<<x, k>>]>> \in X
    BY <1>3
  <2>2. 0 \in Nat /\ NClusters \in Nat /\ 0 <= NClusters
    BY <1>0
  <2>3. <<0, b>> \in X
    BY <1>0, <1>2 DEF X
  <2> QED BY <2>1, <2>2, <2>3, TurnsExist
<1>5. ScanTurns(g, v, d, sought)
  <2>1. \A k \in 0 + 1 .. NClusters : g[k] = ScanNext(sought, g[k - 1])
    <3> SUFFICES ASSUME NEW k \in 0 + 1 .. NClusters PROVE g[k] = ScanNext(sought, g[k - 1])
      OBVIOUS
    <3>1. k - 1 \in 0 .. NClusters
      BY <1>0
    <3>2. <<k - 1, g[k - 1]>> \in X /\ g[k] = S[<<g[k - 1], k>>]
      BY <1>4, <3>1 DEF Turns
    <3> QED BY <1>3, <3>2
  <2>2. g = [k \in 0 .. NClusters |-> g[k]] /\ g[0] = b
    BY <1>4 DEF Turns
  <2>3. \A k \in 0 .. NClusters : k # 0 => k \in 0 + 1 .. NClusters
    BY <1>0
  <2> QED BY <2>1, <2>2, <2>3 DEF ScanTurns, b
<1>6. ScanTurns(h, v, d, sought)
  BY <1>5
<1> HIDE DEF h
<1> DEFINE I == {k \in 0 .. NClusters : Scanned(v, l, d, sought, h[k], k)}
<1>7. 0 \in I
  <2>1. h[0] = b
    BY <1>0, <1>6 DEF ScanTurns, b
  <2> QED BY <1>0, <1>2, <2>1
<1>8. ASSUME NEW k \in 0 + 1 .. NClusters, k - 1 \in I PROVE k \in I
  <2>1. k \in 0 .. NClusters /\ k # 0 /\ k - 1 \in Nat /\ (k - 1) + 1 = k
    BY <1>0
  <2>2. h[k] = ScanNext(sought, h[k - 1])
    BY <1>6, <2>1 DEF ScanTurns
  <2>3. Scanned(v, l, d, sought, h[k - 1], k - 1)
    BY <1>8
  <2>4. Scanned(v, l, d, sought, ScanNext(sought, h[k - 1]), (k - 1) + 1)
    BY <2>1, <2>3, ScanNextIs
  <2> QED BY <2>1, <2>2, <2>4
<1> HIDE DEF I
<1>9. NClusters \in I
  <2>1. \A k \in 0 .. NClusters : k \in I
    BY <1>0, <1>7, <1>8, Upwards
  <2> QED BY <1>0, <2>1
<1> QED BY <1>1, <1>9 DEF I

(* A scan ends at the first slot that is sought, or at the end if there is *)
(* none, or a read failed.                                                 *)
LEMMA ScanIs ==
  ASSUME NEW v, NEW l, Fine(v, l), NEW d \in l.dirs, NEW sought
  PROVE  ScanDone(v, l, d, sought, Scan(v, d, sought))
<1>1. CASE d = ROOT_CLUSTER
  BY <1>1, ScanRootIs
<1>2. CASE d # ROOT_CLUSTER
  <2> DEFINE r == Scan(v, d, sought)
             T == Seen(v)
  <2>0. Scanned(v, l, d, sought, r, NClusters)
    BY <1>2, ScanTurnsIs
  <2> HIDE DEF r
  <2>1. /\ r \in ScanStates /\ Reads(v, r.v) /\ r.c \in Clusters /\ l.own[r.c] = d
        /\ r.base = l.pos[r.c] * SlotsPerSector /\ r.i \in Nat /\ r.how \in {"more", "found", "end", "bad"}
    BY <2>0, ScanHas DEF Scanned
  <2>2. GoodChains(Fat(v), l) /\ l \in Layouts
    BY GoodHas DEF Fine, Good
  <2>3. /\ r.c \in DirCells(l) /\ Width(r.c) = SlotsPerSector
        /\ \A b \in DirCells(l) : l.own[b] = d => /\ b \in Clusters /\ Width(b) = SlotsPerSector
                                                  /\ l.pos[b] \in Nat /\ l.pos[b] < NClusters
    <3>1. \A b \in DirCells(l) : l.own[b] = d => b \in CellsOf(l, d)
      BY DEF DirCells, CellsOf
    <3>2. r.c \in DirCells(l)
      BY <2>1, CellsAre DEF DirCells
    <3>3. \A b \in CellsOf(l, d) : b \in Clusters /\ l.pos[b] \in Nat /\ l.pos[b] < NClusters
      BY <1>2, <2>2, CellsOfIs
    <3>4. \A b \in Clusters : Width(b) = SlotsPerSector
      BY CellsAre, WidthIs
    <3> QED BY <2>1, <3>1, <3>2, <3>3, <3>4
  <2>4. r.how # "more"
    <3> SUFFICES ASSUME r.how = "more" PROVE FALSE
      OBVIOUS
    <3>1. l.pos[r.c] = NClusters
      BY <2>0 DEF Scanned
    <3> QED BY <2>1, <2>3, <3>1, ClustersFinite
  <2>5. ASSUME r.how = "found"
        PROVE  /\ r.i \in 1 .. Width(r.c) /\ r.base + r.i = Index(l, r.c, r.i)
               /\ FirstStop(T, l, sought, r.c, r.i)
    <3>1. /\ r.i \in 1 .. SlotsPerSector /\ Stops(sought, T[r.c][r.i], Index(l, r.c, r.i) - 1)
          /\ NoneBefore(T, l, d, sought, l.pos[r.c])
          /\ \A j \in 1 .. SlotsPerSector : j < r.i => ~Stops(sought, T[r.c][j], Index(l, r.c, j) - 1)
      BY <2>0, <2>5 DEF Scanned
    <3>2. r.i \in 1 .. Width(r.c)
      BY <2>3, <3>1
    <3>3. r.base + r.i = Index(l, r.c, r.i)
      BY <2>1 DEF Index
    <3>4. ASSUME NEW b \in DirCells(l), l.own[b] = l.own[r.c], NEW j \in 1 .. Width(b),
                 Index(l, b, j) < Index(l, r.c, r.i)
          PROVE  ~Stops(sought, T[b][j], Index(l, b, j) - 1)
      <4>1. l.pos[b] < l.pos[r.c] \/ (b = r.c /\ j < r.i)
        BY <2>3, <3>2, <3>4, IndexIs DEF Fine
      <4>2. b \in Clusters /\ l.own[b] = d /\ Width(b) = SlotsPerSector
        BY <2>1, <2>3, <3>4
      <4>3. CASE l.pos[b] < l.pos[r.c]
        BY <3>1, <4>2, <4>3 DEF NoneBefore, NoStop
      <4>4. CASE b = r.c /\ j < r.i
        BY <3>1, <4>2, <4>4
      <4> QED BY <4>1, <4>3, <4>4
    <3> QED BY <3>1, <3>2, <3>3, <3>4 DEF FirstStop
  <2>6. ASSUME r.how = "end", ~r.v.unread
        PROVE  NoStopIn(T, l, d, sought) /\ Fat(v)[r.c] = EOC
    <3>1. Fat(v)[r.c] = EOC /\ NoneBefore(T, l, d, sought, l.pos[r.c] + 1)
      BY <2>0, <2>6 DEF Scanned
    <3>2. l.own[r.c] # Nobody
      BY <2>1, <2>2, LayoutHas, CellsAre
    <3>3. \A b \in Clusters : l.own[b] = l.own[r.c] => l.pos[b] <= l.pos[r.c]
      BY <2>1, <2>2, <3>1, <3>2, LastIs
    <3>4. ASSUME NEW b \in DirCells(l), l.own[b] = d PROVE NoStop(T, l, sought, b)
      <4>1. b \in Clusters /\ l.pos[b] \in Nat /\ l.pos[r.c] \in Nat /\ l.pos[b] <= l.pos[r.c]
        BY <2>1, <2>3, <3>3, <3>4
      <4>2. l.pos[b] < l.pos[r.c] + 1
        BY <4>1
      <4> QED BY <3>1, <3>4, <4>1, <4>2 DEF NoneBefore
    <3> QED BY <3>1, <3>4 DEF NoStopIn
  <2>7. r.how = "bad" => r.v.unread
    BY <2>0 DEF Scanned
  <2>8. r.how \in {"found", "end", "bad"}
    BY <2>1, <2>4
  <2>9. r.how = "end" => \/ r.v.unread
                         \/ /\ NoStopIn(T, l, d, sought)
                            /\ d # ROOT_CLUSTER => r.c \in Clusters /\ Fat(v)[r.c] = EOC
    BY <2>1, <2>6
  <2> HIDE DEF T
  <2>10. ScanDone(v, l, d, sought, r)
    BY <2>1, <2>3, <2>5, <2>7, <2>8, <2>9 DEF ScanDone, T
  <2> QED BY <2>10 DEF r
<1> QED BY <1>1, <1>2

-----------------------------------------------------------------------------
(* find_in_dir and dir_is_empty *)

Results == [v : Vols, c : Cell, i : Nat, base : Nat,
            how : {"more", "found", "end", "bad", "none", "full", "empty", "used"}]

(* The types of a scan's result. *)
LEMMA ResultHas ==
  ASSUME NEW r \in ScanStates, NEW h \in {"none", "full", "empty", "used"}
  PROVE  /\ r \in Results
         /\ [r EXCEPT !.how = h] \in Results
         /\ [r EXCEPT !.how = h].v = r.v /\ [r EXCEPT !.how = h].c = r.c
         /\ [r EXCEPT !.how = h].i = r.i /\ [r EXCEPT !.how = h].how = h
BY DEF Results, ScanStates

(* Behind an unused slot nothing is sought but unused ones. *)
LEMMA NoneBehind ==
  ASSUME NEW T, NEW F, NEW l, Good(T, F, l), NEW sought, NEW c \in DirCells(l), NEW i \in 1 .. Width(c),
         FirstStop(T, l, sought, c, i), T[c][i].is = "unused"
  PROVE  \A b \in DirCells(l) : l.own[b] = l.own[c] => \A j \in 1 .. Width(b) :
            T[b][j].is # "unused" => ~Stops(sought, T[b][j], Index(l, b, j) - 1)
<1> SUFFICES ASSUME NEW b \in DirCells(l), l.own[b] = l.own[c], NEW j \in 1 .. Width(b), T[b][j].is # "unused"
             PROVE  ~Stops(sought, T[b][j], Index(l, b, j) - 1)
  OBVIOUS
<1>1. Index(l, b, j) \in Nat /\ Index(l, c, i) \in Nat /\ (Index(l, b, j) = Index(l, c, i) => b = c /\ i = j)
  BY IndexIs
<1>2. ~(Index(l, c, i) < Index(l, b, j))
  BY NamesHas
<1>3. Index(l, b, j) # Index(l, c, i)
  BY <1>1
<1>4. Index(l, b, j) < Index(l, c, i)
  BY <1>1, <1>2, <1>3
<1> QED BY <1>4 DEF FirstStop

(* What a scan for kinds of slots stops at. *)
LEMMA KindsStop ==
  ASSUME NEW ks, NEW s, NEW k
  PROVE  Stops(Kinds(ks), s, k) <=> s.is \in ks
BY DEF Stops, Kinds

(* What a scan for names stops at. *)
LEMMA NamedStop ==
  ASSUME NEW ns, NEW from, NEW s, NEW k
  PROVE  Stops(Named(ns, from), s, k) <=> s.is = "unused" \/ (k >= from /\ Live(s) /\ s.name \in ns)
BY DEF Stops, Named

(* A live slot with a proper name is an entry. *)
LEMMA LiveIs ==
  \A s \in Slot : /\ Live(s) /\ s.name \in Names => IsEntry(s)
                  /\ IsEntry(s) => Live(s) /\ s.is # "unused" /\ s.name \in Names
                  /\ s.is = "unused" => ~Live(s)
BY SlotHas, Constants DEF Live, IsEntry, Dots, Kind

FindDone(v, l, d, n, r) ==
    /\ Reads(v, r.v)
    /\ r.how = "found" => /\ r.c \in DirCells(l) /\ l.own[r.c] = d /\ r.i \in 1 .. Width(r.c)
                          /\ IsEntry(Seen(v)[r.c][r.i]) /\ Seen(v)[r.c][r.i].name = n
                          /\ SlotAt(r) = Seen(v)[r.c][r.i]
    /\ r.how # "found" => r.v.unread \/ NoneNamed(Seen(v), l, d, n)

(* The slot a scan stopped at is one of the volume. *)
LEMMA SlotAtIs ==
  ASSUME NEW v, NEW r, Reads(v, r.v), r.c \in Cell
  PROVE  SlotAt(r) = Seen(v)[r.c][r.i]
<1>1. SlotAt(r) = Seen(r.v)[r.c][r.i]
  <2> DEFINE p == Place(r.c, r.i)
  <2>1. p.c = r.c /\ p.i = r.i
    BY DEF Place
  <2>2. SlotAt(r) = At(r.v, p)
    BY DEF SlotAt, PlaceOf
  <2> HIDE DEF p
  <2> QED BY <2>1, <2>2, SeenAt
<1> QED BY <1>1, ReadsIs

(* find_in_dir finds the entry of a name, or there is none, or a read      *)
(* failed.                                                                 *)
LEMMA FindInDirIs ==
  ASSUME NEW v, NEW l, Fine(v, l), NEW d \in l.dirs, NEW n \in Names
  PROVE  FindDone(v, l, d, n, FindInDir(v, d, n))
<1> DEFINE q == Scan(v, d, Named({n}, 0))
           r == FindInDir(v, d, n)
           T == Seen(v)
<1>1. ScanDone(v, l, d, Named({n}, 0), q)
  BY ScanIs
<1>2. r = IF q.how = "found" /\ Live(SlotAt(q)) THEN q ELSE [q EXCEPT !.how = "none"]
  BY DEF FindInDir
<1> SUFFICES FindDone(v, l, d, n, r)
  OBVIOUS
<1> HIDE DEF q, r, T
<1>3. q \in ScanStates /\ Reads(v, q.v) /\ q.c \in DirCells(l) /\ q.c \in Cell /\ l.own[q.c] = d
      /\ q.how \in {"found", "end", "bad"}
  BY <1>1 DEF ScanDone, DirCells
<1>4. SlotAt(q) = T[q.c][q.i]
  BY <1>3, SlotAtIs DEF T
<1>5. /\ \A b \in DirCells(l) : \A i \in 1 .. Width(b) : T[b][i] \in Slot /\ Index(l, b, i) - 1 >= 0
  <2>1. ASSUME NEW b \in DirCells(l), NEW i \in 1 .. Width(b) PROVE Index(l, b, i) - 1 >= 0
    <3>1. Index(l, b, i) \in Nat /\ Index(l, b, i) > 0
      BY IndexIs DEF Fine
    <3> QED BY <3>1
  <2> QED BY <2>1, GoodHas DEF Fine, T
<1>6. CASE q.how = "found" /\ Live(SlotAt(q))
  <2>1. r = q
    BY <1>2, <1>6
  <2>2. q.i \in 1 .. Width(q.c) /\ FirstStop(T, l, Named({n}, 0), q.c, q.i)
    BY <1>1, <1>6 DEF ScanDone, T
  <2>3. T[q.c][q.i] \in Slot /\ Live(T[q.c][q.i])
    BY <1>3, <1>4, <1>5, <1>6, <2>2
  <2>4. T[q.c][q.i].name = n
    BY <2>2, <2>3, LiveIs, NamedStop DEF FirstStop
  <2>5. IsEntry(T[q.c][q.i])
    BY <2>3, <2>4, LiveIs
  <2> QED BY <1>3, <1>4, <1>6, <2>1, <2>2, <2>4, <2>5 DEF FindDone, T
<1>7. CASE ~(q.how = "found" /\ Live(SlotAt(q)))
  <2>1. r.v = q.v /\ r.how = "none"
    BY <1>2, <1>3, <1>7, ResultHas
  <2>2. CASE q.how = "found"
    <3>1. q.i \in 1 .. Width(q.c) /\ FirstStop(T, l, Named({n}, 0), q.c, q.i)
      BY <1>1, <2>2 DEF ScanDone, T
    <3>2. ~Live(T[q.c][q.i])
      BY <1>4, <1>7, <2>2
    <3>3. T[q.c][q.i].is = "unused"
      BY <3>1, <3>2, NamedStop DEF FirstStop
    <3>4. NoneNamed(T, l, d, n)
      <4> SUFFICES ASSUME NEW b \in DirCells(l), l.own[b] = d, NEW j \in 1 .. Width(b),
                          IsEntry(T[b][j]), T[b][j].name = n
                   PROVE  FALSE
        BY DEF NoneNamed
      <4>1. T[b][j].is # "unused" /\ Live(T[b][j])
        BY <1>5, LiveIs
      <4>2. ~Stops(Named({n}, 0), T[b][j], Index(l, b, j) - 1)
        BY <1>3, <3>1, <3>3, <4>1, NoneBehind DEF Fine, T
      <4> QED BY <1>5, <4>1, <4>2, NamedStop
    <3> QED BY <1>3, <2>1, <3>4 DEF FindDone, T
  <2>3. CASE q.how = "end" /\ ~q.v.unread
    <3>1. NoStopIn(T, l, d, Named({n}, 0))
      BY <1>1, <2>3 DEF ScanDone, T
    <3>2. NoneNamed(T, l, d, n)
      <4> SUFFICES ASSUME NEW b \in DirCells(l), l.own[b] = d, NEW j \in 1 .. Width(b),
                          IsEntry(T[b][j]), T[b][j].name = n
                   PROVE  FALSE
        BY DEF NoneNamed
      <4>1. Live(T[b][j])
        BY <1>5, LiveIs
      <4>2. ~Stops(Named({n}, 0), T[b][j], Index(l, b, j) - 1)
        BY <3>1 DEF NoStopIn, NoStop
      <4> QED BY <1>5, <4>1, <4>2, NamedStop
    <3> QED BY <1>3, <2>1, <3>2 DEF FindDone, T
  <2>4. CASE q.v.unread
    BY <1>3, <2>1, <2>4 DEF FindDone
  <2>5. q.how = "bad" => q.v.unread
    BY <1>1 DEF ScanDone
  <2> QED BY <1>3, <2>2, <2>3, <2>4, <2>5
<1> QED BY <1>6, <1>7

(* dir_is_empty says empty of a directory without entries, or after a      *)
(* failed read.                                                            *)
LEMMA DirIsEmptyIs ==
  ASSUME NEW v, NEW l, Fine(v, l), NEW d \in l.dirs
  PROVE  LET e == DirIsEmpty(v, d) IN
         /\ Reads(v, e.v) /\ e.how \in {"empty", "used"}
         /\ e.how = "empty" => e.v.unread \/ NoneIn(Seen(v), l, d)
<1> DEFINE sought == Kinds({"unused", "file", "dir"})
           q == Scan(v, d, sought)
           e == DirIsEmpty(v, d)
           h == IF q.how = "end" \/ (q.how = "found" /\ ~Live(SlotAt(q))) THEN "empty" ELSE "used"
           T == Seen(v)
<1>1. ScanDone(v, l, d, sought, q)
  BY ScanIs
<1>2. e = [q EXCEPT !.how = h]
  BY DEF DirIsEmpty, Emptiness
<1>3. h \in {"empty", "used"} /\ (h = "empty" <=> q.how = "end" \/ (q.how = "found" /\ ~Live(SlotAt(q))))
  OBVIOUS
<1> HIDE DEF q, e, h, T
<1>4. q \in ScanStates /\ Reads(v, q.v) /\ q.c \in DirCells(l) /\ q.c \in Cell /\ l.own[q.c] = d
  BY <1>1 DEF ScanDone, DirCells
<1>5. e.v = q.v /\ e.how = h
  BY <1>2, <1>3, <1>4, ResultHas
<1>6. SlotAt(q) = T[q.c][q.i]
  BY <1>4, SlotAtIs DEF T
<1>7. \A s, k : Stops(sought, s, k) <=> s.is = "unused" \/ IsEntry(s)
  BY KindsStop DEF IsEntry
<1> HIDE DEF sought
<1>8. \A b \in DirCells(l) : \A i \in 1 .. Width(b) : T[b][i] \in Slot
  BY GoodHas DEF Fine, T
<1>9. ASSUME q.how = "found", ~Live(SlotAt(q)) PROVE NoneIn(T, l, d)
  <2>1. q.i \in 1 .. Width(q.c) /\ FirstStop(T, l, sought, q.c, q.i)
    BY <1>1, <1>9 DEF ScanDone, T
  <2>2. T[q.c][q.i].is = "unused"
    <3>1. T[q.c][q.i] \in Slot /\ ~Live(T[q.c][q.i])
      BY <1>4, <1>6, <1>8, <1>9, <2>1
    <3>2. ~IsEntry(T[q.c][q.i])
      BY <3>1, LiveIs
    <3> QED BY <1>7, <2>1, <3>2 DEF FirstStop
  <2>3. ASSUME NEW b \in DirCells(l), l.own[b] = d, NEW j \in 1 .. Width(b) PROVE ~IsEntry(T[b][j])
    <3>1. T[b][j].is # "unused" => ~Stops(sought, T[b][j], Index(l, b, j) - 1)
      BY <1>4, <2>1, <2>2, <2>3, NoneBehind DEF Fine, T
    <3>2. IsEntry(T[b][j]) => T[b][j].is # "unused"
      BY DEF IsEntry
    <3> QED BY <1>7, <3>1, <3>2
  <2> QED BY <2>3 DEF NoneIn
<1>10. ASSUME q.how = "end", ~q.v.unread PROVE NoneIn(T, l, d)
  <2>1. NoStopIn(T, l, d, sought)
    BY <1>1, <1>10 DEF ScanDone, T
  <2> QED BY <1>7, <2>1 DEF NoStopIn, NoStop, NoneIn
<1>11. Reads(v, e.v) /\ e.how \in {"empty", "used"}
  BY <1>3, <1>4, <1>5
<1>12. e.how = "empty" => e.v.unread \/ NoneIn(T, l, d)
  BY <1>3, <1>5, <1>9, <1>10
<1> QED BY <1>11, <1>12 DEF e, T

-----------------------------------------------------------------------------
(* What every step of a call keeps. *)
Onto(v, w) ==
    /\ v \in Vols /\ w \in Vols /\ w.fat.fails = v.fat.fails
    /\ v.unread => w.unread
    /\ v.leaked => w.leaked
    /\ v.fat.fails = {} => w.unread = v.unread

(* A step that only reads is a step of a call. *)
LEMMA OntoReads ==
  ASSUME NEW v, NEW w, Reads(v, w)
  PROVE  Onto(v, w)
<1>1. v \in Vols /\ w \in Vols /\ w.unread \in BOOLEAN /\ v.unread \in BOOLEAN
  BY VolHas DEF Reads
<1>2. w.fat.fails = v.fat.fails /\ (v.unread => w.unread) /\ w.leaked = v.leaked
  BY DEF Reads, Kept
<1>3. v.fat.fails = {} => w.unread = v.unread
  BY <1>1, ReadsIs
<1> QED BY <1>1, <1>2, <1>3 DEF Onto

(* Two steps of a call are one. *)
LEMMA OntoMore ==
  ASSUME NEW u, NEW v, NEW w, Onto(u, v), Onto(v, w)
  PROVE  Onto(u, w)
BY DEF Onto

(* Changes of a volume's parts. *)
Vol(t, rt, dk, sb, un, lk) ==
    [fat |-> t, root |-> rt, disk |-> dk, sub |-> sb, unread |-> un, leaked |-> lk]

(* The parts of a volume put together. *)
LEMMA VolIs ==
  ASSUME NEW t \in Tables, NEW rt \in Roots, NEW dk \in Roots, NEW sb \in Subs,
         NEW un \in BOOLEAN, NEW lk \in BOOLEAN, NEW w, w = Vol(t, rt, dk, sb, un, lk)
  PROVE  /\ w \in Vols /\ w.fat = t /\ w.root = rt /\ w.disk = dk /\ w.sub = sb
         /\ w.unread = un /\ w.leaked = lk
BY DEF Vols, Vol

(* A volume is its parts. *)
LEMMA VolOf ==
  ASSUME NEW v \in Vols
  PROVE  v = Vol(v.fat, v.root, v.disk, v.sub, v.unread, v.leaked)
BY DEF Vols, Vol

(* A volume with other slots in one cluster. *)
LEMMA SubPut ==
  ASSUME NEW v \in Vols, NEW t \in Tables, NEW c \in Clusters, NEW x \in SubSlots,
         NEW w, w = Vol(t, v.root, v.disk, [v.sub EXCEPT ![c] = x], v.unread, v.leaked)
  PROVE  /\ w \in Vols /\ w.fat = t /\ w.root = v.root /\ w.disk = v.disk
         /\ w.unread = v.unread /\ w.leaked = v.leaked
         /\ w.sub[c] = x /\ \A b \in Clusters : b # c => w.sub[b] = v.sub[b]
<1> DEFINE s == [v.sub EXCEPT ![c] = x]
<1>1. v.sub \in Subs /\ v.root \in Roots /\ v.disk \in Roots /\ v.unread \in BOOLEAN /\ v.leaked \in BOOLEAN
  BY VolHas
<1>2. s \in Subs /\ s[c] = x /\ \A b \in Clusters : b # c => s[b] = v.sub[b]
  BY <1>1 DEF Subs
<1>3. w = Vol(t, v.root, v.disk, s, v.unread, v.leaked)
  OBVIOUS
<1> HIDE DEF s
<1>4. w \in Vols /\ w.fat = t /\ w.root = v.root /\ w.disk = v.disk /\ w.sub = s
      /\ w.unread = v.unread /\ w.leaked = v.leaked
  BY <1>1, <1>2, <1>3, VolIs
<1> QED BY <1>2, <1>4

(* A volume with another mark of what was lost. *)
LEMMA LeakedPut ==
  ASSUME NEW v \in Vols, NEW t \in Tables, NEW lk \in BOOLEAN,
         NEW w, w = Vol(t, v.root, v.disk, v.sub, v.unread, lk)
  PROVE  /\ w \in Vols /\ w.fat = t /\ w.root = v.root /\ w.disk = v.disk /\ w.sub = v.sub
         /\ w.unread = v.unread /\ w.leaked = lk
<1>1. v.sub \in Subs /\ v.root \in Roots /\ v.disk \in Roots /\ v.unread \in BOOLEAN
  BY VolHas
<1> QED BY <1>1, VolIs

(* What is seen changes only where the clusters' slots do. *)
LEMMA SeenIs ==
  ASSUME NEW v, NEW w, w.root = v.root
  PROVE  /\ Seen(w)[ROOT_CLUSTER] = Seen(v)[ROOT_CLUSTER]
         /\ \A b \in Clusters : w.sub[b] = v.sub[b] => Seen(w)[b] = Seen(v)[b]
         /\ \A b \in Clusters : Seen(w)[b] = w.sub[b]
BY SlotsAre DEF Seen

(* What the code writes into a whole cluster are slots. *)
LEMMA SubSlotsHave ==
  /\ Zeroed \in SubSlots /\ Junk \in SubSlots
  /\ \A f \in Clusters, d \in Cell : DotSlots(f, d) \in SubSlots
BY ZeroedIs, DotSlotsAre DEF SubSlots

-----------------------------------------------------------------------------
(* Growing a directory *)

(* zero_dir_cluster and the flush: on success the cluster is zeroed and    *)
(* the FAT saved.                                                          *)
LEMMA ZeroAndFlushIs ==
  ASSUME NEW v \in Vols, NEW new \in Clusters
  PROVE  LET z == ZeroAndFlush(v, new) IN
         /\ z \in Vols /\ z.root = v.root /\ z.disk = v.disk /\ z.unread = v.unread /\ z.leaked = v.leaked
         /\ Fat(z) = Fat(v) /\ z.fat.fails = v.fat.fails /\ z.fat.sector = v.fat.sector /\ z.fat.cf \in BOOLEAN
         /\ \A b \in Clusters : b # new => z.sub[b] = v.sub[b]
         /\ ~z.fat.cf => z.sub[new] = Zeroed /\ ~v.fat.ioerr
<1> DEFINE z == ZeroAndFlush(v, new)
           t == Io(v.fat)
           f == FlushFat(t)
<1>1. /\ t \in Tables /\ View(t) = Fat(v) /\ t.fails = v.fat.fails /\ t.sector = v.fat.sector
      /\ t.cf \in BOOLEAN /\ t.ioerr = v.fat.ioerr
  BY VolHas, IoIs DEF Fat, SameTable
<1>2. /\ f \in Tables /\ View(f) = View(t) /\ f.fails = t.fails /\ f.sector = t.sector /\ f.cf \in BOOLEAN
      /\ (t.ioerr => f.cf)
  BY <1>1, FlushFatIs
<1>3. z = IF t.cf THEN [v EXCEPT !.fat = t]
          ELSE Vol(f, v.root, v.disk, [v.sub EXCEPT ![new] = Zeroed], v.unread, v.leaked)
  <2> DEFINE u == [v EXCEPT !.fat = t]
  <2>1. u \in Vols /\ u.fat = t /\ u.root = v.root /\ u.disk = v.disk /\ u.sub = v.sub
        /\ u.unread = v.unread /\ u.leaked = v.leaked
    BY <1>1, FatPut
  <2>2. z = IF u.fat.cf THEN u ELSE [u EXCEPT !.sub[new] = Zeroed, !.fat = FlushFat(@)]
    BY DEF ZeroAndFlush
  <2> HIDE DEF z, t, u
  <2>3. [u EXCEPT !.sub[new] = Zeroed, !.fat = FlushFat(@)] =
        Vol(FlushFat(u.fat), u.root, u.disk, [u.sub EXCEPT ![new] = Zeroed], u.unread, u.leaked)
    <3> DEFINE x == [u.sub EXCEPT ![new] = Zeroed]
               y == FlushFat(u.fat)
               w == [u EXCEPT !.sub[new] = Zeroed]
    <3>1. [u EXCEPT !.sub[new] = Zeroed, !.fat = FlushFat(@)] = [w EXCEPT !.fat = y]
      OBVIOUS
    <3>2. w = Vol(u.fat, u.root, u.disk, x, u.unread, u.leaked)
      BY <2>1 DEF Vols, Vol
    <3> HIDE DEF w, x, y
    <3>3. [w EXCEPT !.fat = y] = Vol(y, u.root, u.disk, x, u.unread, u.leaked)
      BY <3>2 DEF Vol
    <3> QED BY <3>1, <3>3 DEF x, y
  <2> QED BY <2>1, <2>2, <2>3 DEF u
<1> HIDE DEF z, t, f
<1>4. CASE t.cf
  <2>1. z.fat = t /\ z \in Vols /\ z.root = v.root /\ z.disk = v.disk /\ z.sub = v.sub
        /\ z.unread = v.unread /\ z.leaked = v.leaked
    BY <1>1, <1>3, <1>4, FatPut
  <2> QED BY <1>1, <1>4, <2>1 DEF z, Fat
<1>5. CASE ~t.cf
  <2>1. /\ z.fat = f /\ z \in Vols /\ z.root = v.root /\ z.disk = v.disk
        /\ z.unread = v.unread /\ z.leaked = v.leaked
        /\ z.sub[new] = Zeroed /\ \A b \in Clusters : b # new => z.sub[b] = v.sub[b]
    BY <1>2, <1>3, <1>5, SubPut, SubSlotsHave
  <2> QED BY <1>1, <1>2, <1>5, <2>1 DEF z, Fat
<1> QED BY <1>4, <1>5

RolledBack(v, last, new, r) ==
    /\ r \in Vols /\ r.root = v.root /\ r.disk = v.disk /\ r.sub = v.sub /\ r.unread = v.unread
    /\ r.fat.fails = v.fat.fails /\ (v.leaked => r.leaked)
    /\ \A x \in Clusters : x \notin {last, new} => Fat(r)[x] = Fat(v)[x]
    /\ v.fat.sector = SectorOf(last) \/ Fat(v)[last] = EOC => Fat(r)[last] = EOC
    /\ Fat(r)[new] \in {Fat(v)[new], FREE}
    /\ r.leaked \/ Fat(r)[new] = FREE

(* The rollback of a growth unlinks the new cluster; what it does not free *)
(* is noted.                                                               *)
LEMMA RollBackIs ==
  ASSUME NEW v \in Vols, NEW last \in Clusters, NEW new \in Clusters, last # new
  PROVE  RolledBack(v, last, new, RollBack(v, last, new))
<1> DEFINE a == FatSet(v.fat, last, EOC)
           b == FatSet(a, new, FREE)
           f == FlushFat(b)
           r == RollBack(v, last, new)
           y == v.leaked \/ f.cf
<1>1. v.fat \in Tables /\ v.leaked \in BOOLEAN
  BY VolHas
<1>2. EOC \in Entry /\ FREE \in Entry
  BY ClustersAre
<1>3. Stored(v.fat, a, last, EOC)
  BY <1>1, <1>2, FatSetIs
<1>4. a \in Tables
  BY <1>3 DEF Stored
<1>5. Stored(a, b, new, FREE)
  BY <1>2, <1>4, FatSetIs
<1>6. b \in Tables
  BY <1>5 DEF Stored
<1>7. f \in Tables /\ View(f) = View(b) /\ f.fails = b.fails /\ f.cf \in BOOLEAN /\ (b.ioerr => f.cf)
  BY <1>6, FlushFatIs
<1>8. r = Vol(f, v.root, v.disk, v.sub, v.unread, y)
  <2>1. [v EXCEPT !.fat = FlushFat(FatSet(FatSet(@, last, EOC), new, FREE))] = [v EXCEPT !.fat = f]
    BY DEF Vols
  <2>2. [v EXCEPT !.fat = f].fat = f
    BY DEF Vols
  <2>3. r = [[v EXCEPT !.fat = f] EXCEPT !.leaked = @ \/ [v EXCEPT !.fat = f].fat.cf]
    BY <2>1 DEF RollBack
  <2> HIDE DEF f, r
  <2> QED BY <2>2, <2>3 DEF Vols, Vol
<1>9. y \in BOOLEAN /\ (v.leaked => y) /\ (f.cf => y)
  BY <1>1, <1>7
<1> HIDE DEF a, b, f, r, y
<1>10. r \in Vols /\ r.fat = f /\ r.root = v.root /\ r.disk = v.disk /\ r.sub = v.sub /\ r.unread = v.unread
       /\ r.leaked = y
  BY <1>7, <1>8, <1>9, LeakedPut
<1>11. f.fails = v.fat.fails
  BY <1>3, <1>5, <1>7 DEF Stored
<1>12. View(v.fat) \in [Clusters -> Entry] /\ View(a) \in [Clusters -> Entry] /\ View(b) \in [Clusters -> Entry]
  BY <1>1, <1>4, <1>6, ViewTypes
<1>13. /\ v.fat.sector = SectorOf(last) \/ Fat(v)[last] = EOC => View(a)[last] = EOC
       /\ \A x \in Clusters : x # last => View(a)[x] = View(v.fat)[x]
  <2>1. CASE View(a) = [View(v.fat) EXCEPT ![last] = EOC]
    BY <1>12, <2>1
  <2>2. CASE View(a) = View(v.fat) /\ v.fat.sector # SectorOf(last)
    BY <2>2 DEF Fat
  <2> QED BY <1>3, <2>1, <2>2 DEF Stored
<1>14. /\ \A x \in Clusters : x # new => View(b)[x] = View(a)[x]
       /\ View(b)[new] = FREE \/ (View(b)[new] = View(a)[new] /\ b.ioerr)
  <2>1. CASE View(b) = [View(a) EXCEPT ![new] = FREE]
    BY <1>12, <2>1
  <2>2. CASE View(b) = View(a) /\ b.ioerr
    BY <2>2
  <2> QED BY <1>5, <2>1, <2>2 DEF Stored
<1>15. Fat(r) = View(b)
  BY <1>7, <1>10 DEF Fat
<1>16. /\ \A x \in Clusters : x \notin {last, new} => Fat(r)[x] = Fat(v)[x]
       /\ v.fat.sector = SectorOf(last) \/ Fat(v)[last] = EOC => Fat(r)[last] = EOC
       /\ Fat(r)[new] \in {Fat(v)[new], FREE}
  BY <1>13, <1>14, <1>15 DEF Fat
<1>17. r.leaked \/ Fat(r)[new] = FREE
  BY <1>7, <1>9, <1>10, <1>14, <1>15
<1>18. RolledBack(v, last, new, r)
  BY <1>9, <1>10, <1>11, <1>16, <1>17 DEF RolledBack
<1> QED BY <1>18 DEF r

-----------------------------------------------------------------------------
(* find_dir_free *)

Tight(v, l) == v.leaked \/ \A c \in Clusters : Fat(v)[c] # FREE => l.own[c] # Nobody
Sane(v, l) == Fine(v, l) /\ Tight(v, l)
Alike(v, w, l, k) == Sane(w, k) /\ k.dirs = l.dirs /\ Marks(Seen(w), k) = Marks(Seen(v), l)

FreeAt(v, l, d, c, i) ==
    /\ c \in DirCells(l) /\ l.own[c] = d /\ i \in 1 .. Width(c)
    /\ Seen(v)[c][i].is \in {"unused", "deleted"} /\ NoneUnusedBefore(Seen(v), l, c, i)

FreeDone(v, l, d, s) ==
    /\ Onto(v, s.v)
    /\ s.how \in {"found", "full"}
    /\ s.how = "found" => Sited(s.v, PlaceOf(s)) /\ (s.c = ROOT_CLUSTER <=> d = ROOT_CLUSTER)
    /\ s.v.unread \/ \E k : Alike(v, s.v, l, k) /\ (s.how = "found" => FreeAt(s.v, k, d, s.c, s.i))

(* A step that only reads leaves the tree alike. *)
LEMMA SaneReads ==
  ASSUME NEW v, NEW l, Sane(v, l), NEW w, Reads(v, w)
  PROVE  Alike(v, w, l, l) /\ Sane(w, l)
<1>1. Fine(w, l) /\ Fat(w) = Fat(v) /\ w.leaked = v.leaked /\ Seen(w) = Seen(v)
  BY ReadsIs DEF Sane
<1> QED BY <1>1 DEF Sane, Tight, Alike

(* Nobody's clusters may change when they are free or known to be leaked.  *)
LEMMA SaneSame ==
  ASSUME NEW v, NEW l, Sane(v, l), NEW w \in Vols, v.leaked => w.leaked,
         \A c \in DirCells(l) : Seen(w)[c] = Seen(v)[c],
         \A c \in Clusters : l.own[c] # Nobody => Fat(w)[c] = Fat(v)[c],
         w.leaked \/ \A c \in Clusters : l.own[c] = Nobody => Fat(w)[c] \in {Fat(v)[c], FREE}
  PROVE  Alike(v, w, l, l) /\ Sane(w, l)
<1>1. Good(Seen(v), Fat(v), l)
  BY DEF Sane, Fine
<1>2. Good(Seen(w), Fat(w), l) /\ Marks(Seen(w), l) = Marks(Seen(v), l)
  BY <1>1, GoodSame
<1>3. Tight(w, l)
  BY DEF Tight, Sane
<1> QED BY <1>2, <1>3 DEF Alike, Sane, Fine

Full(r, u) == [r EXCEPT !.v = u, !.how = "full"]

(* A result that says the directory is full. *)
LEMMA FullIs ==
  ASSUME NEW r \in ScanStates, NEW u \in Vols
  PROVE  Full(r, u).v = u /\ Full(r, u).how = "full"
BY DEF Full, ScanStates

(* find_dir_free may answer full where nothing has changed. *)
LEMMA FreeFull ==
  ASSUME NEW v, NEW l, NEW d, NEW r \in ScanStates, NEW u \in Vols, Onto(v, u),
         u.unread \/ Alike(v, u, l, l)
  PROVE  FreeDone(v, l, d, Full(r, u))
<1> DEFINE s == Full(r, u)
<1>1. s.v = u /\ s.how = "full"
  BY FullIs
<1> HIDE DEF s
<1>2. FreeDone(v, l, d, s)
  BY <1>1 DEF FreeDone
<1> QED BY <1>2 DEF s

(* find_dir_free answers a free slot that the scan found. *)
LEMMA FreeScanned ==
  ASSUME NEW v, NEW l, Sane(v, l), NEW d \in l.dirs, NEW r,
         ScanDone(v, l, d, Kinds({"unused", "deleted"}), r), r.how = "found"
  PROVE  FreeDone(v, l, d, r)
<1> DEFINE sought == Kinds({"unused", "deleted"})
           T == Seen(v)
<1>1. Reads(v, r.v) /\ r.c \in DirCells(l) /\ r.c \in Cell /\ l.own[r.c] = d /\ r.i \in 1 .. Width(r.c)
      /\ FirstStop(T, l, sought, r.c, r.i)
  BY DEF ScanDone, DirCells
<1>2. \A s, k : Stops(sought, s, k) <=> s.is \in {"unused", "deleted"}
  BY KindsStop
<1> HIDE DEF sought, T
<1>3. Good(T, Fat(v), l) /\ GoodChains(Fat(v), l)
  BY DEF Sane, Fine, Good, T
<1>4. T[r.c][r.i].is \in {"unused", "deleted"}
  BY <1>1, <1>2 DEF FirstStop
<1>5. NoneUnusedBefore(T, l, r.c, r.i)
  <2> SUFFICES ASSUME NEW b \in DirCells(l), l.own[b] = l.own[r.c], NEW j \in 1 .. Width(b),
                      Index(l, b, j) < Index(l, r.c, r.i)
               PROVE  T[b][j].is # "unused"
    BY DEF NoneUnusedBefore
  <2>1. ~Stops(sought, T[b][j], Index(l, b, j) - 1)
    BY <1>1 DEF FirstStop
  <2> QED BY <1>2, <2>1
<1>6. Alike(v, r.v, l, l) /\ Onto(v, r.v) /\ Seen(r.v) = T /\ r.v \in Vols
  BY <1>1, SaneReads, OntoReads, ReadsIs DEF T
<1>7. FreeAt(r.v, l, d, r.c, r.i)
  BY <1>1, <1>4, <1>5, <1>6 DEF FreeAt
<1>8. Sited(r.v, PlaceOf(r))
  <2> DEFINE p == Place(r.c, r.i)
  <2>1. p.c = r.c /\ p.i = r.i
    BY DEF Place
  <2>2. PlaceOf(r) = p
    BY DEF PlaceOf
  <2> HIDE DEF p
  <2>3. Seen(r.v)[p.c] \in [1 .. Width(p.c) -> Slot]
    BY <1>1, <1>3, <1>6, <2>1, GoodHas
  <2> QED BY <1>1, <1>6, <2>1, <2>2, <2>3, SitedIs
<1>9. r.c = ROOT_CLUSTER <=> d = ROOT_CLUSTER
  <2>1. r.c \in CellsOf(l, d) /\ l.own[ROOT_CLUSTER] = ROOT_CLUSTER
    BY <1>1, <1>3 DEF CellsOf, GoodChains
  <2>2. d = ROOT_CLUSTER => CellsOf(l, d) = {ROOT_CLUSTER}
    BY <1>3, CellsOfIs
  <2> QED BY <1>1, <2>1, <2>2
<1> QED BY <1>6, <1>7, <1>8, <1>9 DEF FreeDone

Extends(r, d) == r.how = "end" /\ d # ROOT_CLUSTER
GrownTo(r, z, new) == IF z.fat.cf THEN Full(r, RollBack(z, r.c, new))
                      ELSE [r EXCEPT !.v = z, !.c = new, !.i = 1, !.how = "found"]
Extended(r, t) == IF t.cf THEN Full(r, [r.v EXCEPT !.fat = t])
                  ELSE GrownTo(r, ZeroAndFlush([r.v EXCEPT !.fat = FatSet(t, r.c, t.ax)], t.ax), t.ax)

(* The new cluster is there, and the chain may have been led to it. *)
Linking(r, u, new) ==
    /\ u \in Vols /\ u.root = r.v.root /\ u.disk = r.v.disk /\ u.unread = r.v.unread /\ u.leaked = r.v.leaked
    /\ u.fat.fails = r.v.fat.fails
    /\ new \in Clusters /\ Fat(r.v)[new] = FREE
    /\ \A b \in Clusters : b # new => u.sub[b] = r.v.sub[b]
    /\ \A x \in Clusters : x \notin {r.c, new} => Fat(u)[x] = Fat(r.v)[x]
    /\ Fat(u)[new] = EOC
    /\ Fat(u)[r.c] = new \/ (Fat(u)[r.c] = Fat(r.v)[r.c] /\ u.fat.ioerr)
    /\ u.fat.sector = SectorOf(r.c) \/ Fat(u)[r.c] = Fat(r.v)[r.c]

(* The new cluster linked behind the last one. *)
LEMMA LinkingIs ==
  ASSUME NEW r \in ScanStates, r.c \in Clusters, Fat(r.v)[r.c] # FREE, NEW t, Allocates(r.v.fat, t), ~t.cf
  PROVE  Linking(r, [r.v EXCEPT !.fat = FatSet(t, r.c, t.ax)], t.ax)
<1> DEFINE new == t.ax
           f == FatSet(t, r.c, new)
           u == [r.v EXCEPT !.fat = f]
<1>1. r.v \in Vols /\ r.v.fat \in Tables
  BY ScanHas, VolHas
<1>2. t \in Tables /\ new \in Clusters /\ new \in Entry /\ t.fails = r.v.fat.fails
      /\ Fat(r.v)[new] = FREE /\ View(t) = [Fat(r.v) EXCEPT ![new] = EOC]
  BY ClustersAre DEF Allocates, Fat
<1>3. Stored(t, f, r.c, new)
  BY <1>2, FatSetIs
<1> HIDE DEF new, f
<1>4. f \in Tables /\ f.fails = t.fails
  BY <1>3 DEF Stored
<1>5. /\ u \in Vols /\ u.fat = f /\ u.root = r.v.root /\ u.disk = r.v.disk /\ u.sub = r.v.sub
      /\ u.unread = r.v.unread /\ u.leaked = r.v.leaked
  BY <1>1, <1>4, FatPut
<1> HIDE DEF u
<1>6. Fat(r.v) \in [Clusters -> Entry] /\ View(t) \in [Clusters -> Entry]
  BY <1>1, <1>2, ViewTypes DEF Fat
<1>7. /\ \A x \in Clusters : x # new => View(t)[x] = Fat(r.v)[x]
      /\ View(t)[new] = EOC
  BY <1>2, <1>6
<1>8. new # r.c
  BY <1>2
<1>9. \/ View(f) = [View(t) EXCEPT ![r.c] = new] /\ f.sector = SectorOf(r.c)
      \/ View(f) = View(t) /\ f.ioerr
  BY <1>3 DEF Stored
<1>10. /\ \A x \in Clusters : x # r.c => View(f)[x] = View(t)[x]
       /\ \/ View(f)[r.c] = new /\ f.sector = SectorOf(r.c)
          \/ View(f)[r.c] = View(t)[r.c] /\ f.ioerr
  BY <1>6, <1>9
<1>11. Linking(r, u, new)
  BY <1>2, <1>4, <1>5, <1>7, <1>8, <1>10 DEF Linking, Fat
<1> QED BY <1>11 DEF u, f, new

(* The new cluster linked and zeroed. *)
LEMMA LinkedIs ==
  ASSUME NEW r \in ScanStates, NEW u, NEW new, Linking(r, u, new), NEW z, z = ZeroAndFlush(u, new)
  PROVE  /\ z \in Vols /\ z.root = r.v.root /\ z.disk = r.v.disk /\ z.unread = r.v.unread
         /\ z.leaked = r.v.leaked /\ z.fat.fails = r.v.fat.fails /\ z.fat.cf \in BOOLEAN
         /\ \A b \in Clusters : b # new => z.sub[b] = r.v.sub[b]
         /\ Fat(z) = Fat(u) /\ z.fat.sector = u.fat.sector
         /\ ~z.fat.cf => z.sub[new] = Zeroed /\ ~u.fat.ioerr
<1>1. /\ u \in Vols /\ u.root = r.v.root /\ u.disk = r.v.disk /\ u.unread = r.v.unread /\ u.leaked = r.v.leaked
      /\ u.fat.fails = r.v.fat.fails /\ new \in Clusters
      /\ \A b \in Clusters : b # new => u.sub[b] = r.v.sub[b]
  BY DEF Linking
<1>2. /\ z \in Vols /\ z.root = u.root /\ z.disk = u.disk /\ z.unread = u.unread /\ z.leaked = u.leaked
      /\ Fat(z) = Fat(u) /\ z.fat.fails = u.fat.fails /\ z.fat.sector = u.fat.sector /\ z.fat.cf \in BOOLEAN
      /\ \A b \in Clusters : b # new => z.sub[b] = u.sub[b]
      /\ ~z.fat.cf => z.sub[new] = Zeroed /\ ~u.fat.ioerr
  BY <1>1, ZeroAndFlushIs
<1> QED BY <1>1, <1>2

(* A growth that fails and is rolled back leaves the tree alike. *)
LEMMA GrowsBack ==
  ASSUME NEW v, NEW l, Sane(v, l), NEW d \in l.dirs \ {ROOT_CLUSTER}, NEW r \in ScanStates, Reads(v, r.v),
         r.c \in Clusters, l.own[r.c] = d, r.v.unread \/ Fat(v)[r.c] = EOC,
         NEW u, NEW new, Linking(r, u, new), NEW z, z = ZeroAndFlush(u, new), z.fat.cf
  PROVE  FreeDone(v, l, d, GrownTo(r, z, new))
<1> DEFINE y == RollBack(z, r.c, new)
<1>1. GrownTo(r, z, new) = Full(r, y)
  BY DEF GrownTo
<1>2. /\ z \in Vols /\ z.root = r.v.root /\ z.unread = r.v.unread /\ z.leaked = r.v.leaked
      /\ z.fat.fails = r.v.fat.fails /\ Fat(z) = Fat(u) /\ z.fat.sector = u.fat.sector
      /\ \A b \in Clusters : b # new => z.sub[b] = r.v.sub[b]
  BY LinkedIs
<1>3. /\ new \in Clusters /\ Fat(r.v)[new] = FREE
      /\ \A x \in Clusters : x \notin {r.c, new} => Fat(u)[x] = Fat(r.v)[x]
      /\ Fat(u)[new] = EOC
      /\ u.fat.sector = SectorOf(r.c) \/ Fat(u)[r.c] = Fat(r.v)[r.c]
  BY DEF Linking
<1>4. Sane(r.v, l) /\ Alike(v, r.v, l, l) /\ Fat(r.v) = Fat(v) /\ Onto(v, r.v) /\ Good(Seen(r.v), Fat(r.v), l)
  BY SaneReads, OntoReads, ReadsIs DEF Sane, Fine
<1>5. l \in Layouts /\ d # Nobody /\ \A f \in Clusters : l.own[f] # Nobody => Fat(r.v)[f] # FREE
  BY <1>4, GoodHas, LayoutHas, CellsAre
<1>6. r.c # new /\ l.own[new] = Nobody
  BY <1>3, <1>5
<1>7. /\ y \in Vols /\ y.root = z.root /\ y.sub = z.sub /\ y.unread = z.unread
      /\ y.fat.fails = z.fat.fails /\ (z.leaked => y.leaked)
      /\ \A x \in Clusters : x \notin {r.c, new} => Fat(y)[x] = Fat(z)[x]
      /\ z.fat.sector = SectorOf(r.c) \/ Fat(z)[r.c] = EOC => Fat(y)[r.c] = EOC
      /\ y.leaked \/ Fat(y)[new] = FREE
  <2>1. RolledBack(z, r.c, new, y)
    BY <1>2, <1>3, <1>6, RollBackIs
  <2> HIDE DEF y
  <2> QED BY <2>1 DEF RolledBack
<1> HIDE DEF y
<1>8. Onto(v, y)
  <2>1. Onto(r.v, y)
    BY <1>2, <1>4, <1>7 DEF Onto
  <2> QED BY <1>4, <2>1, OntoMore
<1>9. ASSUME ~y.unread PROVE Alike(v, y, l, l)
  <2>1. Fat(r.v)[r.c] = EOC
    BY <1>2, <1>4, <1>7, <1>9
  <2>2. Fat(y)[r.c] = EOC
    BY <1>2, <1>3, <1>7, <2>1
  <2>3. \A c \in Clusters : l.own[c] # Nobody => Fat(y)[c] = Fat(r.v)[c]
    BY <1>2, <1>3, <1>6, <1>7, <2>1, <2>2
  <2>4. y.leaked \/ \A c \in Clusters : l.own[c] = Nobody => Fat(y)[c] \in {Fat(r.v)[c], FREE}
    BY <1>2, <1>3, <1>5, <1>7
  <2>5. \A c \in DirCells(l) : Seen(y)[c] = Seen(r.v)[c]
    <3>1. \A c \in DirCells(l) : c = ROOT_CLUSTER \/ (c \in Clusters /\ c # new)
      <4>1. \A c \in DirCells(l) : c \in Cell /\ l.own[c] # Nobody
        BY <1>4, GoodHas
      <4> QED BY <1>6, <4>1, CellsAre
    <3>2. y.root = r.v.root /\ \A b \in Clusters : b # new => y.sub[b] = r.v.sub[b]
      BY <1>2, <1>7
    <3> QED BY <3>1, <3>2, SeenIs
  <2>6. r.v.leaked => y.leaked
    BY <1>2, <1>7
  <2>7. Alike(r.v, y, l, l)
    BY <1>4, <1>7, <2>3, <2>4, <2>5, <2>6, SaneSame
  <2> QED BY <1>4, <2>7 DEF Alike
<1>10. FreeDone(v, l, d, Full(r, y))
  BY <1>7, <1>8, <1>9, FreeFull
<1> QED BY <1>1, <1>10

Growth(T, U, F, G, l, last, f) ==
    /\ Good(T, F, l) /\ last \in Clusters /\ l.own[last] \in l.dirs /\ F[last] = EOC
    /\ f \in Clusters /\ l.own[f] = Nobody /\ G[f] = EOC /\ G[last] = f
    /\ \A x \in Clusters : l.own[x] # Nobody /\ x # last => G[x] = F[x]
    /\ (\A b \in DirCells(l) : U[b] = T[b]) /\ U[f] = Zeroed
    /\ \A b \in DirCells(l) : l.own[b] = l.own[last] => \A j \in 1 .. Width(b) : T[b][j].is # "unused"

(* A growth that succeeds leaves the tree good, with the same marks. *)
LEMMA GrowthIs ==
  ASSUME NEW T, NEW U, NEW F, NEW G, NEW l, NEW last, NEW f, Growth(T, U, F, G, l, last, f)
  PROVE  /\ Good(U, G, Longer(l, last, f))
         /\ DirCells(Longer(l, last, f)) = DirCells(l) \cup {f}
         /\ Marks(U, Longer(l, last, f)) = Marks(T, l)
         /\ NoneUnusedBefore(U, Longer(l, last, f), f, 1)
BY Grow DEF Growth

(* A growth that succeeds ends find_dir_free with the first new slot. *)
LEMMA GrowsOn ==
  ASSUME NEW v, NEW l, Sane(v, l), NEW d \in l.dirs \ {ROOT_CLUSTER}, NEW r \in ScanStates, Reads(v, r.v),
         r.c \in Clusters, l.own[r.c] = d,
         r.v.unread \/ (Fat(v)[r.c] = EOC /\ NoStopIn(Seen(v), l, d, Kinds({"unused", "deleted"}))),
         NEW u, NEW new, Linking(r, u, new), NEW z, z = ZeroAndFlush(u, new), ~z.fat.cf
  PROVE  FreeDone(v, l, d, GrownTo(r, z, new))
<1> DEFINE s == [r EXCEPT !.v = z, !.c = new, !.i = 1, !.how = "found"]
           T == Seen(r.v)
           F == Fat(r.v)
           U == Seen(z)
           G == Fat(z)
           k == Longer(l, r.c, new)
<1>1. GrownTo(r, z, new) = s
  BY DEF GrownTo
<1>2. /\ z \in Vols /\ z.root = r.v.root /\ z.unread = r.v.unread /\ z.leaked = r.v.leaked
      /\ z.fat.fails = r.v.fat.fails /\ G = Fat(u)
      /\ \A b \in Clusters : b # new => z.sub[b] = r.v.sub[b]
      /\ z.sub[new] = Zeroed /\ ~u.fat.ioerr
  BY LinkedIs
<1>3. /\ new \in Clusters /\ F[new] = FREE
      /\ \A x \in Clusters : x \notin {r.c, new} => Fat(u)[x] = F[x]
      /\ Fat(u)[new] = EOC
      /\ Fat(u)[r.c] = new
  BY <1>2 DEF Linking
<1>4. Sane(r.v, l) /\ Alike(v, r.v, l, l) /\ F = Fat(v) /\ T = Seen(v) /\ Onto(v, r.v) /\ Good(T, F, l)
  BY SaneReads, OntoReads, ReadsIs DEF Sane, Fine
<1>5. l \in Layouts /\ d # Nobody /\ \A f \in Clusters : l.own[f] # Nobody => F[f] # FREE
  BY <1>4, GoodHas, LayoutHas, CellsAre
<1>6. r.c # new /\ l.own[new] = Nobody
  BY <1>3, <1>5
<1>7. s.v = z /\ s.c = new /\ s.i = 1 /\ s.how = "found"
  BY DEF ScanStates
<1> HIDE DEF s, T, F, U, G, k
<1>8. Onto(v, z)
  <2>1. Onto(r.v, z)
    BY <1>2, <1>4 DEF Onto
  <2> QED BY <1>4, <2>1, OntoMore
<1>9. new # ROOT_CLUSTER /\ new \in Cell /\ Width(new) = SlotsPerSector /\ 1 \in 1 .. SlotsPerSector
  BY <1>3, CellsAre, WidthIs, Constants
<1>10. Sited(z, PlaceOf(s)) /\ s.c # ROOT_CLUSTER
  <2> DEFINE p == Place(new, 1)
  <2>1. p.c = new /\ p.i = 1
    BY DEF Place
  <2>2. PlaceOf(s) = p
    BY <1>7 DEF PlaceOf
  <2> HIDE DEF p
  <2> QED BY <1>2, <1>7, <1>9, <2>1, <2>2, ZeroedIs DEF Sited
<1>11. ASSUME ~z.unread PROVE Alike(v, z, l, k) /\ FreeAt(z, k, d, new, 1)
  <2>0. NoStopIn(T, l, d, Kinds({"unused", "deleted"}))
    BY <1>2, <1>4, <1>11
  <2>1. F[r.c] = EOC
    BY <1>2, <1>4, <1>11
  <2>2. \A b \in DirCells(l) : l.own[b] = l.own[r.c] => \A j \in 1 .. Width(b) : T[b][j].is # "unused"
    BY <2>0, KindsStop DEF NoStopIn, NoStop
  <2>3. \A b \in DirCells(l) : U[b] = T[b]
    <3>1. \A c \in DirCells(l) : c = ROOT_CLUSTER \/ (c \in Clusters /\ c # new)
      BY <1>4, <1>6, GoodHas, CellsAre
    <3> QED BY <1>2, <3>1, SeenIs DEF U, T
  <2>4. U[new] = Zeroed
    BY <1>2, <1>3, SlotsAre DEF U, Seen
  <2>5. \A x \in Clusters : l.own[x] # Nobody /\ x # r.c => G[x] = F[x]
    BY <1>2, <1>3, <1>6
  <2>6. G[new] = EOC /\ G[r.c] = new
    BY <1>2, <1>3
  <2>7. l.own[r.c] \in l.dirs
    OBVIOUS
  <2>8. /\ Good(U, G, k) /\ DirCells(k) = DirCells(l) \cup {new} /\ Marks(U, k) = Marks(T, l)
        /\ NoneUnusedBefore(U, k, new, 1)
    <3>1. Good(T, F, l)
      BY <1>4
    <3>2. l.own[new] = Nobody /\ new \in Clusters
      BY <1>3, <1>6
    <3>3. Growth(T, U, F, G, l, r.c, new)
      BY <2>1, <2>2, <2>3, <2>4, <2>5, <2>6, <2>7, <3>1, <3>2 DEF Growth
    <3> QED BY <3>3, GrowthIs DEF k
  <2>9. k.dirs = l.dirs /\ k.own[new] = d /\ \A x \in Cell : x # new => k.own[x] = l.own[x]
    BY <1>3, <1>5, LongerIs DEF k
  <2>10. Tight(z, k)
    <3> SUFFICES ASSUME ~z.leaked, NEW c \in Clusters, G[c] # FREE PROVE k.own[c] # Nobody
      BY DEF Tight, G
    <3>1. CASE c = new
      BY <1>5, <2>9, <3>1
    <3>2. CASE c # new
      <4>1. F[c] # FREE
        BY <1>2, <1>3, <2>1, <3>2, ClustersAre
      <4>2. l.own[c] # Nobody
        BY <1>2, <1>4, <4>1 DEF Sane, Tight, F
      <4> QED BY <2>9, <3>2, <4>2, CellsAre
    <3> QED BY <3>1, <3>2
  <2>11. Sane(z, k)
    BY <1>2, <2>8, <2>10 DEF Sane, Fine, U, G
  <2>12. Alike(v, z, l, k)
    BY <1>4, <2>8, <2>9, <2>11 DEF Alike, U, T
  <2>13. U[new][1].is = "unused" /\ 1 \in 1 .. Width(new) /\ new \in DirCells(k)
    BY <1>9, <2>4, <2>8, ZeroedIs
  <2> QED BY <2>8, <2>9, <2>12, <2>13 DEF FreeAt, U
<1>12. FreeDone(v, l, d, s)
  BY <1>7, <1>8, <1>10, <1>11 DEF FreeDone
<1> QED BY <1>1, <1>12

(* find_dir_free: a free slot with no unused one before it, or full; the   *)
(* tree is alike unless a read failed.                                     *)
LEMMA FindDirFreeIs ==
  ASSUME NEW v, NEW l, Sane(v, l), NEW d \in l.dirs
  PROVE  FreeDone(v, l, d, FindDirFree(v, d))
<1> DEFINE sought == Kinds({"unused", "deleted"})
           r == Scan(v, d, sought)
           t == FatAlloc(r.v.fat)
           s == FindDirFree(v, d)
<1>1. ScanDone(v, l, d, sought, r)
  BY ScanIs DEF Sane
<1>2. s = IF r.how = "found" THEN r
          ELSE IF r.how = "bad" \/ d = ROOT_CLUSTER THEN Full(r, r.v) ELSE Extended(r, t)
  BY DEF FindDirFree, Full, Extended, GrownTo
<1> SUFFICES FreeDone(v, l, d, s)
  OBVIOUS
<1>3. /\ r \in ScanStates /\ Reads(v, r.v) /\ r.v \in Vols /\ r.v.fat \in Tables
      /\ r.c \in DirCells(l) /\ l.own[r.c] = d /\ r.how \in {"found", "end", "bad"}
  <2> HIDE DEF r
  <2>1. r \in ScanStates /\ Reads(v, r.v) /\ r.c \in DirCells(l) /\ l.own[r.c] = d /\ r.how \in {"found", "end", "bad"}
    BY <1>1 DEF ScanDone
  <2> QED BY <2>1, ReadsIs, VolHas
<1> HIDE DEF s, r
<1>4. CASE r.how = "found"
  BY <1>1, <1>2, <1>4, FreeScanned
<1>5. Onto(v, r.v) /\ Alike(v, r.v, l, l) /\ Sane(r.v, l)
  BY <1>3, OntoReads, SaneReads
<1>6. CASE r.how # "found" /\ (r.how = "bad" \/ d = ROOT_CLUSTER)
  <2>1. FreeDone(v, l, d, Full(r, r.v))
    BY <1>3, <1>5, FreeFull
  <2> QED BY <1>2, <1>6, <2>1
<1>7. CASE r.how = "end" /\ d # ROOT_CLUSTER
  <2>0. s = Extended(r, t)
    BY <1>2, <1>7
  <2>1. Allocates(r.v.fat, t)
    BY <1>3, FatAllocIs
  <2> HIDE DEF t
  <2>2. CASE t.cf
    <3> DEFINE w == [r.v EXCEPT !.fat = t]
    <3>1. t \in Tables /\ View(t) = Fat(r.v) /\ t.fails = r.v.fat.fails
      BY <2>1, <2>2 DEF Allocates, Fat
    <3>2. /\ w \in Vols /\ w.fat = t /\ w.root = r.v.root /\ w.sub = r.v.sub
          /\ w.unread = r.v.unread /\ w.leaked = r.v.leaked
      BY <1>3, <3>1, FatPut
    <3>3. s = Full(r, w)
      BY <2>0, <2>2 DEF Extended
    <3> HIDE DEF w
    <3>4. Onto(v, w)
      <4>1. Onto(r.v, w)
        BY <1>3, <3>1, <3>2 DEF Onto
      <4> QED BY <1>5, <4>1, OntoMore
    <3>5. Alike(v, w, l, l)
      <4>1. Fat(w) = Fat(r.v) /\ Seen(w) = Seen(r.v)
        BY <3>1, <3>2 DEF Fat, Seen
      <4> QED BY <1>5, <3>2, <4>1 DEF Alike, Sane, Fine, Tight
    <3> QED BY <1>3, <3>2, <3>3, <3>4, <3>5, FreeFull
  <2>3. CASE ~t.cf
    <3> DEFINE u == [r.v EXCEPT !.fat = FatSet(t, r.c, t.ax)]
               z == ZeroAndFlush(u, t.ax)
    <3>1. s = GrownTo(r, z, t.ax)
      BY <2>0, <2>3 DEF Extended
    <3>2. r.c \in Clusters /\ Fat(r.v)[r.c] # FREE /\ d \in l.dirs \ {ROOT_CLUSTER}
      <4>1. Good(Seen(r.v), Fat(r.v), l)
        BY <1>5 DEF Sane, Fine
      <4>2. r.c \in Cell /\ l.own[r.c] # Nobody
        BY <1>3, <4>1, GoodHas
      <4>3. r.c # ROOT_CLUSTER
        BY <1>3, <1>7, <4>1 DEF Good, GoodChains
      <4>4. r.c \in Clusters
        BY <4>2, <4>3, CellsAre
      <4> QED BY <1>7, <4>1, <4>2, <4>4, GoodHas
    <3>3. Linking(r, u, t.ax)
      BY <1>3, <2>1, <2>3, <3>2, LinkingIs
    <3>4. r.v.unread \/ (Fat(v)[r.c] = EOC /\ NoStopIn(Seen(v), l, d, sought))
      BY <1>1, <1>7 DEF ScanDone
    <3> HIDE DEF u
    <3>5. CASE z.fat.cf
      BY <1>3, <3>1, <3>2, <3>3, <3>4, <3>5, GrowsBack
    <3>6. CASE ~z.fat.cf
      BY <1>3, <3>1, <3>2, <3>3, <3>4, <3>6, GrowsOn
    <3> QED BY <3>5, <3>6
  <2> QED BY <2>2, <2>3
<1> QED BY <1>3, <1>4, <1>6, <1>7

-----------------------------------------------------------------------------
(* What a call makes of the marks M and directories ds of a tree. *)
Same(M, ds, N, es) == N = M /\ es = ds
Fresh(M, d, n) == \A o \in M : o.dir = d => o.name # n
AddedFile(M, ds, N, es, d, n) ==
    /\ es = ds /\ Fresh(M, d, n)
    /\ \E x \in Nat : N = M \cup {Mark(d, x, n, ROOT_CLUSTER)}
AddedDir(M, ds, N, es, d, n) ==
    /\ Fresh(M, d, n)
    /\ \E f \in Clusters, x \in Nat : f \notin ds /\ es = ds \cup {f} /\ N = M \cup {Mark(d, x, n, f)}
Removed(M, ds, N, es, d, n, cur) ==
    \E m \in M : /\ m.dir = d /\ m.name = n /\ N = M \ {m} /\ es = ds \ ({m.id} \ {ROOT_CLUSTER})
                 /\ m.id # ROOT_CLUSTER => m.id # cur /\ \A o \in M : o.dir # m.id
Renamed(M, ds, N, es, d, n, k) ==
    /\ es = ds /\ Fresh(M, d, k)
    /\ \E m \in M : /\ m.dir = d /\ m.name = n /\ m.id = ROOT_CLUSTER
                    /\ N = (M \ {m}) \cup {Mark(d, m.index, k, ROOT_CLUSTER)}

(* A volume from which no write has been lost, and the marks in it. *)
Stands(v, l, w, k) == Sane(w, k) /\ Same(Marks(Seen(v), l), l.dirs, Marks(Seen(w), k), k.dirs)

(* Alike, said of layouts. *)
LEMMA AlikeStands ==
  ASSUME NEW v, NEW w, NEW l, NEW k
  PROVE  Alike(v, w, l, k) <=> Stands(v, l, w, k)
BY DEF Alike, Stands, Same

(* Doing nothing is a step of a call. *)
LEMMA OntoSelf == ASSUME NEW v \in Vols PROVE Onto(v, v)
BY DEF Onto

(* A slot written is there, or, in a subdirectory, nothing is written.     *)
LEMMA WritesOnto ==
  ASSUME NEW v \in Vols, NEW p, Sited(v, p), NEW s \in Slot
  PROVE  Onto(v, WriteSlot(v, p, s))
<1> DEFINE w == WriteSlot(v, p, s)
<1>0. Wrote(v, p, s, w)
  BY WriteSlotIs
<1>1. w \in Vols /\ w.fat = Io(v.fat) /\ w.unread = v.unread /\ w.leaked = v.leaked
  BY <1>0 DEF Wrote
<1>2. Io(v.fat).fails = v.fat.fails
  BY VolHas, IoIs
<1> HIDE DEF w
<1>3. Onto(v, w)
  BY <1>1, <1>2 DEF Onto
<1> QED BY <1>3 DEF w

(* What can be written can be written after a read. *)
LEMMA SitedReads ==
  ASSUME NEW v, NEW w, Reads(v, w), NEW p, Sited(v, p)
  PROVE  Sited(w, p)
BY DEF Reads, Sited

(* The parts of a result's place. *)
LEMMA PlaceIs == ASSUME NEW r PROVE PlaceOf(r).c = r.c /\ PlaceOf(r).i = r.i
BY DEF PlaceOf, Place

(* The parts of an entry. *)
LEMMA FileSlot ==
  ASSUME NEW n \in Names, NEW f \in Cell, NEW k \in {"file", "dir"}
  PROVE  /\ Entry32(k, n, f) \in Slot /\ Entry32(k, n, f).is = k /\ Entry32(k, n, f).name = n
         /\ Entry32(k, n, f).first = f /\ IsEntry(Entry32(k, n, f))
BY DEF Entry32, Slot, Kind, IsEntry

(* A slot written in an unchanged layout changes the marks by the old and  *)
(* new entry.                                                              *)
LEMMA PutMarksHere ==
  ASSUME NEW T, NEW U, NEW F, NEW l, Good(T, F, l), NEW c \in DirCells(l), NEW i \in 1 .. Width(c),
         NEW s \in Slot, PutAt(T, U, l, c, i, s)
  PROVE  /\ Marks(U, l) = (Marks(T, l) \ (IF IsEntry(T[c][i]) THEN {MarkAt(T, l, c, i)} ELSE {}))
                             \cup (IF IsEntry(s) THEN {MarkAt(U, l, c, i)} ELSE {})
         /\ U[c][i] = s
<1>1. \A b \in DirCells(l) : \A j \in 1 .. Width(b) : U[b][j] = IF b = c /\ j = i THEN s ELSE T[b][j]
  BY PutAtIs
<1> DEFINE k == l
<1>2. Shifted(T, U, l, k, c, i, s)
  BY <1>1 DEF Shifted
<1>3. k = l
  OBVIOUS
<1> HIDE DEF k
<1>4. Marks(U, k) = (Marks(T, l) \ (IF IsEntry(T[c][i]) THEN {MarkAt(T, l, c, i)} ELSE {}))
                      \cup (IF IsEntry(s) THEN {MarkAt(U, k, c, i)} ELSE {})
  BY <1>2, PutMarks
<1> QED BY <1>1, <1>3, <1>4

(* A file's entry in the first free place, or in the place of its own. *)
PutsFile(q, k, p, m, s) ==
    LET T == Seen(q) IN
    /\ Sane(q, k) /\ p.c \in DirCells(k) /\ p.i \in 1 .. Width(p.c) /\ Sited(q, p)
    /\ m \in Names /\ T[p.c][p.i].is \in {"unused", "deleted", "file"}
    /\ s = Entry32("file", m, IF T[p.c][p.i].is = "file" THEN T[p.c][p.i].first ELSE FREE)
    /\ NoneUnusedBefore(T, k, p.c, p.i) /\ NoneNamed(T, k, k.own[p.c], m)

(* An entry of an empty file written: there, or everything as it was. *)
LEMMA PutsFileIs ==
  ASSUME NEW q, NEW k, NEW p, NEW m, NEW s, PutsFile(q, k, p, m, s), NEW w, w = WriteSlot(q, p, s)
  PROVE  LET T == Seen(q)
             M == Marks(T, k)
             N == Marks(Seen(w), k)
         IN  /\ Onto(q, w) /\ Sane(w, k)
             /\ \/ N = M
                \/ N = (M \ (IF IsEntry(T[p.c][p.i]) THEN {MarkAt(T, k, p.c, p.i)} ELSE {}))
                          \cup {Mark(k.own[p.c], Index(k, p.c, p.i), m, ROOT_CLUSTER)}
<1> DEFINE T == Seen(q)
           U == Seen(w)
           c == p.c
           i == p.i
<1>1. /\ Sane(q, k) /\ c \in DirCells(k) /\ i \in 1 .. Width(c) /\ Sited(q, p)
      /\ m \in Names /\ T[c][i].is \in {"unused", "deleted", "file"}
      /\ s = Entry32("file", m, IF T[c][i].is = "file" THEN T[c][i].first ELSE FREE)
      /\ NoneUnusedBefore(T, k, c, i) /\ NoneNamed(T, k, k.own[c], m)
  BY DEF PutsFile
<1>2. q \in Vols /\ Good(T, Fat(q), k)
  BY <1>1 DEF Sane, Fine
<1> DEFINE f == IF T[c][i].is = "file" THEN T[c][i].first ELSE FREE
<1>3. f \in Cell
  <2>1. T[c][i] \in Slot
    BY <1>1, <1>2, GoodHas
  <2>2. T[c][i].first \in Cell /\ FREE \in Cell
    BY <2>1, SlotHas, CellsAre
  <2> QED BY <2>2
<1>4. s \in Slot /\ IsEntry(s) /\ s.name = m /\ s.is = "file"
  <2>1. s = Entry32("file", m, f)
    BY <1>1
  <2> HIDE DEF f
  <2> DEFINE kind == "file"
  <2>2. kind \in {"file", "dir"} /\ kind = "file"
    OBVIOUS
  <2> HIDE DEF kind
  <2>3. /\ Entry32(kind, m, f) \in Slot /\ IsEntry(Entry32(kind, m, f))
        /\ Entry32(kind, m, f).name = m /\ Entry32(kind, m, f).is = kind
    BY <1>1, <1>3, <2>2, FileSlot
  <2> QED BY <2>1, <2>2, <2>3
<1>w. Wrote(q, p, s, w)
  BY <1>1, <1>2, <1>4, WriteSlotIs
<1>5. Onto(q, w) /\ w \in Vols /\ Fat(w) = Fat(q) /\ w.leaked = q.leaked
  <2>1. Onto(q, w)
    BY <1>1, <1>2, <1>4, WritesOnto
  <2>2. w \in Vols /\ Fat(w) = Fat(q) /\ w.leaked = q.leaked
    BY <1>w DEF Wrote
  <2> QED BY <2>1, <2>2
<1>6. (\A l : PutAt(T, U, l, c, i, s)) \/ U = T
  BY <1>w DEF Wrote
<1> HIDE DEF T, U, c, i
<1>7. CASE U = T
  BY <1>1, <1>5, <1>7 DEF Sane, Fine, Tight, T, U
<1>8. CASE \A l : PutAt(T, U, l, c, i, s)
  <2>0. PutAt(T, U, k, c, i, s)
    BY <1>8
  <2>1. Good(U, Fat(q), k)
    BY <1>1, <1>2, <2>0, PutFile
  <2>2. Sane(w, k)
    BY <1>1, <1>5, <2>1 DEF Sane, Fine, Tight, U
  <2>4. /\ Marks(U, k) = (Marks(T, k) \ (IF IsEntry(T[c][i]) THEN {MarkAt(T, k, c, i)} ELSE {}))
                           \cup (IF IsEntry(s) THEN {MarkAt(U, k, c, i)} ELSE {})
        /\ U[c][i] = s
    BY <1>1, <1>2, <1>4, <2>0, PutMarksHere
  <2>5. MarkAt(U, k, c, i) = Mark(k.own[c], Index(k, c, i), m, ROOT_CLUSTER)
    BY <1>4, <2>4 DEF MarkAt
  <2> QED BY <1>4, <1>5, <2>2, <2>4, <2>5 DEF T, U, c, i
<1> QED BY <1>6, <1>7, <1>8

-----------------------------------------------------------------------------
(* Create *)

(* What one step of a call ends with, when it ends there. *)
Ends(v, l, w) == Onto(v, w) /\ (w.unread \/ \E k : Stands(v, l, w, k))

(* A call may end after reading only. *)
LEMMA ReadsEnds ==
  ASSUME NEW v, NEW l, Sane(v, l), NEW w, Reads(v, w)
  PROVE  Ends(v, l, w)
<1>1. Onto(v, w)
  BY OntoReads
<1>2. Stands(v, l, w, l)
  BY SaneReads, AlikeStands
<1> QED BY <1>1, <1>2 DEF Ends

(* A call that ends may read once more. *)
LEMMA EndsReads ==
  ASSUME NEW u, NEW v, NEW l, Ends(u, l, v), NEW w, Reads(v, w)
  PROVE  Ends(u, l, w)
<1>1. Onto(u, v) /\ Onto(v, w)
  BY OntoReads DEF Ends
<1>2. Onto(u, w)
  BY <1>1, OntoMore
<1>3. CASE w.unread
  BY <1>2, <1>3 DEF Ends
<1>4. CASE ~w.unread
  <2>1. ~v.unread
    BY <1>1, <1>4 DEF Onto
  <2>2. PICK k : Stands(u, l, v, k)
    BY <2>1 DEF Ends
  <2>3. Sane(v, k) /\ k.dirs = l.dirs /\ Marks(Seen(v), k) = Marks(Seen(u), l)
    BY <2>2 DEF Stands, Same
  <2>4. Alike(v, w, k, k)
    BY <2>3, SaneReads
  <2>5. Stands(u, l, w, k)
    BY <2>3, <2>4 DEF Alike, Stands, Same
  <2> QED BY <1>2, <2>5 DEF Ends
<1> QED BY <1>3, <1>4

(* The first free place for a name that is not there. *)
Readied(v, l, d, n, s) ==
    /\ Onto(v, s.v) /\ s.how \in {"found", "full"}
    /\ s.how = "found" => Sited(s.v, PlaceOf(s)) /\ (s.c = ROOT_CLUSTER <=> d = ROOT_CLUSTER)
    /\ s.v.unread \/ \E k : /\ Stands(v, l, s.v, k) /\ NoneNamed(Seen(s.v), k, d, n)
                            /\ NoneNamed(Seen(v), l, d, n)
                            /\ s.how = "found" => FreeAt(s.v, k, d, s.c, s.i)

(* A name looked for and not found, then a slot sought for it. *)
LEMMA ReadiedIs ==
  ASSUME NEW v, NEW l, Sane(v, l), NEW d \in l.dirs, NEW n \in Names,
         NEW r, r = FindInDir(v, d, n), r.how # "found"
  PROVE  Readied(v, l, d, n, FindDirFree(r.v, d))
<1> DEFINE s == FindDirFree(r.v, d)
<1> SUFFICES Readied(v, l, d, n, s)
  OBVIOUS
<1>1. FindDone(v, l, d, n, r)
  BY FindInDirIs DEF Sane
<1>2. Reads(v, r.v) /\ (r.v.unread \/ NoneNamed(Seen(v), l, d, n))
  BY <1>1 DEF FindDone
<1>3. Alike(v, r.v, l, l) /\ Sane(r.v, l)
  BY <1>2, SaneReads
<1>4. FreeDone(r.v, l, d, s)
  BY <1>3, FindDirFreeIs
<1> HIDE DEF s
<1>5. /\ Onto(r.v, s.v) /\ s.how \in {"found", "full"}
      /\ s.how = "found" => Sited(s.v, PlaceOf(s)) /\ (s.c = ROOT_CLUSTER <=> d = ROOT_CLUSTER)
      /\ s.v.unread \/ \E k : Alike(r.v, s.v, l, k) /\ (s.how = "found" => FreeAt(s.v, k, d, s.c, s.i))
  BY <1>4 DEF FreeDone
<1>6. Onto(v, s.v)
  BY <1>2, <1>5, OntoReads, OntoMore
<1>7. s.v.unread \/ \E k : /\ Stands(v, l, s.v, k) /\ NoneNamed(Seen(s.v), k, d, n)
                           /\ NoneNamed(Seen(v), l, d, n)
                           /\ s.how = "found" => FreeAt(s.v, k, d, s.c, s.i)
  <2>1. SUFFICES ASSUME ~s.v.unread
                 PROVE  \E k : /\ Stands(v, l, s.v, k) /\ NoneNamed(Seen(s.v), k, d, n)
                               /\ NoneNamed(Seen(v), l, d, n)
                               /\ s.how = "found" => FreeAt(s.v, k, d, s.c, s.i)
    BY <2>1
  <2>2. ~r.v.unread
    BY <1>5, <2>1 DEF Onto
  <2>3. PICK k : Alike(r.v, s.v, l, k) /\ (s.how = "found" => FreeAt(s.v, k, d, s.c, s.i))
    BY <1>5, <2>1
  <2>4. Stands(v, l, s.v, k) /\ Marks(Seen(s.v), k) = Marks(Seen(v), l)
    BY <1>3, <2>3 DEF Alike, Stands, Same
  <2>5. NoneNamed(Seen(v), l, d, n)
    BY <1>2, <2>2
  <2>6. NoneNamed(Seen(s.v), k, d, n)
    BY <2>4, <2>5, NoneNamedIs
  <2> QED BY <2>3, <2>4, <2>5, <2>6
<1> QED BY <1>5, <1>6, <1>7 DEF Readied

CreateLoaded(v, p, n) == IF v.fat.cf THEN v ELSE WriteSlot(v, p, Entry32("file", n, FREE))
CreatePlaced(s, n) ==
    IF s.how = "found" THEN CreateLoaded(Load(s.v, PlaceOf(s)), PlaceOf(s), n) ELSE s.v
CreateTo(v, d, n) ==
    LET Looked(r) == IF r.how = "found" THEN r.v ELSE CreatePlaced(FindDirFree(r.v, d), n)
    IN  Looked(FindInDir(v, d, n))

Created(v, l, d, n, w) ==
    /\ Onto(v, w)
    /\ w.unread \/ \E k : /\ Sane(w, k)
                          /\ LET M == Marks(Seen(v), l)
                                 N == Marks(Seen(w), k)
                             IN  Same(M, l.dirs, N, k.dirs) \/ AddedFile(M, l.dirs, N, k.dirs, d, n)

(* A create that changes no name is one that fails. *)
LEMMA EndsCreated ==
  ASSUME NEW v, NEW l, NEW d, NEW n, NEW w, Ends(v, l, w)
  PROVE  Created(v, l, d, n, w)
BY DEF Ends, Created, Stands

(* Create from the free slot on. *)
LEMMA CreatePlacedIs ==
  ASSUME NEW v, NEW l, Sane(v, l), NEW d \in l.dirs, NEW n \in Names, NEW s, Readied(v, l, d, n, s)
  PROVE  Created(v, l, d, n, CreatePlaced(s, n))
<1>0. /\ Onto(v, s.v) /\ s.how \in {"found", "full"}
      /\ s.how = "found" => Sited(s.v, PlaceOf(s)) /\ (s.c = ROOT_CLUSTER <=> d = ROOT_CLUSTER)
      /\ s.v.unread \/ \E k : /\ Stands(v, l, s.v, k) /\ NoneNamed(Seen(s.v), k, d, n)
                              /\ NoneNamed(Seen(v), l, d, n)
                              /\ s.how = "found" => FreeAt(s.v, k, d, s.c, s.i)
  BY DEF Readied
<1>1. Ends(v, l, s.v)
  BY <1>0 DEF Ends
<1>2. CASE s.how # "found"
  <2>1. CreatePlaced(s, n) = s.v
    BY <1>2 DEF CreatePlaced
  <2> QED BY <1>1, <2>1, EndsCreated
<1>3. CASE s.how = "found"
  <2> DEFINE p == PlaceOf(s)
             q == Load(s.v, p)
             e == Entry32("file", n, FREE)
             w == WriteSlot(q, p, e)
  <2>1. CreatePlaced(s, n) = IF q.fat.cf THEN q ELSE w
    BY <1>3 DEF CreatePlaced, CreateLoaded
  <2>2. Reads(s.v, q)
    BY <1>0, LoadIs DEF Onto
  <2>3. Sited(s.v, p) /\ p.c = s.c /\ p.i = s.i
    BY <1>0, <1>3, PlaceIs
  <2>4. Sited(q, p) /\ q \in Vols /\ Onto(s.v, q)
    BY <2>2, <2>3, SitedReads, OntoReads DEF Reads
  <2>5. Ends(v, l, q)
    BY <1>1, <2>2, EndsReads
  <2>6. CASE q.fat.cf
    BY <2>1, <2>5, <2>6, EndsCreated
  <2>7. CASE ~q.fat.cf
    <3>0. e \in Slot
      BY FileSlot, CellsAre
    <3>1. Onto(q, w)
      BY <2>4, <3>0, WritesOnto
    <3>w. w = WriteSlot(q, p, e)
      OBVIOUS
    <3>e. e = Entry32("file", n, FREE)
      OBVIOUS
    <3> HIDE DEF p, q, e, w
    <3>2. Onto(v, w)
      BY <1>0, <2>4, <3>1, OntoMore
    <3>3. CASE w.unread
      BY <2>1, <2>7, <3>2, <3>3 DEF Created
    <3>4. CASE ~w.unread
      <4>1. ~q.unread /\ ~s.v.unread
        BY <2>4, <3>1, <3>4 DEF Onto
      <4>2. PICK k : /\ Stands(v, l, s.v, k) /\ NoneNamed(Seen(s.v), k, d, n)
                     /\ NoneNamed(Seen(v), l, d, n) /\ FreeAt(s.v, k, d, s.c, s.i)
        BY <1>0, <1>3, <4>1
      <4>3. Sane(s.v, k) /\ k.dirs = l.dirs /\ Marks(Seen(s.v), k) = Marks(Seen(v), l)
        BY <4>2 DEF Stands, Same
      <4>4. Alike(s.v, q, k, k) /\ Seen(q) = Seen(s.v)
        BY <2>2, <4>3, SaneReads, ReadsIs
      <4>5. Sane(q, k) /\ Marks(Seen(q), k) = Marks(Seen(v), l)
        BY <4>3, <4>4 DEF Alike
      <4> DEFINE T == Seen(q)
      <4>6. /\ p.c \in DirCells(k) /\ k.own[p.c] = d /\ p.i \in 1 .. Width(p.c)
            /\ T[p.c][p.i].is \in {"unused", "deleted"} /\ NoneUnusedBefore(T, k, p.c, p.i)
        BY <2>3, <4>2, <4>4 DEF FreeAt
      <4>7. PutsFile(q, k, p, n, e)
        BY <2>4, <3>e, <4>2, <4>4, <4>5, <4>6 DEF PutsFile
      <4>8. /\ Sane(w, k)
            /\ \/ Marks(Seen(w), k) = Marks(T, k)
               \/ Marks(Seen(w), k) = (Marks(T, k) \ (IF IsEntry(T[p.c][p.i]) THEN {MarkAt(T, k, p.c, p.i)} ELSE {}))
                                       \cup {Mark(k.own[p.c], Index(k, p.c, p.i), n, ROOT_CLUSTER)}
        BY <3>w, <4>7, PutsFileIs
      <4>9. ~IsEntry(T[p.c][p.i])
        BY <4>6 DEF IsEntry
      <4>10. Index(k, p.c, p.i) \in Nat
        BY <4>5, <4>6, IndexIs DEF Sane, Fine
      <4>11. Fresh(Marks(Seen(v), l), d, n)
        BY <4>2, NoneNamedIs DEF Fresh
      <4> HIDE DEF T
      <4>12. CASE Marks(Seen(w), k) = Marks(T, k)
        <5>1. Same(Marks(Seen(v), l), l.dirs, Marks(Seen(w), k), k.dirs)
          BY <4>3, <4>5, <4>12 DEF Same, T
        <5> QED BY <2>1, <2>7, <3>2, <4>8, <5>1 DEF Created
      <4>13. CASE Marks(Seen(w), k) = Marks(T, k) \cup {Mark(d, Index(k, p.c, p.i), n, ROOT_CLUSTER)}
        <5>1. AddedFile(Marks(Seen(v), l), l.dirs, Marks(Seen(w), k), k.dirs, d, n)
          BY <4>3, <4>5, <4>10, <4>11, <4>13 DEF AddedFile, T
        <5> QED BY <2>1, <2>7, <3>2, <4>8, <5>1 DEF Created
      <4> QED BY <4>6, <4>8, <4>9, <4>12, <4>13
    <3> QED BY <3>3, <3>4
  <2> QED BY <2>6, <2>7
<1> QED BY <1>2, <1>3

(* Create adds the file's name, or nothing, unless a read failed. *)
LEMMA CreateIs ==
  ASSUME NEW v, NEW l, Sane(v, l), NEW d \in l.dirs, NEW n \in Names
  PROVE  Created(v, l, d, n, CreateTo(v, d, n))
<1> DEFINE r == FindInDir(v, d, n)
<1>1. CASE r.how = "found"
  <2>1. FindDone(v, l, d, n, r)
    BY FindInDirIs DEF Sane
  <2>2. Ends(v, l, r.v)
    BY <2>1, ReadsEnds DEF FindDone
  <2>3. CreateTo(v, d, n) = r.v
    BY <1>1 DEF CreateTo
  <2> QED BY <2>2, <2>3, EndsCreated
<1>2. CASE r.how # "found"
  <2>1. Readied(v, l, d, n, FindDirFree(r.v, d))
    BY <1>2, ReadiedIs
  <2>2. CreateTo(v, d, n) = CreatePlaced(FindDirFree(r.v, d), n)
    BY <1>2 DEF CreateTo
  <2> QED BY <2>1, <2>2, CreatePlacedIs
<1> QED BY <1>1, <1>2

-----------------------------------------------------------------------------
(* Chains that are freed *)

(* An entry without a cluster has nothing to free. *)
LEMMA FreeNone ==
  ASSUME NEW t \in Tables
  PROVE  LET u == FreeChain(t, FREE) IN SameBounds(t, u) /\ u.ios >= t.ios /\ View(u) = View(t)
<1> DEFINE a == [t EXCEPT !.ax = FREE]
<1>0. FREE \in Entry /\ FREE \notin Clusters
  BY CellsAre DEF Entry
<1>1. /\ a \in Tables /\ View(a) = View(t) /\ a.fails = t.fails /\ a.ios = t.ios /\ a.hint = t.hint /\ a.ax = FREE
  BY <1>0, AnsweringIs, TableHas DEF Answering, SameTable
<1>2. PICK g : FreeTurns(g, t, FREE) /\ FreeChain(t, FREE) = g[NClusters]
  BY <1>0, FreeTurnsExist
<1> DEFINE I == {k \in 0 .. NClusters : g[k] = a}
<1>3. NClusters \in Nat /\ 0 \in Nat
  BY ClustersFinite
<1>4. 0 \in I
  BY <1>2, <1>3 DEF FreeTurns
<1> HIDE DEF a
<1>5. FreeNext(a) = a
  BY <1>0, <1>1 DEF FreeNext
<1>6. \A k \in 0 + 1 .. NClusters : k - 1 \in I => k \in I
  <2> SUFFICES ASSUME NEW k \in 0 + 1 .. NClusters, k - 1 \in I PROVE k \in I
    OBVIOUS
  <2>1. k \in 0 .. NClusters /\ k # 0
    BY <1>3
  <2>2. g[k] = FreeNext(g[k - 1])
    BY <1>2, <2>1 DEF FreeTurns
  <2> QED BY <1>5, <2>1, <2>2
<1>7. \A k \in 0 .. NClusters : k \in I
  <2> HIDE DEF I
  <2> QED BY <1>3, <1>4, <1>6, Upwards
<1>8. g[NClusters] = a
  BY <1>3, <1>7
<1>9. t.ios \in Nat
  BY TableHas
<1> QED BY <1>1, <1>2, <1>8, <1>9 DEF SameBounds

(* The clusters of first cluster x are a chain. *)
LEMMA OwnChain ==
  ASSUME NEW F, NEW l, GoodChains(F, l), NEW x \in Clusters, l.own[x] = x
  PROVE  ChainFrom(F, CellsOf(l, x), [c \in CellsOf(l, x) |-> l.pos[c]], x)
<1> DEFINE S == CellsOf(l, x)
           f == [c \in S |-> l.pos[c]]
<1>1. /\ l \in Layouts
      /\ \A c \in Clusters : l.own[c] # Nobody =>
           /\ F[c] # FREE /\ l.own[c] # ROOT_CLUSTER
           /\ l.own[c] = c <=> l.pos[c] = 0
           /\ F[c] = EOC \/ (F[c] \in Clusters /\ l.own[F[c]] = l.own[c] /\ l.pos[F[c]] = l.pos[c] + 1)
           /\ l.pos[c] # 0 => \E b \in Clusters : l.own[b] = l.own[c] /\ F[b] = c /\ l.pos[b] + 1 = l.pos[c]
           /\ l.own[c] \notin l.dirs => l.own[c] = c /\ F[c] = EOC
      /\ \A b, c \in Clusters : l.own[b] = l.own[c] /\ l.own[b] # Nobody /\ l.pos[b] = l.pos[c] => b = c
      /\ l.own[ROOT_CLUSTER] = ROOT_CLUSTER
  BY DEF GoodChains
<1>2. x \in Cell /\ x # Nobody /\ x # ROOT_CLUSTER /\ \A c \in Cell : l.pos[c] \in Nat
  BY <1>1, CellsAre, LayoutHas
<1>3. /\ S \subseteq Clusters /\ x \in S
      /\ \A c \in Clusters : c \in S <=> l.own[c] = x
  BY <1>1, <1>2, CellsAre DEF CellsOf
<1>4. \A c \in S : f[c] = l.pos[c] /\ l.pos[c] \in Nat
  BY <1>2, <1>3, CellsAre
<1>5. f \in [S -> Nat]
  BY <1>4
<1>6. \A c \in S : l.pos[c] < NClusters
  <2>1. CASE x \in l.dirs
    BY <2>1, CellsOfIs
  <2>2. CASE x \notin l.dirs
    <3>1. \A c \in S : c = x
      BY <1>1, <1>2, <1>3, <2>2
    <3>2. l.pos[x] = 0
      BY <1>1, <1>2
    <3>3. NClusters \in Nat /\ NClusters # 0
      BY ClustersFinite, FS_EmptySet DEF NClusters
    <3> QED BY <3>1, <3>2, <3>3
  <2> QED BY <2>1, <2>2
<1> SUFFICES ChainFrom(F, S, f, x)
  OBVIOUS
<1> HIDE DEF S, f
<1>7. f[x] = 0
  BY <1>1, <1>2, <1>3, <1>4
<1>8. \A y \in S : F[y] = EOC \/ (F[y] \in S /\ f[F[y]] = f[y] + 1)
  BY <1>1, <1>2, <1>3, <1>4
<1>9. \A y, z \in S : f[y] = f[z] => y = z
  BY <1>1, <1>2, <1>3, <1>4
<1>10. \A y \in S : f[y] # 0 => \E p \in S : f[p] + 1 = f[y] /\ F[p] = y
  BY <1>1, <1>2, <1>3, <1>4
<1>11. \A y \in S : f[y] < NClusters
  BY <1>4, <1>6
<1> QED BY <1>3, <1>5, <1>7, <1>8, <1>9, <1>10, <1>11 DEF ChainFrom

FreesOf(t, u, l, x) ==
    /\ u \in Tables /\ u.fails = t.fails /\ u.ios >= t.ios
    /\ \A y \in Clusters : \/ View(u)[y] = View(t)[y]
                           \/ l.own[y] = x /\ x # ROOT_CLUSTER /\ View(u)[y] = FREE
    /\ ~Broken(u) => \A y \in Clusters : l.own[y] = x /\ x # ROOT_CLUSTER => View(u)[y] = FREE

(* fat_free_chain frees a chain of the layout, all of it or, when a        *)
(* transfer fails, a part.                                                 *)
LEMMA FreesOfIs ==
  ASSUME NEW t \in Tables, NEW l, GoodChains(View(t), l), NEW x \in Cell,
         x # ROOT_CLUSTER => l.own[x] = x
  PROVE  FreesOf(t, FreeChain(t, x), l, x)
<1>1. CASE x = ROOT_CLUSTER
  BY <1>1, FreeNone, CellsAre DEF FreesOf, SameBounds
<1>2. CASE x # ROOT_CLUSTER
  <2>1. x \in Clusters /\ l.own[x] = x /\ l.own[ROOT_CLUSTER] = ROOT_CLUSTER
    BY <1>2, CellsAre DEF GoodChains
  <2>2. ChainFrom(View(t), CellsOf(l, x), [c \in CellsOf(l, x) |-> l.pos[c]], x)
    BY <2>1, OwnChain
  <2> DEFINE u == FreeChain(t, x)
  <2>3. /\ SameBounds(t, u) /\ u.ios >= t.ios
        /\ \A y \in Clusters : View(u)[y] = View(t)[y] \/ (y \in CellsOf(l, x) /\ View(u)[y] = FREE)
        /\ ~Broken(u) => \A y \in CellsOf(l, x) : View(u)[y] = FREE
    BY <2>2, FreeChainIs
  <2>4. \A y \in Clusters : y \in CellsOf(l, x) <=> l.own[y] = x
    BY CellsAre DEF CellsOf
  <2> HIDE DEF u
  <2>5. FreesOf(t, u, l, x)
    BY <1>2, <2>3, <2>4 DEF FreesOf, SameBounds
  <2> QED BY <2>5 DEF u
<1> QED BY <1>1, <1>2

-----------------------------------------------------------------------------
(* An entry goes *)

RemovesAt(v, l, p, x) ==
    /\ Sane(v, l) /\ p.c \in DirCells(l) /\ p.i \in 1 .. Width(p.c)
    /\ IsEntry(Seen(v)[p.c][p.i]) /\ x = Seen(v)[p.c][p.i].first
    /\ Seen(v)[p.c][p.i].is = "dir" => NoneIn(Seen(v), l, x)

GoneTo(v, l, p, x, w) ==
    \E k : /\ Sane(w, k) /\ k.dirs = l.dirs \ ({x} \ {ROOT_CLUSTER})
           /\ Marks(Seen(w), k) = Marks(Seen(v), l) \ {MarkAt(Seen(v), l, p.c, p.i)}

(* What becomes of the clusters of an entry that goes. *)
Frees(v, w, l, x) ==
    /\ w \in Vols /\ (v.leaked => w.leaked)
    /\ \A y \in Clusters : \/ Fat(w)[y] = Fat(v)[y]
                           \/ l.own[y] = x /\ x # ROOT_CLUSTER /\ Fat(w)[y] = FREE
    /\ w.leaked \/ \A y \in Clusters : l.own[y] = x /\ x # ROOT_CLUSTER => Fat(w)[y] = FREE

(* An entry marked deleted and its chain freed leave a good tree. *)
LEMMA RemovePut ==
  ASSUME NEW v, NEW l, NEW p, NEW x, RemovesAt(v, l, p, x), NEW w, Frees(v, w, l, x),
         PutAt(Seen(v), Seen(w), l, p.c, p.i, DELETED)
  PROVE  GoneTo(v, l, p, x, w)
<1> DEFINE T == Seen(v)
           U == Seen(w)
           F == Fat(v)
           G == Fat(w)
           c == p.c
           i == p.i
           k == Gone(l, x)
<1>1. /\ v \in Vols /\ Good(T, F, l) /\ c \in DirCells(l) /\ i \in 1 .. Width(c)
      /\ IsEntry(T[c][i]) /\ x = T[c][i].first /\ (T[c][i].is = "dir" => NoneIn(T, l, x))
      /\ v.leaked \/ \A y \in Clusters : F[y] # FREE => l.own[y] # Nobody
  BY DEF RemovesAt, Sane, Fine, Tight
<1>2. /\ w \in Vols /\ (v.leaked => w.leaked)
      /\ \A y \in Clusters : \/ G[y] = F[y]
                             \/ l.own[y] = x /\ x # ROOT_CLUSTER /\ G[y] = FREE
      /\ w.leaked \/ \A y \in Clusters : l.own[y] = x /\ x # ROOT_CLUSTER => G[y] = FREE
  BY DEF Frees
<1>3. PutAt(T, U, l, c, i, DELETED)
  OBVIOUS
<1> HIDE DEF T, U, F, G, c, i
<1>4. T[c][i] \in Slot /\ x \in Cell /\ l \in Layouts /\ c \in Cell
  BY <1>1, GoodHas, SlotHas
<1>5. /\ k \in Layouts /\ k.pos = l.pos
      /\ \A y \in Cell : k.own[y] = IF l.own[y] = x /\ x # ROOT_CLUSTER THEN Nobody ELSE l.own[y]
      /\ k.dirs = l.dirs \ ({x} \ {ROOT_CLUSTER})
  BY <1>4, GoneIs DEF Gone
<1> SUFFICES \E j : /\ Sane(w, j) /\ j.dirs = l.dirs \ ({x} \ {ROOT_CLUSTER})
                    /\ Marks(U, j) = Marks(T, l) \ {MarkAt(T, l, c, i)}
  BY DEF GoneTo, T, U, c, i
<1>6. \A y \in Clusters : Gone(l, x).own[y] # Nobody => G[y] = F[y]
  BY <1>2, <1>5, CellsAre
<1>7. /\ Good(U, G, k)
      /\ \A b \in DirCells(l) : b \in DirCells(k) <=> (l.own[b] = x => x = ROOT_CLUSTER)
      /\ DirCells(k) \subseteq DirCells(l)
  BY <1>1, <1>3, <1>6, Remove
<1> HIDE DEF k
<1>8. w.leaked \/ \A y \in Clusters : G[y] # FREE => k.own[y] # Nobody
  <2> SUFFICES ASSUME ~w.leaked, NEW y \in Clusters, G[y] # FREE PROVE k.own[y] # Nobody
    OBVIOUS
  <2>1. G[y] = F[y] /\ ~(l.own[y] = x /\ x # ROOT_CLUSTER)
    BY <1>2
  <2>2. l.own[y] # Nobody
    BY <1>1, <1>2, <2>1
  <2> QED BY <1>5, <2>1, <2>2, CellsAre
<1>9. Sane(w, k)
  BY <1>2, <1>7, <1>8 DEF Sane, Fine, Tight, U, G
<1>10. l.own[c] = x => x = ROOT_CLUSTER
  <2> SUFFICES ASSUME l.own[c] = x, x # ROOT_CLUSTER PROVE FALSE
    OBVIOUS
  <2>1. x \in l.dirs
    BY <1>1 DEF DirCells
  <2>2. T[c][i].is = "dir"
    BY <1>1, <2>1, EntriesHave DEF IsEntry
  <2> QED BY <1>1, <2>2 DEF NoneIn
<1>11. \A b \in DirCells(l) : b \notin DirCells(k) => \A j \in 1 .. Width(b) : ~IsEntry(T[b][j])
  <2> SUFFICES ASSUME NEW b \in DirCells(l), b \notin DirCells(k)
               PROVE  \A j \in 1 .. Width(b) : ~IsEntry(T[b][j])
    OBVIOUS
  <2>1. l.own[b] = x /\ x # ROOT_CLUSTER /\ x \in l.dirs
    BY <1>7 DEF DirCells
  <2>2. T[c][i].is = "dir"
    BY <1>1, <2>1, EntriesHave DEF IsEntry
  <2> QED BY <1>1, <2>1, <2>2 DEF NoneIn
<1>12. \A b \in DirCells(l) : \A j \in 1 .. Width(b) :
          U[b][j] = IF b = c /\ j = i THEN DELETED ELSE T[b][j]
  <2>1. DELETED \in Slot
    BY CellsAre DEF DELETED, Entry32, Slot, Kind, Dots
  <2> QED BY <1>1, <1>3, <2>1, PutAtIs
<1>13. Shifted(T, U, l, k, c, i, DELETED)
  <2>1. c \in DirCells(k)
    BY <1>1, <1>7, <1>10
  <2>2. \A b \in DirCells(l) : b \in DirCells(k) => k.own[b] = l.own[b] /\ k.pos[b] = l.pos[b]
    <3>1. \A b \in DirCells(l) : b \in Cell
      BY DEF DirCells
    <3> QED BY <1>5, <1>7, <3>1
  <2> QED BY <1>1, <1>7, <1>11, <1>12, <2>1, <2>2 DEF Shifted
<1>14. ~IsEntry(DELETED)
  BY DEF DELETED, Entry32, IsEntry
<1>15. Marks(U, k) = (Marks(T, l) \ (IF IsEntry(T[c][i]) THEN {MarkAt(T, l, c, i)} ELSE {}))
                        \cup (IF IsEntry(DELETED) THEN {MarkAt(U, k, c, i)} ELSE {})
  BY <1>1, <1>13, PutMarks
<1>16. Marks(U, k) = Marks(T, l) \ {MarkAt(T, l, c, i)}
  BY <1>1, <1>14, <1>15
<1> QED BY <1>5, <1>9, <1>16

(* Noting what was lost changes nothing else. *)
LEMMA LeakPut ==
  ASSUME NEW f \in Vols, NEW lk \in BOOLEAN, NEW g, g = [f EXCEPT !.leaked = lk]
  PROVE  /\ g \in Vols /\ g.fat = f.fat /\ g.root = f.root /\ g.disk = f.disk /\ g.sub = f.sub
         /\ g.unread = f.unread /\ g.leaked = lk /\ Seen(g) = Seen(f) /\ Fat(g) = Fat(f)
<1>1. f.fat \in Tables
  BY VolHas
<1>4. g = Vol(f.fat, f.root, f.disk, f.sub, f.unread, lk)
  BY DEF Vols, Vol
<1>5. /\ g \in Vols /\ g.fat = f.fat /\ g.root = f.root /\ g.disk = f.disk /\ g.sub = f.sub
      /\ g.unread = f.unread /\ g.leaked = lk
  BY <1>1, <1>4, LeakedPut
<1> QED BY <1>1, <1>5 DEF Seen, Fat

(* Noting what was lost changes nothing else. *)
LEMMA LeakMore ==
  ASSUME NEW f \in Vols, NEW b \in BOOLEAN
  PROVE  LET g == [f EXCEPT !.leaked = @ \/ b] IN
         /\ g \in Vols /\ g.fat = f.fat /\ g.root = f.root /\ g.disk = f.disk /\ g.sub = f.sub
         /\ g.unread = f.unread /\ (g.leaked <=> f.leaked \/ b)
         /\ Onto(f, g) /\ Seen(g) = Seen(f) /\ Fat(g) = Fat(f)
<1> DEFINE lk == f.leaked \/ b
           g == [f EXCEPT !.leaked = lk]
<1>1. lk \in BOOLEAN
  OBVIOUS
<1>2. lk <=> f.leaked \/ b
  OBVIOUS
<1>3. [f EXCEPT !.leaked = @ \/ b] = g
  OBVIOUS
<1> HIDE DEF lk
<1>4. g = [f EXCEPT !.leaked = lk]
  OBVIOUS
<1> HIDE DEF g
<1>5. /\ g \in Vols /\ g.fat = f.fat /\ g.root = f.root /\ g.disk = f.disk /\ g.sub = f.sub
      /\ g.unread = f.unread /\ g.leaked = lk /\ Seen(g) = Seen(f) /\ Fat(g) = Fat(f)
  BY <1>1, <1>4, LeakPut
<1>6. Onto(f, g)
  BY <1>2, <1>5 DEF Onto
<1> SUFFICES /\ g \in Vols /\ g.fat = f.fat /\ g.root = f.root /\ g.disk = f.disk /\ g.sub = f.sub
             /\ g.unread = f.unread /\ (g.leaked <=> f.leaked \/ b)
             /\ Onto(f, g) /\ Seen(g) = Seen(f) /\ Fat(g) = Fat(f)
  BY <1>3, Zenon
<1> QED BY <1>2, <1>5, <1>6

RemoveFreed(w, x) ==
    LET f == [w EXCEPT !.fat = FlushFat(FreeChain(@, x))] IN [f EXCEPT !.leaked = @ \/ Failed(f)]
RemoveWritten(v, w, p, x) ==
    IF w.fat.cf THEN [w EXCEPT !.leaked = @ \/ p.c = ROOT_CLUSTER] ELSE RemoveFreed(w, x)

(* The freeing behind a removal touches that chain only. *)
LEMMA RemoveFreedIs ==
  ASSUME NEW w \in Vols, NEW l, GoodChains(Fat(w), l), NEW x \in Cell, x # ROOT_CLUSTER => l.own[x] = x
  PROVE  LET g == RemoveFreed(w, x) IN Onto(w, g) /\ Frees(w, g, l, x) /\ Seen(g) = Seen(w)
<1> DEFINE t == FreeChain(w.fat, x)
           y == FlushFat(t)
           f == [w EXCEPT !.fat = y]
           g == RemoveFreed(w, x)
<1>0. /\ w.fat \in Tables /\ w.root \in Roots /\ w.disk \in Roots /\ w.sub \in Subs
      /\ w.unread \in BOOLEAN /\ w.leaked \in BOOLEAN
  BY VolHas
<1>1. FreesOf(w.fat, t, l, x)
  BY <1>0, FreesOfIs DEF Fat
<1>2. /\ t \in Tables /\ t.fails = w.fat.fails /\ t.ios >= w.fat.ios
      /\ \A b \in Clusters : \/ View(t)[b] = Fat(w)[b]
                             \/ l.own[b] = x /\ x # ROOT_CLUSTER /\ View(t)[b] = FREE
      /\ ~Broken(t) => \A b \in Clusters : l.own[b] = x /\ x # ROOT_CLUSTER => View(t)[b] = FREE
  BY <1>1 DEF FreesOf, Fat
<1> HIDE DEF t
<1>3. y \in Tables /\ View(y) = View(t) /\ y.fails = t.fails /\ y.ios >= t.ios
  BY <1>2, FlushFatIs
<1> HIDE DEF y
<1>4. f \in Vols /\ f.fat = y /\ f.root = w.root /\ f.disk = w.disk /\ f.sub = w.sub
      /\ f.unread = w.unread /\ f.leaked = w.leaked
  BY <1>3, FatPut
<1>5. g = [f EXCEPT !.leaked = @ \/ Failed(f)]
  BY DEF RemoveFreed, t, y
<1>6. Failed(f) \in BOOLEAN
  BY DEF Failed
<1> HIDE DEF f
<1>7. LET h == [f EXCEPT !.leaked = @ \/ Failed(f)] IN
      /\ h \in Vols /\ h.fat = f.fat /\ h.root = f.root /\ h.disk = f.disk /\ h.sub = f.sub
      /\ h.unread = f.unread /\ (h.leaked <=> f.leaked \/ Failed(f))
  BY <1>4, <1>6, LeakMore
<1>8. /\ g \in Vols /\ g.fat = y /\ g.root = w.root /\ g.disk = w.disk /\ g.sub = w.sub /\ g.unread = w.unread
      /\ (g.leaked <=> w.leaked \/ Failed(f))
  <2> HIDE DEF g
  <2>1. /\ g \in Vols /\ g.fat = f.fat /\ g.root = f.root /\ g.disk = f.disk /\ g.sub = f.sub
        /\ g.unread = f.unread /\ (g.leaked <=> f.leaked \/ Failed(f))
    BY <1>5, <1>7, Zenon
  <2> QED BY <1>4, <2>1
<1> HIDE DEF g
<1>9. ~Failed(f) => ~Broken(t)
  <2> SUFFICES ASSUME Broken(t) PROVE Failed(f)
    OBVIOUS
  <2>1. PICK n \in 1 .. t.ios : n \in t.fails
    BY DEF Broken
  <2>2. n \in 1 .. y.ios
    BY <1>2, <1>3, TableHas
  <2> HIDE DEF f
  <2> QED BY <1>3, <1>4, <2>1, <2>2 DEF Failed
<1>10. Fat(g) = View(t)
  BY <1>3, <1>8 DEF Fat
<1>11. Frees(w, g, l, x)
  <2> HIDE DEF f
  <2>1. w.leaked => g.leaked
    BY <1>8
  <2>2. g.leaked \/ ~Failed(f)
    BY <1>8
  <2> QED BY <1>2, <1>8, <1>9, <1>10, <2>1, <2>2 DEF Frees
<1>12. Onto(w, g)
  BY <1>2, <1>3, <1>8 DEF Onto
<1>13. Seen(g) = Seen(w)
  BY <1>8 DEF Seen
<1> QED BY <1>11, <1>12, <1>13 DEF g

-----------------------------------------------------------------------------
(* Delete and remove a directory *)

(* A removal: the entry deleted and its chain freed (what is not freed is  *)
(* noted), or nothing.                                                     *)
LEMMA RemoveEntryIs ==
  ASSUME NEW v, NEW l, Fine(v, l), NEW p, p.c \in DirCells(l), p.i \in 1 .. Width(p.c), NEW x \in Cell,
         x # ROOT_CLUSTER => l.own[x] = x
  PROVE  LET w == RemoveEntry(v, p, x) IN
         /\ Onto(v, w)
         /\ \/ Seen(w) = Seen(v) /\ Fat(w) = Fat(v) /\ w.leaked = v.leaked
            \/ Frees(v, w, l, x) /\ PutAt(Seen(v), Seen(w), l, p.c, p.i, DELETED)
<1> DEFINE u == WriteSlot(v, p, DELETED)
           w == RemoveWritten(v, u, p, x)
<1>1. v \in Vols /\ Good(Seen(v), Fat(v), l)
  BY DEF Fine
<1>2. Sited(v, p) /\ DELETED \in Slot
  <2>1. p.c \in Cell /\ Seen(v)[p.c] \in [1 .. Width(p.c) -> Slot]
    BY <1>1, GoodHas
  <2>2. DELETED \in Slot
    BY CellsAre DEF DELETED, Entry32, Slot, Kind, Dots
  <2> QED BY <1>1, <2>1, <2>2, SitedIs
<1>3. Wrote(v, p, DELETED, u)
  BY <1>1, <1>2, WriteSlotIs
<1>4. Onto(v, u)
  BY <1>1, <1>2, WritesOnto
<1> HIDE DEF u
<1>5. /\ u \in Vols /\ Fat(u) = Fat(v) /\ u.fat.cf \in BOOLEAN /\ u.leaked = v.leaked
      /\ p.c = ROOT_CLUSTER \/ ~u.fat.cf => PutAt(Seen(v), Seen(u), l, p.c, p.i, DELETED)
      /\ p.c # ROOT_CLUSTER /\ u.fat.cf => Seen(u) = Seen(v)
  BY <1>3 DEF Wrote
<1>6. RemoveEntry(v, p, x) = w
  BY DEF RemoveEntry, RemoveWritten, RemoveFreed, u
<1>7. CASE u.fat.cf
  <2> DEFINE b == p.c = ROOT_CLUSTER
             g == [u EXCEPT !.leaked = @ \/ b]
  <2>1. b \in BOOLEAN
    OBVIOUS
  <2>b. b <=> p.c = ROOT_CLUSTER
    OBVIOUS
  <2>2. w = g
    BY <1>7 DEF RemoveWritten
  <2> HIDE DEF b
  <2>3. /\ g \in Vols /\ (g.leaked <=> u.leaked \/ b) /\ Onto(u, g) /\ Seen(g) = Seen(u) /\ Fat(g) = Fat(u)
    BY <1>5, <2>1, LeakMore
  <2> HIDE DEF g, w
  <2>4. Onto(v, g)
    BY <1>4, <2>3, OntoMore
  <2>5. CASE p.c = ROOT_CLUSTER
    <3>1. Frees(v, g, l, x)
      BY <1>5, <2>b, <2>3, <2>5 DEF Frees
    <3>2. PutAt(Seen(v), Seen(g), l, p.c, p.i, DELETED)
      BY <1>5, <2>3, <2>5
    <3> QED BY <1>6, <2>2, <2>4, <3>1, <3>2
  <2>6. CASE p.c # ROOT_CLUSTER
    <3>1. Seen(g) = Seen(v) /\ Fat(g) = Fat(v)
      BY <1>5, <1>7, <2>3, <2>6
    <3>2. g.leaked = v.leaked
      BY <1>1, <1>5, <2>b, <2>3, <2>6, VolHas
    <3> QED BY <1>6, <2>2, <2>4, <3>1, <3>2
  <2> QED BY <2>5, <2>6
<1>8. CASE ~u.fat.cf
  <2> DEFINE g == RemoveFreed(u, x)
  <2>1. w = g
    BY <1>8 DEF RemoveWritten
  <2>2. GoodChains(Fat(u), l)
    BY <1>1, <1>5 DEF Good
  <2>3. Onto(u, g) /\ Frees(u, g, l, x) /\ Seen(g) = Seen(u)
    BY <1>5, <2>2, RemoveFreedIs
  <2> HIDE DEF g, w
  <2>4. Onto(v, g)
    BY <1>4, <2>3, OntoMore
  <2>5. Frees(v, g, l, x)
    BY <1>5, <2>3 DEF Frees
  <2>6. PutAt(Seen(v), Seen(g), l, p.c, p.i, DELETED)
    BY <1>5, <1>8, <2>3
  <2> QED BY <1>6, <2>1, <2>4, <2>5, <2>6
<1> QED BY <1>5, <1>7, <1>8

Unmade(v, l, d, n, cur, w) ==
    /\ Onto(v, w)
    /\ w.unread \/ \E k : /\ Sane(w, k)
                          /\ LET M == Marks(Seen(v), l)
                                 N == Marks(Seen(w), k)
                             IN  Same(M, l.dirs, N, k.dirs) \/ Removed(M, l.dirs, N, k.dirs, d, n, cur)

(* A removal that changes no name is one that fails. *)
LEMMA EndsUnmade ==
  ASSUME NEW v, NEW l, NEW d, NEW n, NEW cur, NEW w, Ends(v, l, w)
  PROVE  Unmade(v, l, d, n, cur, w)
BY DEF Ends, Unmade, Stands

(* The entry that was found goes. *)
LEMMA UnmadeIs ==
  ASSUME NEW v, NEW l, Sane(v, l), NEW u, Reads(v, u), NEW p, p.c \in DirCells(l), p.i \in 1 .. Width(p.c),
         IsEntry(Seen(v)[p.c][p.i]), NEW x, x = Seen(v)[p.c][p.i].first, NEW cur,
         Seen(v)[p.c][p.i].is = "dir" => x # cur /\ (u.unread \/ NoneIn(Seen(v), l, x))
  PROVE  Unmade(v, l, l.own[p.c], Seen(v)[p.c][p.i].name, cur, RemoveEntry(u, p, x))
<1> DEFINE w == RemoveEntry(u, p, x)
           T == Seen(v)
           s == T[p.c][p.i]
           d == l.own[p.c]
           m == MarkAt(T, l, p.c, p.i)
<1>1. Good(T, Fat(v), l)
  BY DEF Sane, Fine
<1>2. Sane(u, l) /\ Fine(u, l) /\ Seen(u) = T /\ Fat(u) = Fat(v) /\ u.leaked = v.leaked /\ Onto(v, u)
  BY SaneReads, ReadsIs, OntoReads DEF Sane
<1>3. s \in Slot /\ x \in Cell
  BY <1>1, GoodHas, SlotHas
<1>4. /\ s.is = "dir" => x \in l.dirs \ {ROOT_CLUSTER}
      /\ s.is = "file" => x \notin l.dirs \ {ROOT_CLUSTER}
      /\ x # FREE => l.own[x] = x
  BY <1>1, EntriesHave
<1>5. x # ROOT_CLUSTER => l.own[x] = x
  BY <1>4, CellsAre
<1>6. /\ Onto(u, w)
      /\ \/ Seen(w) = Seen(u) /\ Fat(w) = Fat(u) /\ w.leaked = u.leaked
         \/ Frees(u, w, l, x) /\ PutAt(Seen(u), Seen(w), l, p.c, p.i, DELETED)
  BY <1>2, <1>3, <1>5, RemoveEntryIs
<1> SUFFICES Unmade(v, l, d, s.name, cur, w)
  OBVIOUS
<1> HIDE DEF w
<1>7. Onto(v, w)
  BY <1>2, <1>6, OntoMore
<1>8. CASE w.unread
  BY <1>7, <1>8 DEF Unmade
<1>9. CASE Seen(w) = Seen(u) /\ Fat(w) = Fat(u) /\ w.leaked = u.leaked
  <2>1. Sane(w, l)
    BY <1>2, <1>7, <1>9 DEF Sane, Fine, Tight, Onto
  <2>2. Same(Marks(T, l), l.dirs, Marks(Seen(w), l), l.dirs)
    BY <1>2, <1>9 DEF Same
  <2> QED BY <1>7, <2>1, <2>2 DEF Unmade
<1>10. CASE ~w.unread /\ Frees(u, w, l, x) /\ PutAt(Seen(u), Seen(w), l, p.c, p.i, DELETED)
  <2>1. ~u.unread
    BY <1>6, <1>10 DEF Onto
  <2>2. RemovesAt(u, l, p, x)
    BY <1>2, <2>1 DEF RemovesAt
  <2>3. GoneTo(u, l, p, x, w)
    BY <1>10, <2>2, RemovePut
  <2>4. PICK k : /\ Sane(w, k) /\ k.dirs = l.dirs \ ({x} \ {ROOT_CLUSTER})
                 /\ Marks(Seen(w), k) = Marks(T, l) \ {m}
    BY <1>2, <2>3 DEF GoneTo
  <2>5. m \in Marks(T, l)
    BY MarksAre
  <2>6. m.dir = d /\ m.name = s.name /\ m.id = IF s.is = "dir" THEN x ELSE ROOT_CLUSTER
    BY MarkIs DEF MarkAt
  <2>7. m.id # ROOT_CLUSTER => m.id # cur /\ \A o \in Marks(T, l) : o.dir # m.id
    <3> SUFFICES ASSUME m.id # ROOT_CLUSTER PROVE m.id # cur /\ \A o \in Marks(T, l) : o.dir # m.id
      OBVIOUS
    <3>1. s.is = "dir" /\ m.id = x
      BY <2>6
    <3>2. NoneIn(T, l, x) /\ x # cur
      BY <2>1, <3>1
    <3> QED BY <3>1, <3>2, NoneInIs
  <2>8. k.dirs = l.dirs \ ({m.id} \ {ROOT_CLUSTER})
    <3>1. CASE s.is = "dir"
      BY <2>4, <2>6, <3>1
    <3>2. CASE s.is = "file"
      <4>1. x \notin l.dirs \ {ROOT_CLUSTER} /\ m.id = ROOT_CLUSTER
        BY <1>4, <2>6, <3>2
      <4> HIDE DEF m, s
      <4> QED BY <2>4, <4>1
    <3> QED BY <3>1, <3>2 DEF IsEntry
  <2> HIDE DEF m, s, d, T
  <2>9. Removed(Marks(T, l), l.dirs, Marks(Seen(w), k), k.dirs, d, s.name, cur)
    BY <2>4, <2>5, <2>6, <2>7, <2>8 DEF Removed
  <2> QED BY <1>7, <2>4, <2>9 DEF Unmade, T
<1> QED BY <1>6, <1>7, <1>8, <1>9, <1>10 DEF Onto

DeleteFound(v, p, s) == IF s.is = "file" THEN RemoveEntry(v, p, s.first) ELSE v
DeleteTo(v, d, n) ==
    LET Looked(r) == IF r.how = "found" THEN DeleteFound(r.v, PlaceOf(r), SlotAt(r)) ELSE r.v
    IN  Looked(FindInDir(v, d, n))

(* Delete removes the file's name, or nothing, unless a read failed. *)
LEMMA DeleteIs ==
  ASSUME NEW v, NEW l, Sane(v, l), NEW d \in l.dirs, NEW n \in Names, NEW cur
  PROVE  Unmade(v, l, d, n, cur, DeleteTo(v, d, n))
<1> DEFINE r == FindInDir(v, d, n)
<1>1. FindDone(v, l, d, n, r)
  BY FindInDirIs DEF Sane
<1>2. DeleteTo(v, d, n) = IF r.how = "found" THEN DeleteFound(r.v, PlaceOf(r), SlotAt(r)) ELSE r.v
  BY DEF DeleteTo
<1> HIDE DEF r
<1>3. /\ Reads(v, r.v)
      /\ r.how = "found" => /\ r.c \in DirCells(l) /\ l.own[r.c] = d /\ r.i \in 1 .. Width(r.c)
                            /\ IsEntry(Seen(v)[r.c][r.i]) /\ Seen(v)[r.c][r.i].name = n
                            /\ SlotAt(r) = Seen(v)[r.c][r.i]
  BY <1>1 DEF FindDone
<1>4. CASE r.how = "found" /\ SlotAt(r).is = "file"
  <2> DEFINE p == PlaceOf(r)
             x == SlotAt(r).first
  <2>1. DeleteTo(v, d, n) = RemoveEntry(r.v, p, x)
    BY <1>2, <1>4 DEF DeleteFound
  <2>2. p.c = r.c /\ p.i = r.i
    BY PlaceIs
  <2> HIDE DEF p
  <2>3. Unmade(v, l, l.own[p.c], Seen(v)[p.c][p.i].name, cur, RemoveEntry(r.v, p, x))
    BY <1>3, <1>4, <2>2, UnmadeIs
  <2> QED BY <1>3, <1>4, <2>1, <2>2, <2>3
<1>5. CASE ~(r.how = "found" /\ SlotAt(r).is = "file")
  <2>1. DeleteTo(v, d, n) = r.v
    BY <1>2, <1>5 DEF DeleteFound
  <2> QED BY <1>3, <2>1, ReadsEnds, EndsUnmade
<1> QED BY <1>4, <1>5

RmDirLoaded(v, p, c) == IF v.fat.cf THEN v ELSE RemoveEntry(v, p, c)
RmDirScanned(e, p, c) == IF e.how = "used" THEN e.v ELSE RmDirLoaded(Load(e.v, p), p, c)
RmDirFound(v, p, s, cur) ==
    IF s.is # "dir" \/ s.first = cur THEN v ELSE RmDirScanned(DirIsEmpty(v, s.first), p, s.first)
RmDirTo(v, d, n, cur) ==
    LET Looked(r) == IF r.how = "found" THEN RmDirFound(r.v, PlaceOf(r), SlotAt(r), cur) ELSE r.v
    IN  Looked(FindInDir(v, d, n))

(* Remove directory removes the name of an empty directory other than the  *)
(* current one, or nothing, unless a read failed.                          *)
LEMMA RmDirIs ==
  ASSUME NEW v, NEW l, Sane(v, l), NEW d \in l.dirs, NEW n \in Names, NEW cur
  PROVE  Unmade(v, l, d, n, cur, RmDirTo(v, d, n, cur))
<1> DEFINE r == FindInDir(v, d, n)
<1>1. FindDone(v, l, d, n, r)
  BY FindInDirIs DEF Sane
<1>2. RmDirTo(v, d, n, cur) = IF r.how = "found" THEN RmDirFound(r.v, PlaceOf(r), SlotAt(r), cur) ELSE r.v
  BY DEF RmDirTo
<1> HIDE DEF r
<1>3. /\ Reads(v, r.v)
      /\ r.how = "found" => /\ r.c \in DirCells(l) /\ l.own[r.c] = d /\ r.i \in 1 .. Width(r.c)
                            /\ IsEntry(Seen(v)[r.c][r.i]) /\ Seen(v)[r.c][r.i].name = n
                            /\ SlotAt(r) = Seen(v)[r.c][r.i]
  BY <1>1 DEF FindDone
<1>4. CASE r.how = "found" /\ SlotAt(r).is = "dir" /\ SlotAt(r).first # cur
  <2> DEFINE p == PlaceOf(r)
             x == SlotAt(r).first
             e == DirIsEmpty(r.v, x)
             q == Load(e.v, p)
  <2>1. RmDirTo(v, d, n, cur) = IF e.how = "used" THEN e.v ELSE IF q.fat.cf THEN q ELSE RemoveEntry(q, p, x)
    BY <1>2, <1>4 DEF RmDirFound, RmDirScanned, RmDirLoaded
  <2>2. p.c = r.c /\ p.i = r.i
    BY PlaceIs
  <2>3. Sane(r.v, l) /\ Fine(r.v, l) /\ Seen(r.v) = Seen(v)
    BY <1>3, SaneReads, ReadsIs DEF Sane
  <2>4. x \in l.dirs
    BY <1>3, <1>4, EntriesHave DEF Sane, Fine
  <2>5. /\ Reads(r.v, e.v) /\ e.how \in {"empty", "used"}
        /\ e.how = "empty" => e.v.unread \/ NoneIn(Seen(v), l, x)
    BY <2>3, <2>4, DirIsEmptyIs
  <2> HIDE DEF p, e
  <2>6. Reads(v, e.v)
    BY <1>3, <2>5, ReadsMore
  <2>7. Reads(e.v, q)
    BY <2>5, LoadIs DEF Reads
  <2> HIDE DEF q, x
  <2>8. Reads(v, q)
    BY <2>6, <2>7, ReadsMore
  <2>9. CASE e.how = "used"
    BY <2>1, <2>6, <2>9, ReadsEnds, EndsUnmade
  <2>10. CASE e.how = "empty" /\ q.fat.cf
    BY <2>1, <2>8, <2>10, ReadsEnds, EndsUnmade
  <2>11. CASE e.how = "empty" /\ ~q.fat.cf
    <3>1. q.unread \/ NoneIn(Seen(v), l, x)
      BY <2>5, <2>7, <2>11 DEF Reads
    <3>2. Unmade(v, l, l.own[p.c], Seen(v)[p.c][p.i].name, cur, RemoveEntry(q, p, x))
      BY <1>3, <1>4, <2>2, <2>8, <3>1, UnmadeIs DEF x
    <3> QED BY <1>3, <1>4, <2>1, <2>2, <2>11, <3>2
  <2> QED BY <2>5, <2>9, <2>10, <2>11
<1>5. CASE ~(r.how = "found" /\ SlotAt(r).is = "dir" /\ SlotAt(r).first # cur)
  <2>1. RmDirTo(v, d, n, cur) = r.v
    BY <1>2, <1>5 DEF RmDirFound
  <2> QED BY <1>3, <2>1, ReadsEnds, EndsUnmade
<1> QED BY <1>4, <1>5

-----------------------------------------------------------------------------
(* Rename *)

RenameLoaded(v, p, m) == IF v.fat.cf THEN v ELSE WriteSlot(v, p, [At(v, p) EXCEPT !.name = m])
RenameCompared(o, p, m) == IF o.how = "found" THEN o.v ELSE RenameLoaded(Load(o.v, p), p, m)
RenameTo(v, d, n, m) ==
    LET Looked(r) == IF r.how = "found" /\ SlotAt(r).is = "file"
                     THEN RenameCompared(FindInDir(r.v, d, m), PlaceOf(r), m) ELSE r.v
    IN  Looked(FindInDir(v, d, n))

Retitled(v, l, d, n, m, w) ==
    /\ Onto(v, w)
    /\ w.unread \/ \E k : /\ Sane(w, k)
                          /\ LET M == Marks(Seen(v), l)
                                 N == Marks(Seen(w), k)
                             IN  Same(M, l.dirs, N, k.dirs) \/ Renamed(M, l.dirs, N, k.dirs, d, n, m)

(* A rename that changes no name is one that fails. *)
LEMMA EndsRetitled ==
  ASSUME NEW v, NEW l, NEW d, NEW n, NEW m, NEW w, Ends(v, l, w)
  PROVE  Retitled(v, l, d, n, m, w)
BY DEF Ends, Retitled, Stands

(* A file's slot with another name. *)
LEMMA NamedSlot ==
  ASSUME NEW s \in Slot, s.is = "file", NEW m \in Names
  PROVE  [s EXCEPT !.name = m] = Entry32("file", m, s.first)
BY DEF Slot, Entry32

(* No unused slot stands before one in use. *)
LEMMA NoneUnused ==
  ASSUME NEW T, NEW F, NEW l, Good(T, F, l), NEW c \in DirCells(l), NEW i \in 1 .. Width(c), T[c][i].is # "unused"
  PROVE  NoneUnusedBefore(T, l, c, i)
BY NamesHas DEF NoneUnusedBefore

(* The entry that was found gets another name. *)
LEMMA RetitledIs ==
  ASSUME NEW v, NEW l, Sane(v, l), NEW q, Reads(v, q), NEW p, p.c \in DirCells(l), p.i \in 1 .. Width(p.c),
         Seen(v)[p.c][p.i].is = "file", NEW m \in Names, q.unread \/ NoneNamed(Seen(v), l, l.own[p.c], m)
  PROVE  Retitled(v, l, l.own[p.c], Seen(v)[p.c][p.i].name, m, WriteSlot(q, p, [At(q, p) EXCEPT !.name = m]))
<1> DEFINE T == Seen(v)
           s == T[p.c][p.i]
           d == l.own[p.c]
           e == Entry32("file", m, s.first)
           w == WriteSlot(q, p, e)
           o == MarkAt(T, l, p.c, p.i)
           M == Marks(T, l)
<1>1. Good(T, Fat(v), l) /\ v \in Vols
  BY DEF Sane, Fine
<1>2. Sane(q, l) /\ Seen(q) = T /\ q \in Vols /\ Onto(v, q)
  BY SaneReads, ReadsIs, OntoReads DEF Reads
<1>3. s \in Slot /\ s.first \in Cell /\ IsEntry(s)
  BY <1>1, GoodHas, SlotHas DEF IsEntry
<1>4. p.c \in Cell /\ Sited(q, p)
  <2>1. p.c \in Cell /\ T[p.c] \in [1 .. Width(p.c) -> Slot]
    BY <1>1, GoodHas
  <2> QED BY <1>2, <2>1, SitedIs
<1>5. At(q, p) = s
  BY <1>2, <1>4, SeenAt
<1>6. WriteSlot(q, p, [At(q, p) EXCEPT !.name = m]) = w
  BY <1>3, <1>5, NamedSlot
<1>7. e \in Slot
  BY <1>3, FileSlot
<1>8. Onto(q, w)
  BY <1>2, <1>4, <1>7, WritesOnto
<1>w. w = WriteSlot(q, p, e) /\ e = Entry32("file", m, s.first)
  OBVIOUS
<1> SUFFICES Retitled(v, l, d, s.name, m, w)
  BY <1>6
<1> HIDE DEF w, e
<1>9. Onto(v, w)
  BY <1>2, <1>8, OntoMore
<1>10. CASE w.unread
  BY <1>9, <1>10 DEF Retitled
<1>11. CASE ~w.unread
  <2>1. ~q.unread
    BY <1>8, <1>11 DEF Onto
  <2>2. NoneNamed(T, l, d, m)
    BY <2>1
  <2>3. NoneUnusedBefore(T, l, p.c, p.i)
    BY <1>1, NoneUnused
  <2>4. PutsFile(q, l, p, m, e)
    BY <1>w, <1>2, <1>4, <2>2, <2>3 DEF PutsFile
  <2>5. /\ Sane(w, l)
        /\ \/ Marks(Seen(w), l) = M
           \/ Marks(Seen(w), l) = (M \ (IF IsEntry(s) THEN {o} ELSE {}))
                                    \cup {Mark(d, Index(l, p.c, p.i), m, ROOT_CLUSTER)}
    BY <1>w, <1>2, <2>4, PutsFileIs
  <2>6. o \in M
    BY <1>3, MarksAre
  <2>7. o.dir = d /\ o.name = s.name /\ o.id = ROOT_CLUSTER /\ o.index = Index(l, p.c, p.i)
    BY MarkIs DEF MarkAt
  <2>8. Fresh(M, d, m)
    BY <2>2, NoneNamedIs DEF Fresh
  <2> HIDE DEF o, M
  <2>9. CASE Marks(Seen(w), l) = M
    BY <1>9, <2>5, <2>9 DEF Retitled, Same, M
  <2>10. CASE Marks(Seen(w), l) = (M \ {o}) \cup {Mark(d, Index(l, p.c, p.i), m, ROOT_CLUSTER)}
    <3>1. Renamed(M, l.dirs, Marks(Seen(w), l), l.dirs, d, s.name, m)
      BY <2>6, <2>7, <2>8, <2>10 DEF Renamed
    <3> QED BY <1>9, <2>5, <3>1 DEF Retitled, M
  <2> QED BY <1>3, <2>5, <2>9, <2>10
<1> QED BY <1>10, <1>11

(* Rename gives the entry the new name, or does nothing, unless a read     *)
(* failed.                                                                 *)
LEMMA RenameIs ==
  ASSUME NEW v, NEW l, Sane(v, l), NEW d \in l.dirs, NEW n \in Names, NEW m \in Names
  PROVE  Retitled(v, l, d, n, m, RenameTo(v, d, n, m))
<1> DEFINE r == FindInDir(v, d, n)
<1>1. FindDone(v, l, d, n, r)
  BY FindInDirIs DEF Sane
<1>2. RenameTo(v, d, n, m) = IF r.how = "found" /\ SlotAt(r).is = "file"
                             THEN RenameCompared(FindInDir(r.v, d, m), PlaceOf(r), m) ELSE r.v
  BY DEF RenameTo
<1> HIDE DEF r
<1>3. /\ Reads(v, r.v)
      /\ r.how = "found" => /\ r.c \in DirCells(l) /\ l.own[r.c] = d /\ r.i \in 1 .. Width(r.c)
                            /\ IsEntry(Seen(v)[r.c][r.i]) /\ Seen(v)[r.c][r.i].name = n
                            /\ SlotAt(r) = Seen(v)[r.c][r.i]
  BY <1>1 DEF FindDone
<1>4. CASE r.how = "found" /\ SlotAt(r).is = "file"
  <2> DEFINE p == PlaceOf(r)
             o == FindInDir(r.v, d, m)
             q == Load(o.v, p)
             w == WriteSlot(q, p, [At(q, p) EXCEPT !.name = m])
  <2>1. RenameTo(v, d, n, m) = IF o.how = "found" THEN o.v ELSE IF q.fat.cf THEN q ELSE w
    BY <1>2, <1>4 DEF RenameCompared, RenameLoaded
  <2>2. p.c = r.c /\ p.i = r.i
    BY PlaceIs
  <2>3. Sane(r.v, l) /\ Seen(r.v) = Seen(v)
    BY <1>3, SaneReads, ReadsIs
  <2>4. FindDone(r.v, l, d, m, o)
    BY <2>3, FindInDirIs DEF Sane
  <2> HIDE DEF p, o
  <2>5. Reads(r.v, o.v) /\ (o.how # "found" => o.v.unread \/ NoneNamed(Seen(v), l, d, m))
    BY <2>3, <2>4 DEF FindDone
  <2>6. Reads(v, o.v)
    BY <1>3, <2>5, ReadsMore
  <2>7. Reads(o.v, q)
    BY <2>5, LoadIs DEF Reads
  <2>w. w = WriteSlot(q, p, [At(q, p) EXCEPT !.name = m])
    OBVIOUS
  <2> HIDE DEF q, w
  <2>8. Reads(v, q)
    BY <2>6, <2>7, ReadsMore
  <2>9. CASE o.how = "found"
    BY <2>1, <2>6, <2>9, ReadsEnds, EndsRetitled
  <2>10. CASE o.how # "found" /\ q.fat.cf
    BY <2>1, <2>8, <2>10, ReadsEnds, EndsRetitled
  <2>11. CASE o.how # "found" /\ ~q.fat.cf
    <3>1. q.unread \/ NoneNamed(Seen(v), l, d, m)
      BY <2>5, <2>7, <2>11 DEF Reads
    <3>2. Retitled(v, l, l.own[p.c], Seen(v)[p.c][p.i].name, m, w)
      BY <2>w, <1>3, <1>4, <2>2, <2>8, <3>1, RetitledIs
    <3> QED BY <1>3, <1>4, <2>1, <2>2, <2>11, <3>2
  <2> QED BY <2>9, <2>10, <2>11
<1>5. CASE ~(r.how = "found" /\ SlotAt(r).is = "file")
  <2>1. RenameTo(v, d, n, m) = r.v
    BY <1>2, <1>5
  <2> QED BY <1>3, <2>1, ReadsEnds, EndsRetitled
<1> QED BY <1>4, <1>5

-----------------------------------------------------------------------------
(* Make a directory *)

(* The volume q with cluster c taken, and perhaps written. *)
Taking(q, u, c) ==
    /\ Onto(q, u) /\ u.root = q.root /\ u.leaked = q.leaked
    /\ c \in Clusters /\ Fat(q)[c] = FREE
    /\ \A b \in Clusters : b # c => u.sub[b] = q.sub[b] /\ Fat(u)[b] = Fat(q)[b]
    /\ Fat(u)[c] = EOC

(* Whoever takes a free cluster takes one that is nobody's. *)
LEMMA TakenIs ==
  ASSUME NEW q, NEW l, Sane(q, l), NEW c \in Clusters, Fat(q)[c] = FREE
  PROVE  l.own[c] = Nobody /\ c \notin DirCells(l) /\ c \notin l.dirs
<1>1. Good(Seen(q), Fat(q), l)
  BY DEF Sane, Fine
<1>2. /\ \A f \in Clusters : l.own[f] # Nobody => Fat(q)[f] # FREE
      /\ \A b \in DirCells(l) : l.own[b] # Nobody
      /\ \A b \in l.dirs : b \in DirCells(l)
  BY <1>1, GoodHas
<1> QED BY <1>2

MkDirFreed(v, c) ==
    LET u == [v EXCEPT !.fat = FlushFat(FreeChain(@, c))] IN [u EXCEPT !.leaked = @ \/ u.fat.cf]

(* The rollback of a make directory frees its cluster. *)
LEMMA MkDirFreedHas ==
  ASSUME NEW u \in Vols, NEW c \in Clusters
  PROVE  LET g == MkDirFreed(u, c)
             y == FlushFat(FreeChain(u.fat, c))
         IN  /\ Onto(u, g) /\ g \in Vols /\ g.root = u.root /\ g.sub = u.sub /\ Fat(g) = View(y)
             /\ (g.leaked <=> u.leaked \/ y.cf)
<1> DEFINE t == FreeChain(u.fat, c)
           y == FlushFat(t)
           f == [u EXCEPT !.fat = y]
           g == MkDirFreed(u, c)
<1>1. c \in Entry /\ u.fat \in Tables
  BY VolHas DEF Entry
<1>2. SameBounds(u.fat, t)
  BY <1>1, FreeChainTypes
<1>3. t \in Tables /\ t.fails = u.fat.fails
  BY <1>2 DEF SameBounds
<1>g. g = [f EXCEPT !.leaked = @ \/ f.fat.cf]
  BY DEF MkDirFreed
<1> HIDE DEF t
<1>4. y \in Tables /\ y.fails = t.fails /\ y.cf \in BOOLEAN
  BY <1>3, FlushFatIs
<1> HIDE DEF y
<1>5. /\ f \in Vols /\ f.fat = y /\ f.root = u.root /\ f.disk = u.disk /\ f.sub = u.sub
      /\ f.unread = u.unread /\ f.leaked = u.leaked
  BY <1>4, FatPut
<1> HIDE DEF f, g
<1>6. f.fat.cf \in BOOLEAN
  BY <1>4, <1>5
<1>7. LET h == [f EXCEPT !.leaked = @ \/ f.fat.cf] IN
      /\ h \in Vols /\ h.fat = f.fat /\ h.root = f.root /\ h.disk = f.disk /\ h.sub = f.sub
      /\ h.unread = f.unread /\ (h.leaked <=> f.leaked \/ f.fat.cf)
  BY <1>5, <1>6, LeakMore
<1>8. /\ g \in Vols /\ g.fat = f.fat /\ g.root = f.root /\ g.disk = f.disk /\ g.sub = f.sub
      /\ g.unread = f.unread /\ (g.leaked <=> f.leaked \/ f.fat.cf)
  BY <1>7, <1>g, Zenon
<1>9. Onto(u, g)
  BY <1>3, <1>4, <1>5, <1>8 DEF Onto
<1>10. Fat(g) = View(y)
  BY <1>5, <1>8 DEF Fat
<1> QED BY <1>5, <1>8, <1>9, <1>10 DEF t, y, g

(* A chain of one cluster is freed, or the flush fails. *)
LEMMA OneFreed ==
  ASSUME NEW t \in Tables, NEW c \in Clusters, View(t)[c] = EOC
  PROVE  LET y == FlushFat(FreeChain(t, c)) IN
         /\ \A b \in Clusters : b # c => View(y)[b] = View(t)[b]
         /\ ~y.cf => View(y)[c] = FREE
<1> DEFINE u == FreeChain(t, c)
           S == {c}
           pos == [b \in S |-> 0]
<1>1. NClusters \in Nat /\ NClusters # 0
  BY ClustersFinite, FS_EmptySet DEF NClusters
<1>2. pos \in [S -> Nat] /\ pos[c] = 0
  OBVIOUS
<1>3. ChainFrom(View(t), S, pos, c)
  <2> HIDE DEF pos
  <2> QED BY <1>1, <1>2 DEF ChainFrom
<1>4. /\ SameBounds(t, u)
      /\ \A b \in Clusters : View(u)[b] = View(t)[b] \/ (b \in S /\ View(u)[b] = FREE)
      /\ ~u.ioerr => View(u)[c] = FREE
  BY <1>3, FreeChainIs
<1>5. u \in Tables
  BY <1>4 DEF SameBounds
<1> HIDE DEF u
<1>6. View(FlushFat(u)) = View(u) /\ (u.ioerr => FlushFat(u).cf)
  BY <1>5, FlushFatIs
<1>7. /\ \A b \in Clusters : b # c => View(FlushFat(u))[b] = View(t)[b]
      /\ ~FlushFat(u).cf => View(FlushFat(u))[c] = FREE
  BY <1>4, <1>6
<1> QED BY <1>7 DEF u

(* The new directory is taken back. *)
LEMMA MkDirFreedIs ==
  ASSUME NEW v, NEW l, NEW q, Ends(v, l, q), NEW u, NEW c, Taking(q, u, c)
  PROVE  Ends(v, l, MkDirFreed(u, c))
<1> DEFINE g == MkDirFreed(u, c)
           y == FlushFat(FreeChain(u.fat, c))
<1>1. /\ Onto(q, u) /\ u.root = q.root /\ u.leaked = q.leaked
      /\ c \in Clusters /\ Fat(q)[c] = FREE
      /\ \A b \in Clusters : b # c => u.sub[b] = q.sub[b] /\ Fat(u)[b] = Fat(q)[b]
      /\ Fat(u)[c] = EOC
  BY DEF Taking
<1>2. u \in Vols /\ q \in Vols /\ u.fat \in Tables
  BY <1>1, VolHas DEF Onto
<1>3. /\ Onto(u, g) /\ g \in Vols /\ g.root = u.root /\ g.sub = u.sub /\ Fat(g) = View(y)
      /\ (g.leaked <=> u.leaked \/ y.cf)
  BY <1>1, <1>2, MkDirFreedHas
<1>4. /\ \A b \in Clusters : b # c => View(y)[b] = Fat(u)[b]
      /\ ~y.cf => View(y)[c] = FREE
  BY <1>1, <1>2, OneFreed DEF Fat
<1> HIDE DEF g, y
<1>5. Onto(q, g)
  BY <1>1, <1>3, OntoMore
<1>6. Onto(v, q)
  BY DEF Ends
<1>7. Onto(v, g)
  BY <1>5, <1>6, OntoMore
<1>8. CASE g.unread
  BY <1>7, <1>8 DEF Ends, g
<1>9. CASE ~g.unread
  <2>1. ~q.unread
    BY <1>5, <1>9 DEF Onto
  <2>2. PICK k : Stands(v, l, q, k)
    BY <2>1 DEF Ends
  <2>3. Sane(q, k)
    BY <2>2 DEF Stands
  <2>4. k.own[c] = Nobody /\ c \notin DirCells(k)
    BY <1>1, <2>3, TakenIs
  <2>5. \A b \in DirCells(k) : Seen(g)[b] = Seen(q)[b]
    <3>1. \A b \in DirCells(k) : b \in Cell
      BY DEF DirCells
    <3>2. g.root = q.root /\ \A b \in Clusters : b # c => g.sub[b] = q.sub[b]
      BY <1>1, <1>3
    <3>3. /\ Seen(g)[ROOT_CLUSTER] = g.root /\ Seen(q)[ROOT_CLUSTER] = q.root
          /\ \A b \in Clusters : Seen(g)[b] = g.sub[b] /\ Seen(q)[b] = q.sub[b]
      BY SlotsAre DEF Seen
    <3> SUFFICES ASSUME NEW b \in DirCells(k) PROVE Seen(g)[b] = Seen(q)[b]
      OBVIOUS
    <3>4. b # c /\ (b \in Clusters \/ b = ROOT_CLUSTER)
      BY <2>4, <3>1, CellsAre
    <3> QED BY <3>2, <3>3, <3>4
  <2>6. \A b \in Clusters : k.own[b] # Nobody => Fat(g)[b] = Fat(q)[b]
    BY <1>1, <1>3, <1>4, <2>4
  <2>7. g.leaked \/ \A b \in Clusters : k.own[b] = Nobody => Fat(g)[b] \in {Fat(q)[b], FREE}
    BY <1>1, <1>3, <1>4
  <2>8. q.leaked => g.leaked
    BY <1>5 DEF Onto
  <2>9. Alike(q, g, k, k)
    BY <1>3, <2>3, <2>5, <2>6, <2>7, <2>8, SaneSame
  <2>10. Stands(v, l, g, k)
    BY <2>2, <2>9 DEF Alike, Stands, Same
  <2> QED BY <1>7, <2>10 DEF Ends, g
<1> QED BY <1>8, <1>9

(* A directory's entry in a free place, upon its first cluster. *)
Founding(q, l, u, w, d, n, p, c) ==
    /\ Sane(q, l) /\ Taking(q, u, c) /\ u.sub[c] = DotSlots(c, d) /\ n \in Names
    /\ NoneNamed(Seen(q), l, d, n) /\ FreeAt(q, l, d, p.c, p.i)
    /\ w \in Vols /\ Fat(w) = Fat(u) /\ (q.leaked => w.leaked)
    /\ PutAt(Seen(u), Seen(w), l, p.c, p.i, Entry32("dir", n, c))
    /\ w.sub[c] = u.sub[c]

(* A directory's entry written over a cluster with its dots leaves a sane  *)
(* tree with its mark.                                                     *)
LEMMA FoundingIs ==
  ASSUME NEW q, NEW l, NEW u, NEW w, NEW d, NEW n, NEW p, NEW c, Founding(q, l, u, w, d, n, p, c)
  PROVE  \E k, x : /\ Sane(w, k) /\ c \notin l.dirs /\ k.dirs = l.dirs \cup {c} /\ x \in Nat
                   /\ Marks(Seen(w), k) = Marks(Seen(q), l) \cup {Mark(d, x, n, c)}
<1> DEFINE T == Seen(q)
           U == Seen(w)
           F == Fat(q)
           G == Fat(w)
           b == p.c
           i == p.i
           e == Entry32("file", n, FREE)
           s == Entry32("dir", n, c)
           T1 == [a \in Cell |-> IF a = b THEN [T[a] EXCEPT ![i] = e] ELSE T[a]]
           k == Founded(l, c, b, i, "dir")
<1>1. /\ Sane(q, l) /\ Taking(q, u, c) /\ u.sub[c] = DotSlots(c, d) /\ n \in Names
      /\ NoneNamed(T, l, d, n) /\ FreeAt(q, l, d, b, i)
      /\ w \in Vols /\ G = Fat(u) /\ (q.leaked => w.leaked)
      /\ PutAt(Seen(u), U, l, b, i, s)
      /\ w.sub[c] = u.sub[c]
  BY DEF Founding
<1>2. /\ u.root = q.root /\ c \in Clusters /\ F[c] = FREE
      /\ \A a \in Clusters : a # c => u.sub[a] = q.sub[a] /\ G[a] = F[a]
      /\ G[c] = EOC
  BY <1>1 DEF Taking
<1>3. /\ q \in Vols /\ Good(T, F, l)
      /\ q.leaked \/ \A a \in Clusters : F[a] # FREE => l.own[a] # Nobody
  BY <1>1 DEF Sane, Fine, Tight
<1>4. /\ b \in DirCells(l) /\ l.own[b] = d /\ i \in 1 .. Width(b)
      /\ T[b][i].is \in {"unused", "deleted"} /\ NoneUnusedBefore(T, l, b, i)
  BY <1>1 DEF FreeAt
<1>5. l.own[c] = Nobody /\ c \notin DirCells(l) /\ c \notin l.dirs
  BY <1>1, <1>2, TakenIs
<1>6. \A a \in DirCells(l) : a \in Cell /\ Seen(u)[a] = T[a]
  <2>1. \A a \in DirCells(l) : a \in Cell
    BY DEF DirCells
  <2>2. /\ Seen(u)[ROOT_CLUSTER] = u.root /\ T[ROOT_CLUSTER] = q.root
        /\ \A a \in Clusters : Seen(u)[a] = u.sub[a] /\ T[a] = q.sub[a]
    BY SlotsAre DEF Seen
  <2> SUFFICES ASSUME NEW a \in DirCells(l) PROVE Seen(u)[a] = T[a]
    BY <2>1
  <2>3. a # c /\ (a \in Clusters \/ a = ROOT_CLUSTER)
    BY <1>5, <2>1, CellsAre
  <2> QED BY <1>2, <2>2, <2>3
<1>7. U[c] = DotSlots(c, d)
  <2>1. U[c] = w.sub[c]
    BY <1>2, SlotsAre DEF Seen
  <2> QED BY <1>1, <2>1
<1> HIDE DEF T, U, F, G
<1>8. PutAt(T, U, l, b, i, s)
  BY <1>1, <1>6 DEF PutAt
<1>9. PutAt(T, T1, l, b, i, e)
  BY <1>6 DEF PutAt
<1>10. d \in Cell /\ b \in Cell
  BY <1>3, <1>4, GoodHas
<1>11. /\ e \in Slot /\ s \in Slot /\ IsEntry(s) /\ s.name = n /\ s.is = "dir" /\ s.first = c
  <2>1. FREE \in Cell /\ c \in Cell
    BY <1>2, CellsAre
  <2>2. e \in Slot
    BY <1>1, <2>1, FileSlot
  <2>3. /\ s \in Slot /\ IsEntry(s) /\ s.name = n /\ s.is = "dir" /\ s.first = c
    BY <1>1, <2>1, FileSlot
  <2> QED BY <2>2, <2>3
<1>12. Good(T1, F, l)
  <2> HIDE DEF T1
  <2>1. e = Entry32("file", n, IF T[b][i].is = "file" THEN T[b][i].first ELSE FREE)
    BY <1>4
  <2>2. T[b][i].is \in {"unused", "deleted", "file"}
    BY <1>4
  <2>3. NoneNamed(T, l, l.own[b], n)
    BY <1>1, <1>4
  <2> HIDE DEF e
  <2> QED BY <1>1, <1>3, <1>4, <1>9, <2>1, <2>2, <2>3, PutFile
<1>13. \A a \in DirCells(l) : \A j \in 1 .. Width(a) : T1[a][j] = IF a = b /\ j = i THEN e ELSE T[a][j]
  <2> HIDE DEF T1, e
  <2> QED BY <1>3, <1>4, <1>9, <1>11, PutAtIs
<1>14. \A a \in DirCells(l) : \A j \in 1 .. Width(a) : U[a][j] = IF a = b /\ j = i THEN s ELSE T[a][j]
  <2> HIDE DEF s
  <2> QED BY <1>3, <1>4, <1>8, <1>11, PutAtIs
<1>15. PutAt(T1, U, l, b, i, s)
  <2>1. \A a \in DirCells(l) : a # b => T1[a] = T[a] /\ U[a] = T[a]
    BY <1>6, <1>8 DEF PutAt
  <2>2. U[b] = [T[b] EXCEPT ![i] = s] /\ T1[b] = [T[b] EXCEPT ![i] = e]
    BY <1>4, <1>6, <1>8 DEF PutAt
  <2>3. T[b] \in [1 .. Width(b) -> Slot]
    BY <1>3, <1>4, GoodHas
  <2> HIDE DEF s, e, T1
  <2>4. U[b] = [T1[b] EXCEPT ![i] = s]
    BY <1>4, <1>11, <2>2, <2>3
  <2> QED BY <1>4, <2>1, <2>4 DEF PutAt
<1>16. /\ Good(U, G, k) /\ DirCells(k) = DirCells(l) \cup {c}
  <2>1. T1[b][i] = e
    BY <1>4, <1>13
  <2>2. \A x \in Clusters : l.own[x] # Nobody => G[x] = F[x]
    BY <1>2, <1>5
  <2>3. U[c] = DotSlots(c, l.own[b])
    BY <1>4, <1>7
  <2> HIDE DEF T1, k
  <2> DEFINE kind == "dir"
  <2>k. kind = "dir" /\ kind \in {"file", "dir"}
    OBVIOUS
  <2>5. PutAt(T1, U, l, b, i, Entry32(kind, n, c)) /\ k = Founded(l, c, b, i, kind)
    BY <1>15 DEF k
  <2> HIDE DEF kind
  <2>4. Filled(T1, U, F, G, l, b, i, n, c, kind)
    BY <1>1, <1>2, <1>4, <1>5, <1>12, <2>k, <2>1, <2>2, <2>3, <2>5 DEF Filled
  <2>6. /\ Good(U, G, Founded(l, c, b, i, kind))
        /\ DirCells(Founded(l, c, b, i, kind)) = IF kind = "dir" THEN DirCells(l) \cup {c} ELSE DirCells(l)
    BY <2>4, Fill
  <2> QED BY <2>k, <2>5, <2>6
<1>17. /\ k.own[c] = c /\ k.dirs = l.dirs \cup {c}
       /\ \A x \in Cell : x # c => k.own[x] = l.own[x] /\ k.pos[x] = l.pos[x]
  <2>1. l \in Layouts /\ i \in Nat /\ l.own[b] \in Cell
    BY <1>3, <1>4, <1>10, GoodHas, WidthIs
  <2> DEFINE kind == "dir"
  <2>2. k = Founded(l, c, b, i, kind) /\ kind = "dir"
    OBVIOUS
  <2> HIDE DEF k, kind, b, i
  <2>3. LET h == Founded(l, c, b, i, kind) IN
        /\ h.own[c] = c
        /\ h.dirs = IF kind = "dir" THEN l.dirs \cup {c} ELSE l.dirs
        /\ \A x \in Cell : x # c => h.own[x] = l.own[x] /\ h.pos[x] = l.pos[x]
    BY <1>2, <1>5, <1>10, <2>1, FoundedIs
  <2> QED BY <2>2, <2>3
<1> HIDE DEF k, T1, s, e
<1>18. Shifted(T, U, l, k, b, i, s)
  <2>1. \A a \in DirCells(k) : a \notin DirCells(l) => \A j \in 1 .. Width(a) : ~IsEntry(U[a][j])
    <3> SUFFICES ASSUME NEW a \in DirCells(k), a \notin DirCells(l), NEW j \in 1 .. Width(a)
                 PROVE  ~IsEntry(U[a][j])
      OBVIOUS
    <3>1. a = c /\ Width(a) = SlotsPerSector
      BY <1>2, <1>16, WidthIs, CellsAre
    <3> QED BY <1>2, <1>7, <1>10, <3>1, DotSlotsAre
  <2>2. \A a \in DirCells(l) : a \in DirCells(k) => k.own[a] = l.own[a] /\ k.pos[a] = l.pos[a]
    BY <1>5, <1>6, <1>17
  <2> QED BY <1>4, <1>14, <1>16, <2>1, <2>2 DEF Shifted
<1>19. Marks(U, k) = Marks(T, l) \cup {MarkAt(U, k, b, i)}
  <2>1. Marks(U, k) = (Marks(T, l) \ (IF IsEntry(T[b][i]) THEN {MarkAt(T, l, b, i)} ELSE {}))
                         \cup (IF IsEntry(s) THEN {MarkAt(U, k, b, i)} ELSE {})
    BY <1>3, <1>18, PutMarks
  <2>2. ~IsEntry(T[b][i])
    BY <1>4 DEF IsEntry
  <2> QED BY <1>11, <2>1, <2>2
<1>20. MarkAt(U, k, b, i) = Mark(d, Index(k, b, i), n, c)
  <2>1. U[b][i] = s /\ k.own[b] = d
    BY <1>4, <1>5, <1>10, <1>14, <1>17
  <2> QED BY <1>11, <2>1 DEF MarkAt
<1>21. Index(k, b, i) \in Nat
  BY <1>4, <1>16, IndexIs
<1>22. Sane(w, k)
  <2>1. w.leaked \/ \A a \in Clusters : G[a] # FREE => k.own[a] # Nobody
    <3> SUFFICES ASSUME ~w.leaked, NEW a \in Clusters, G[a] # FREE PROVE k.own[a] # Nobody
      OBVIOUS
    <3>1. CASE a = c
      BY <1>2, <1>17, <3>1, CellsAre
    <3>2. CASE a # c
      BY <1>1, <1>2, <1>3, <1>17, <3>2, CellsAre
    <3> QED BY <3>1, <3>2
  <2> QED BY <1>1, <1>16, <2>1 DEF Sane, Fine, Tight, U, G
<1> QED BY <1>5, <1>17, <1>19, <1>20, <1>21, <1>22 DEF T, U

(* A cluster taken is nobody else's. *)
LEMMA TakingFirst ==
  ASSUME NEW q \in Vols, NEW t, Allocates(q.fat, t), ~t.cf
  PROVE  Taking(q, [q EXCEPT !.fat = Io(t)], t.ax)
<1> DEFINE u == [q EXCEPT !.fat = Io(t)]
<1>1. /\ t \in Tables /\ t.fails = q.fat.fails
      /\ t.ax \in Clusters /\ View(q.fat)[t.ax] = FREE /\ View(t) = [View(q.fat) EXCEPT ![t.ax] = EOC]
  BY DEF Allocates
<1>2. View(q.fat) \in [Clusters -> Entry]
  BY VolHas, ViewTypes
<1>3. Io(t) \in Tables /\ View(Io(t)) = View(t) /\ Io(t).fails = t.fails
  BY <1>1, IoIs
<1>4. /\ u \in Vols /\ u.fat = Io(t) /\ u.root = q.root /\ u.sub = q.sub
      /\ u.unread = q.unread /\ u.leaked = q.leaked
  BY <1>3, FatPut
<1> HIDE DEF u
<1>5. Onto(q, u)
  BY <1>1, <1>3, <1>4 DEF Onto
<1>6. Fat(u) = [Fat(q) EXCEPT ![t.ax] = EOC]
  BY <1>1, <1>3, <1>4 DEF Fat
<1>7. Taking(q, u, t.ax)
  BY <1>1, <1>2, <1>4, <1>5, <1>6 DEF Taking, Fat
<1> QED BY <1>7 DEF u

(* A cluster taken stays so through a read. *)
LEMMA TakingReads ==
  ASSUME NEW q, NEW u, NEW c, Taking(q, u, c), NEW w, Reads(u, w)
  PROVE  Taking(q, w, c) /\ w.sub = u.sub
<1>1. Onto(q, u) /\ Onto(u, w) /\ w.root = u.root /\ w.sub = u.sub /\ Fat(w) = Fat(u) /\ w.leaked = u.leaked
  BY OntoReads, ReadsIs DEF Taking, Reads
<1>2. Onto(q, w)
  BY <1>1, OntoMore
<1> QED BY <1>1, <1>2 DEF Taking

DotsPut(u, c, d) == [u EXCEPT !.sub[c] = DotSlots(c, d), !.fat = FlushFat(@)]

(* A cluster taken gets its dots. *)
LEMMA TakingDots ==
  ASSUME NEW q, NEW u, NEW c, Taking(q, u, c), NEW d \in Cell
  PROVE  LET x == DotsPut(u, c, d) IN Taking(q, x, c) /\ x.sub[c] = DotSlots(c, d)
<1> DEFINE s == DotSlots(c, d)
           y == FlushFat(u.fat)
           x == DotsPut(u, c, d)
           b == [u.sub EXCEPT ![c] = s]
           g == Vol(y, u.root, u.disk, b, u.unread, u.leaked)
<1>1. /\ Onto(q, u) /\ u.root = q.root /\ u.leaked = q.leaked
      /\ c \in Clusters /\ Fat(q)[c] = FREE
      /\ \A a \in Clusters : a # c => u.sub[a] = q.sub[a] /\ Fat(u)[a] = Fat(q)[a]
      /\ Fat(u)[c] = EOC
  BY DEF Taking
<1>2. u \in Vols /\ u.fat \in Tables
  BY <1>1, VolHas DEF Onto
<1>3. y \in Tables /\ View(y) = View(u.fat) /\ y.fails = u.fat.fails /\ y.cf \in BOOLEAN
  BY <1>2, FlushFatIs
<1>4. s \in SubSlots
  BY <1>1, SubSlotsHave
<1>5. x = g
  <2>1. x = [[u EXCEPT !.sub = b] EXCEPT !.fat = y]
    BY DEF DotsPut
  <2> HIDE DEF y, b, s
  <2>2. [u EXCEPT !.sub = b] = Vol(u.fat, u.root, u.disk, b, u.unread, u.leaked)
    BY <1>2 DEF Vols, Vol
  <2>3. [Vol(u.fat, u.root, u.disk, b, u.unread, u.leaked) EXCEPT !.fat = y] = g
    BY DEF Vol
  <2> QED BY <2>1, <2>2, <2>3
<1> HIDE DEF x, y, s
<1>6. /\ g \in Vols /\ g.fat = y /\ g.root = u.root
      /\ g.unread = u.unread /\ g.leaked = u.leaked
      /\ g.sub[c] = s /\ \A a \in Clusters : a # c => g.sub[a] = u.sub[a]
  BY <1>1, <1>2, <1>3, <1>4, SubPut
<1> HIDE DEF g
<1>7. Onto(u, g)
  BY <1>2, <1>3, <1>6 DEF Onto
<1>8. Onto(q, g)
  BY <1>1, <1>7, OntoMore
<1>9. Fat(g) = Fat(u)
  BY <1>3, <1>6 DEF Fat
<1>10. Taking(q, g, c)
  BY <1>1, <1>6, <1>8, <1>9 DEF Taking
<1> QED BY <1>5, <1>6, <1>10 DEF x, s

Made(v, l, d, n, w) ==
    /\ Onto(v, w)
    /\ w.unread \/ \E k : /\ Sane(w, k)
                          /\ LET M == Marks(Seen(v), l)
                                 N == Marks(Seen(w), k)
                             IN  Same(M, l.dirs, N, k.dirs) \/ AddedDir(M, l.dirs, N, k.dirs, d, n)

(* A make directory that changes no name is one that fails. *)
LEMMA EndsMade ==
  ASSUME NEW v, NEW l, NEW d, NEW n, NEW w, Ends(v, l, w)
  PROVE  Made(v, l, d, n, w)
BY DEF Ends, Made, Stands

MkDirWritten(w, d) == [w EXCEPT !.leaked = @ \/ (w.fat.cf /\ d # ROOT_CLUSTER)]

(* The end of make directory changes no slot and no entry of the table. *)
LEMMA MkDirWrittenHas ==
  ASSUME NEW w \in Vols, NEW d
  PROVE  LET g == MkDirWritten(w, d) IN
         /\ Onto(w, g) /\ g \in Vols /\ Seen(g) = Seen(w) /\ Fat(g) = Fat(w) /\ g.sub = w.sub
         /\ (w.fat.cf /\ d # ROOT_CLUSTER => g.leaked)
<1> DEFINE b == w.fat.cf /\ d # ROOT_CLUSTER
           g == [w EXCEPT !.leaked = @ \/ b]
<1>1. b \in BOOLEAN
  OBVIOUS
<1>2. b <=> w.fat.cf /\ d # ROOT_CLUSTER
  OBVIOUS
<1>3. MkDirWritten(w, d) = g
  BY DEF MkDirWritten
<1> HIDE DEF b
<1>4. /\ g \in Vols /\ g.sub = w.sub /\ (g.leaked <=> w.leaked \/ b)
      /\ Onto(w, g) /\ Seen(g) = Seen(w) /\ Fat(g) = Fat(w)
  BY <1>1, LeakMore
<1> HIDE DEF g
<1> QED BY <1>2, <1>3, <1>4

(* Make directory from the write of its entry on. *)
LEMMA MkDirWrittenIs ==
  ASSUME NEW v, NEW l, NEW d, NEW n \in Names, d \in Cell, NEW s, Readied(v, l, d, n, s), s.how = "found",
         NEW u, NEW c, Taking(s.v, u, c), u.sub[c] = DotSlots(c, d), NEW p, p = PlaceOf(s)
  PROVE  Made(v, l, d, n, MkDirWritten(WriteSlot(u, p, Entry32("dir", n, c)), d))
<1> DEFINE q == s.v
           e == Entry32("dir", n, c)
           w == WriteSlot(u, p, e)
           g == MkDirWritten(w, d)
<1>1. /\ Onto(v, q) /\ Sited(q, p) /\ (s.c = ROOT_CLUSTER <=> d = ROOT_CLUSTER)
      /\ q.unread \/ \E k : /\ Stands(v, l, q, k) /\ NoneNamed(Seen(q), k, d, n)
                            /\ NoneNamed(Seen(v), l, d, n) /\ FreeAt(q, k, d, s.c, s.i)
  BY DEF Readied
<1>2. p.c = s.c /\ p.i = s.i
  BY PlaceIs
<1>3. /\ Onto(q, u) /\ u.root = q.root /\ u.leaked = q.leaked
      /\ c \in Clusters /\ Fat(q)[c] = FREE
      /\ \A a \in Clusters : a # c => u.sub[a] = q.sub[a] /\ Fat(u)[a] = Fat(q)[a]
      /\ Fat(u)[c] = EOC
  BY DEF Taking
<1>4. u \in Vols /\ Sited(u, p)
  <2>1. u \in Vols
    BY <1>3 DEF Onto
  <2>2. p.c # ROOT_CLUSTER => u.sub[p.c] \in [1 .. SlotsPerSector -> Slot]
    <3>1. CASE p.c = c
      BY <1>3, <3>1, DotSlotsAre
    <3>2. CASE p.c # c
      BY <1>1, <1>3, <3>2, CellsAre DEF Sited
    <3> QED BY <3>1, <3>2
  <2> QED BY <1>1, <2>1, <2>2 DEF Sited
<1>5. e \in Slot
  BY <1>3, FileSlot, CellsAre
<1>6. Wrote(u, p, e, w)
  BY <1>4, <1>5, WriteSlotIs
<1>7. Onto(u, w)
  BY <1>4, <1>5, WritesOnto
<1>w. e = Entry32("dir", n, c)
  OBVIOUS
<1> HIDE DEF w, e
<1>8. /\ w \in Vols /\ Fat(w) = Fat(u) /\ w.fat.cf \in BOOLEAN /\ w.leaked = u.leaked
      /\ p.c = ROOT_CLUSTER => w.sub = u.sub
      /\ p.c = ROOT_CLUSTER \/ ~w.fat.cf => \A k : PutAt(Seen(u), Seen(w), k, p.c, p.i, e)
      /\ p.c # ROOT_CLUSTER /\ w.fat.cf => Seen(w) = Seen(u)
      /\ p.c # ROOT_CLUSTER => \A b \in Clusters : b # p.c => w.sub[b] = u.sub[b]
  BY <1>6 DEF Wrote
<1>9. /\ Onto(w, g) /\ g \in Vols /\ Seen(g) = Seen(w) /\ Fat(g) = Fat(w) /\ g.sub = w.sub
      /\ (w.fat.cf /\ d # ROOT_CLUSTER => g.leaked)
  BY <1>8, MkDirWrittenHas
<1>g. g = MkDirWritten(w, d)
  OBVIOUS
<1> HIDE DEF g
<1>10. Onto(q, g)
  BY <1>3, <1>7, <1>9, OntoMore
<1>11. Onto(v, g)
  BY <1>1, <1>10, OntoMore
<1> SUFFICES Made(v, l, d, n, g)
  BY <1>g, <1>w DEF w
<1>12. CASE g.unread
  BY <1>11, <1>12 DEF Made
<1>13. CASE ~g.unread
  <2>1. ~q.unread
    BY <1>10, <1>13 DEF Onto
  <2>2. PICK k : /\ Stands(v, l, q, k) /\ NoneNamed(Seen(q), k, d, n)
                 /\ NoneNamed(Seen(v), l, d, n) /\ FreeAt(q, k, d, p.c, p.i)
    BY <1>1, <1>2, <2>1
  <2>3. Sane(q, k) /\ k.dirs = l.dirs /\ Marks(Seen(q), k) = Marks(Seen(v), l)
    BY <2>2 DEF Stands, Same
  <2>4. k.own[c] = Nobody /\ c \notin DirCells(k) /\ c \notin k.dirs
    BY <1>3, <2>3, TakenIs
  <2>5. p.c # c
    BY <2>2, <2>4 DEF FreeAt
  <2>6. q.leaked => g.leaked
    BY <1>10 DEF Onto
  <2>7. CASE p.c = ROOT_CLUSTER \/ ~w.fat.cf
    <3>1. PutAt(Seen(u), Seen(g), k, p.c, p.i, e)
      BY <1>8, <1>9, <2>7
    <3>2. g.sub[c] = u.sub[c]
      BY <1>3, <1>8, <1>9, <2>5
    <3>3. Founding(q, k, u, g, d, n, p, c)
      BY <1>w, <1>8, <1>9, <2>2, <2>3, <2>6, <3>1, <3>2 DEF Founding
    <3>4. PICK h, x : /\ Sane(g, h) /\ c \notin k.dirs /\ h.dirs = k.dirs \cup {c} /\ x \in Nat
                      /\ Marks(Seen(g), h) = Marks(Seen(q), k) \cup {Mark(d, x, n, c)}
      BY <3>3, FoundingIs
    <3>5. Fresh(Marks(Seen(v), l), d, n)
      BY <2>2, NoneNamedIs DEF Fresh
    <3>6. AddedDir(Marks(Seen(v), l), l.dirs, Marks(Seen(g), h), h.dirs, d, n)
      BY <1>3, <2>3, <3>4, <3>5 DEF AddedDir
    <3> QED BY <1>11, <3>4, <3>6 DEF Made
  <2>8. CASE p.c # ROOT_CLUSTER /\ w.fat.cf
    <3>1. g.leaked
      BY <1>1, <1>2, <1>9, <2>8
    <3>2. Seen(g) = Seen(u) /\ Fat(g) = Fat(u)
      BY <1>8, <1>9, <2>8
    <3>3. \A b \in DirCells(k) : Seen(g)[b] = Seen(q)[b]
      <4>1. /\ Seen(u)[ROOT_CLUSTER] = u.root /\ Seen(q)[ROOT_CLUSTER] = q.root
            /\ \A b \in Clusters : Seen(u)[b] = u.sub[b] /\ Seen(q)[b] = q.sub[b]
        BY SlotsAre DEF Seen
      <4> SUFFICES ASSUME NEW b \in DirCells(k) PROVE Seen(g)[b] = Seen(q)[b]
        OBVIOUS
      <4>2. b # c /\ (b \in Clusters \/ b = ROOT_CLUSTER)
        BY <2>4, CellsAre DEF DirCells
      <4> QED BY <1>3, <3>2, <4>1, <4>2
    <3>4. \A b \in Clusters : k.own[b] # Nobody => Fat(g)[b] = Fat(q)[b]
      BY <1>3, <2>4, <3>2
    <3>5. Alike(q, g, k, k)
      BY <1>9, <2>3, <2>6, <3>1, <3>3, <3>4, SaneSame
    <3>6. Stands(v, l, g, k)
      BY <2>2, <3>5 DEF Alike, Stands, Same
    <3>7. Ends(v, l, g)
      BY <1>11, <3>6 DEF Ends
    <3> QED BY <3>7, EndsMade
  <2> QED BY <1>8, <2>7, <2>8
<1> QED BY <1>12, <1>13 DEF Onto

MkDirLoaded(v, p, d, n, c) ==
    IF v.fat.cf THEN MkDirFreed(v, c) ELSE MkDirWritten(WriteSlot(v, p, Entry32("dir", n, c)), d)
MkDirFlushed(v, p, d, n, c) == IF v.fat.cf THEN MkDirFreed(v, c) ELSE MkDirLoaded(Load(v, p), p, d, n, c)
MkDirDotted(v, p, d, n, c) ==
    IF v.fat.cf THEN MkDirFreed(v, c) ELSE MkDirFlushed(DotsPut(v, c, d), p, d, n, c)
MkDirTaken(v, t, p, d, n) ==
    IF t.cf THEN [v EXCEPT !.fat = t] ELSE MkDirDotted([v EXCEPT !.fat = Io(t)], p, d, n, t.ax)
MkDirPlaced(s, d, n) ==
    IF s.how = "found" THEN MkDirTaken(s.v, FatAlloc(s.v.fat), PlaceOf(s), d, n) ELSE s.v
MkDirTo(v, d, n) ==
    LET Looked(r) == IF r.how = "found" THEN r.v ELSE MkDirPlaced(FindDirFree(r.v, d), d, n)
    IN  Looked(FindInDir(v, d, n))

(* From the step that has taken cluster c on. *)
LEMMA MkDirDottedIs ==
  ASSUME NEW v, NEW l, NEW d, NEW n \in Names, d \in Cell, NEW s, Readied(v, l, d, n, s), s.how = "found",
         NEW u, NEW c, Taking(s.v, u, c), NEW p, p = PlaceOf(s)
  PROVE  Made(v, l, d, n, MkDirDotted(u, p, d, n, c))
<1> DEFINE x == DotsPut(u, c, d)
           q == Load(x, p)
           g == MkDirDotted(u, p, d, n, c)
           w == MkDirWritten(WriteSlot(q, p, Entry32("dir", n, c)), d)
<1>1. g = IF u.fat.cf THEN MkDirFreed(u, c)
          ELSE IF x.fat.cf THEN MkDirFreed(x, c)
          ELSE IF q.fat.cf THEN MkDirFreed(q, c) ELSE w
  BY DEF MkDirDotted, MkDirFlushed, MkDirLoaded
<1>2. Ends(v, l, s.v)
  BY DEF Readied, Ends
<1>3. Taking(s.v, x, c) /\ x.sub[c] = DotSlots(c, d)
  BY TakingDots
<1> HIDE DEF x
<1>4. x \in Vols
  BY <1>3 DEF Taking, Onto
<1>5. Reads(x, q)
  BY <1>4, LoadIs
<1>w. w = MkDirWritten(WriteSlot(q, p, Entry32("dir", n, c)), d)
  OBVIOUS
<1> HIDE DEF q, w, g
<1>6. Taking(s.v, q, c) /\ q.sub[c] = DotSlots(c, d)
  BY <1>3, <1>5, TakingReads
<1>7. Made(v, l, d, n, w)
  BY <1>w, <1>6, MkDirWrittenIs
<1>8. /\ Made(v, l, d, n, MkDirFreed(u, c)) /\ Made(v, l, d, n, MkDirFreed(x, c))
      /\ Made(v, l, d, n, MkDirFreed(q, c))
  BY <1>2, <1>3, <1>6, MkDirFreedIs, EndsMade
<1>9. Made(v, l, d, n, g)
  BY <1>1, <1>7, <1>8
<1> QED BY <1>9 DEF g

(* Make directory from the free slot on. *)
LEMMA MkDirPlacedIs ==
  ASSUME NEW v, NEW l, NEW d, NEW n \in Names, d \in Cell, NEW s, Readied(v, l, d, n, s)
  PROVE  Made(v, l, d, n, MkDirPlaced(s, d, n))
<1> DEFINE t == FatAlloc(s.v.fat)
           p == PlaceOf(s)
<1>1. Ends(v, l, s.v) /\ Onto(v, s.v) /\ s.v \in Vols
  BY DEF Readied, Ends, Onto
<1>2. s.v.fat \in Tables
  BY <1>1, VolHas
<1>3. Allocates(s.v.fat, t)
  BY <1>2, FatAllocIs
<1>4. CASE s.how # "found"
  <2>1. MkDirPlaced(s, d, n) = s.v
    BY <1>4 DEF MkDirPlaced
  <2> QED BY <1>1, <2>1, EndsMade
<1>5. CASE s.how = "found"
  <2>1. MkDirPlaced(s, d, n) = IF t.cf THEN [s.v EXCEPT !.fat = t] ELSE MkDirDotted([s.v EXCEPT !.fat = Io(t)], p, d, n, t.ax)
    BY <1>5 DEF MkDirPlaced, MkDirTaken
  <2>p. p = PlaceOf(s)
    OBVIOUS
  <2> HIDE DEF t, p
  <2>2. CASE t.cf
    <3> DEFINE w == [s.v EXCEPT !.fat = t]
    <3>1. /\ t \in Tables /\ View(t) = View(s.v.fat) /\ t.fails = s.v.fat.fails
      BY <1>3, <2>2 DEF Allocates
    <3>2. /\ w \in Vols /\ w.fat = t /\ w.root = s.v.root /\ w.disk = s.v.disk /\ w.sub = s.v.sub
          /\ w.unread = s.v.unread /\ w.leaked = s.v.leaked
      BY <1>1, <3>1, FatPut
    <3> HIDE DEF w
    <3>3. Seen(w) = Seen(s.v) /\ Fat(w) = Fat(s.v)
      BY <3>1, <3>2 DEF Seen, Fat
    <3>4. Onto(s.v, w)
      BY <1>1, <3>1, <3>2 DEF Onto
    <3>5. Onto(v, w)
      BY <1>1, <3>4, OntoMore
    <3>6. Ends(v, l, w)
      BY <1>1, <3>2, <3>3, <3>5 DEF Ends, Stands, Sane, Fine, Tight
    <3> QED BY <2>1, <2>2, <3>6, EndsMade DEF w
  <2>3. CASE ~t.cf
    <3> DEFINE u == [s.v EXCEPT !.fat = Io(t)]
    <3>1. Taking(s.v, u, t.ax)
      BY <1>1, <1>3, <2>3, TakingFirst
    <3> HIDE DEF u
    <3>2. Made(v, l, d, n, MkDirDotted(u, p, d, n, t.ax))
      BY <1>5, <2>p, <3>1, MkDirDottedIs
    <3> QED BY <2>1, <2>3, <3>2 DEF u
  <2> QED BY <2>2, <2>3
<1> QED BY <1>4, <1>5

(* Make directory adds the directory's name, empty, or nothing, unless a   *)
(* read failed.                                                            *)
LEMMA MkDirIs ==
  ASSUME NEW v, NEW l, Sane(v, l), NEW d \in l.dirs, NEW n \in Names
  PROVE  Made(v, l, d, n, MkDirTo(v, d, n))
<1> DEFINE r == FindInDir(v, d, n)
<1>0. d \in Cell
  BY GoodHas DEF Sane, Fine, DirCells
<1>1. CASE r.how = "found"
  <2>1. FindDone(v, l, d, n, r)
    BY FindInDirIs DEF Sane
  <2>2. Ends(v, l, r.v)
    BY <2>1, ReadsEnds DEF FindDone
  <2>3. MkDirTo(v, d, n) = r.v
    BY <1>1 DEF MkDirTo
  <2> QED BY <2>2, <2>3, EndsMade
<1>2. CASE r.how # "found"
  <2>1. Readied(v, l, d, n, FindDirFree(r.v, d))
    BY <1>2, ReadiedIs
  <2>2. MkDirTo(v, d, n) = MkDirPlaced(FindDirFree(r.v, d), d, n)
    BY <1>2 DEF MkDirTo
  <2> QED BY <1>0, <2>1, <2>2, MkDirPlacedIs
<1> QED BY <1>1, <1>2

-----------------------------------------------------------------------------
(* An empty file gets a cluster. *)

JunkPut(q, t) == [q EXCEPT !.fat = t, !.sub[t.ax] = Junk]
FileFilled(q, t, p, s) ==
    LET w == WriteSlot(JunkPut(q, t), p, [s EXCEPT !.first = t.ax]) IN [w EXCEPT !.fat = FlushFat(@)]

(* A cluster taken for a file holds anything. *)
LEMMA TakingJunk ==
  ASSUME NEW q \in Vols, NEW t, Allocates(q.fat, t), ~t.cf
  PROVE  Taking(q, JunkPut(q, t), t.ax) /\ JunkPut(q, t).fat = t
<1> DEFINE x == JunkPut(q, t)
           c == t.ax
           b == [q.sub EXCEPT ![c] = Junk]
           g == Vol(t, q.root, q.disk, b, q.unread, q.leaked)
<1>1. /\ t \in Tables /\ t.fails = q.fat.fails
      /\ c \in Clusters /\ View(q.fat)[c] = FREE /\ View(t) = [View(q.fat) EXCEPT ![c] = EOC]
  BY DEF Allocates
<1>2. View(q.fat) \in [Clusters -> Entry]
  BY VolHas, ViewTypes
<1>5. x = g
  <2>1. x = [[q EXCEPT !.fat = t] EXCEPT !.sub = b]
    BY DEF JunkPut
  <2> HIDE DEF b
  <2>2. [q EXCEPT !.fat = t] = Vol(t, q.root, q.disk, q.sub, q.unread, q.leaked)
    BY DEF Vols, Vol
  <2>3. [Vol(t, q.root, q.disk, q.sub, q.unread, q.leaked) EXCEPT !.sub = b] = g
    BY DEF Vol
  <2> QED BY <2>1, <2>2, <2>3
<1> HIDE DEF x
<1>6. /\ g \in Vols /\ g.fat = t /\ g.root = q.root
      /\ g.unread = q.unread /\ g.leaked = q.leaked
      /\ \A a \in Clusters : a # c => g.sub[a] = q.sub[a]
  BY <1>1, SubSlotsHave, SubPut
<1> HIDE DEF g
<1>8. Onto(q, g)
  BY <1>1, <1>6 DEF Onto
<1>9. Fat(g) = [Fat(q) EXCEPT ![c] = EOC]
  BY <1>1, <1>6 DEF Fat
<1>10. Taking(q, g, c)
  BY <1>1, <1>2, <1>6, <1>8, <1>9 DEF Taking, Fat
<1> QED BY <1>5, <1>6, <1>10 DEF x

(* A file's slot with another first cluster. *)
LEMMA FirstSlot ==
  ASSUME NEW s \in Slot, s.is = "file", NEW c
  PROVE  [s EXCEPT !.first = c] = Entry32("file", s.name, c) /\ Entry32("file", s.name, s.first) = s
BY DEF Slot, Entry32

(* A file's entry upon its first cluster. *)
FillsAt(q, l, u, w, n, p, c) ==
    /\ Sane(q, l) /\ Taking(q, u, c) /\ n \in Names
    /\ p.c \in DirCells(l) /\ p.i \in 1 .. Width(p.c) /\ Seen(q)[p.c][p.i] = Entry32("file", n, FREE)
    /\ w \in Vols /\ Fat(w) = Fat(u) /\ (q.leaked => w.leaked)
    /\ PutAt(Seen(u), Seen(w), l, p.c, p.i, Entry32("file", n, c))

(* An empty file's entry that names a new cluster leaves the tree alike. *)
LEMMA FillsAtIs ==
  ASSUME NEW q, NEW l, NEW u, NEW w, NEW n, NEW p, NEW c, FillsAt(q, l, u, w, n, p, c)
  PROVE  \E k : Alike(q, w, l, k)
<1> DEFINE T == Seen(q)
           U == Seen(w)
           F == Fat(q)
           G == Fat(w)
           b == p.c
           i == p.i
           kind == "file"
           s == Entry32(kind, n, c)
           k == Founded(l, c, b, i, kind)
<1>0. kind = "file" /\ kind \in {"file", "dir"}
  OBVIOUS
<1>1. /\ Sane(q, l) /\ Taking(q, u, c) /\ n \in Names
      /\ b \in DirCells(l) /\ i \in 1 .. Width(b) /\ T[b][i] = Entry32("file", n, FREE)
      /\ w \in Vols /\ G = Fat(u) /\ (q.leaked => w.leaked)
      /\ PutAt(Seen(u), U, l, b, i, s)
  BY DEF FillsAt
<1>2. /\ u.root = q.root /\ c \in Clusters /\ F[c] = FREE
      /\ \A a \in Clusters : a # c => u.sub[a] = q.sub[a] /\ G[a] = F[a]
      /\ G[c] = EOC
  BY <1>1 DEF Taking
<1>3. /\ q \in Vols /\ Good(T, F, l)
      /\ q.leaked \/ \A a \in Clusters : F[a] # FREE => l.own[a] # Nobody
  BY <1>1 DEF Sane, Fine, Tight
<1>5. l.own[c] = Nobody /\ c \notin DirCells(l) /\ c \notin l.dirs
  BY <1>1, <1>2, TakenIs
<1>6. \A a \in DirCells(l) : a \in Cell /\ Seen(u)[a] = T[a]
  <2>1. \A a \in DirCells(l) : a \in Cell
    BY DEF DirCells
  <2>2. /\ Seen(u)[ROOT_CLUSTER] = u.root /\ T[ROOT_CLUSTER] = q.root
        /\ \A a \in Clusters : Seen(u)[a] = u.sub[a] /\ T[a] = q.sub[a]
    BY SlotsAre DEF Seen
  <2> SUFFICES ASSUME NEW a \in DirCells(l) PROVE Seen(u)[a] = T[a]
    BY <2>1
  <2>3. a # c /\ (a \in Clusters \/ a = ROOT_CLUSTER)
    BY <1>5, <2>1, CellsAre
  <2> QED BY <1>2, <2>2, <2>3
<1> HIDE DEF T, U, F, G
<1>8. PutAt(T, U, l, b, i, s)
  BY <1>1, <1>6 DEF PutAt
<1>10. l.own[b] \in Cell /\ b \in Cell
  BY <1>1, <1>3, GoodHas
<1>k. /\ k = Founded(l, c, b, i, kind) /\ s = Entry32(kind, n, c)
  OBVIOUS
<1> HIDE DEF kind, k, s
<1>11. /\ s \in Slot /\ IsEntry(s) /\ s.name = n /\ s.is = "file" /\ s.first = c
  BY <1>0, <1>k, <1>1, <1>2, FileSlot, CellsAre
<1>f. LET e == Entry32("file", n, FREE) IN IsEntry(e) /\ e.name = n /\ e.is = "file"
  BY DEF IsEntry, Entry32
<1>14. \A a \in DirCells(l) : \A j \in 1 .. Width(a) : U[a][j] = IF a = b /\ j = i THEN s ELSE T[a][j]
  BY <1>1, <1>3, <1>8, <1>11, PutAtIs
<1>16. /\ Good(U, G, k) /\ DirCells(k) = DirCells(l)
  <2>2. \A x \in Clusters : l.own[x] # Nobody => G[x] = F[x]
    BY <1>2, <1>5
  <2>3. kind = "dir" => U[c] = DotSlots(c, l.own[b])
    BY <1>0
  <2>4. Filled(T, U, F, G, l, b, i, n, c, kind)
    BY <1>0, <1>k, <1>1, <1>2, <1>3, <1>5, <1>8, <2>2, <2>3 DEF Filled
  <2>5. /\ Good(U, G, Founded(l, c, b, i, kind))
        /\ DirCells(Founded(l, c, b, i, kind)) = IF kind = "dir" THEN DirCells(l) \cup {c} ELSE DirCells(l)
    BY <2>4, Fill
  <2> QED BY <1>0, <1>k, <2>5
<1>17. /\ k.own[c] = c /\ k.dirs = l.dirs
       /\ \A x \in Cell : x # c => k.own[x] = l.own[x] /\ k.pos[x] = l.pos[x]
  <2>1. l \in Layouts /\ i \in Nat
    BY <1>1, <1>3, <1>10, GoodHas, WidthIs
  <2> HIDE DEF b, i
  <2>3. LET h == Founded(l, c, b, i, kind) IN
        /\ h.own[c] = c
        /\ h.dirs = IF kind = "dir" THEN l.dirs \cup {c} ELSE l.dirs
        /\ \A x \in Cell : x # c => h.own[x] = l.own[x] /\ h.pos[x] = l.pos[x]
    BY <1>2, <1>5, <1>10, <2>1, FoundedIs
  <2> QED BY <1>0, <1>k, <2>3
<1>18. Shifted(T, U, l, k, b, i, s)
  <2>2. \A a \in DirCells(l) : a \in DirCells(k) => k.own[a] = l.own[a] /\ k.pos[a] = l.pos[a]
    BY <1>5, <1>6, <1>17
  <2> QED BY <1>1, <1>14, <1>16, <2>2 DEF Shifted
<1>19. Marks(U, k) = (Marks(T, l) \ {MarkAt(T, l, b, i)}) \cup {MarkAt(U, k, b, i)}
  <2>1. Marks(U, k) = (Marks(T, l) \ (IF IsEntry(T[b][i]) THEN {MarkAt(T, l, b, i)} ELSE {}))
                         \cup (IF IsEntry(s) THEN {MarkAt(U, k, b, i)} ELSE {})
    BY <1>3, <1>18, PutMarks
  <2>2. IsEntry(T[b][i])
    BY <1>1, <1>f
  <2> QED BY <1>11, <2>1, <2>2
<1>20. MarkAt(U, k, b, i) = MarkAt(T, l, b, i)
  <2>1. U[b][i] = s /\ k.own[b] = l.own[b] /\ k.pos[b] = l.pos[b]
    BY <1>1, <1>5, <1>10, <1>14, <1>17
  <2>2. T[b][i].name = n /\ T[b][i].is = "file"
    BY <1>1, <1>f
  <2> QED BY <1>11, <2>1, <2>2 DEF MarkAt, Index
<1>21. MarkAt(T, l, b, i) \in Marks(T, l)
  <2>1. IsEntry(T[b][i])
    BY <1>1, <1>f
  <2> QED BY <1>1, <2>1, MarksAre
<1>22. Sane(w, k)
  <2>1. w.leaked \/ \A a \in Clusters : G[a] # FREE => k.own[a] # Nobody
    <3> SUFFICES ASSUME ~w.leaked, NEW a \in Clusters, G[a] # FREE PROVE k.own[a] # Nobody
      OBVIOUS
    <3>1. CASE a = c
      BY <1>2, <1>17, <3>1, CellsAre
    <3>2. CASE a # c
      BY <1>1, <1>2, <1>3, <1>17, <3>2, CellsAre
    <3> QED BY <3>1, <3>2
  <2> QED BY <1>1, <1>16, <2>1 DEF Sane, Fine, Tight, U, G
<1>23. Marks(U, k) = Marks(T, l)
  BY <1>19, <1>20, <1>21
<1> QED BY <1>17, <1>22, <1>23 DEF Alike, T, U

FlushPut(w) == [w EXCEPT !.fat = FlushFat(@)]

(* A flush of the FAT changes nothing that is seen. *)
LEMMA FlushPutIs ==
  ASSUME NEW w \in Vols
  PROVE  LET g == FlushPut(w) IN
         Onto(w, g) /\ g \in Vols /\ Seen(g) = Seen(w) /\ Fat(g) = Fat(w) /\ g.leaked = w.leaked
<1> DEFINE y == FlushFat(w.fat)
           g == [w EXCEPT !.fat = y]
<1>1. w.fat \in Tables
  BY VolHas
<1>2. y \in Tables /\ View(y) = View(w.fat) /\ y.fails = w.fat.fails
  BY <1>1, FlushFatIs
<1>3. FlushPut(w) = g
  BY DEF FlushPut
<1> HIDE DEF y
<1>4. /\ g \in Vols /\ g.fat = y /\ g.root = w.root /\ g.disk = w.disk /\ g.sub = w.sub
      /\ g.unread = w.unread /\ g.leaked = w.leaked
  BY <1>2, FatPut
<1> HIDE DEF g
<1>5. Onto(w, g)
  BY <1>2, <1>4 DEF Onto
<1>6. Seen(g) = Seen(w) /\ Fat(g) = Fat(w)
  BY <1>2, <1>4 DEF Seen, Fat
<1> QED BY <1>3, <1>4, <1>5, <1>6

(* An empty file written to leaves the tree alike. *)
LEMMA WriteFileIs ==
  ASSUME NEW v, NEW l, Sane(v, l), v.fat.fails = {}, NEW d \in l.dirs, NEW n \in Names,
         NEW r, r = FindInDir(v, d, n), r.how = "found", SlotAt(r).is = "file", SlotAt(r).first = FREE,
         NEW t, t = FatAlloc(r.v.fat), ~t.cf
  PROVE  Ends(v, l, FileFilled(r.v, t, PlaceOf(r), SlotAt(r)))
<1> DEFINE q == r.v
           p == PlaceOf(r)
           c == t.ax
           u == JunkPut(q, t)
           e == Entry32("file", n, c)
           w == WriteSlot(u, p, e)
           g == FlushPut(w)
<1>1. FindDone(v, l, d, n, r)
  BY FindInDirIs DEF Sane
<1>2. /\ Reads(v, q)
      /\ r.c \in DirCells(l) /\ l.own[r.c] = d /\ r.i \in 1 .. Width(r.c)
      /\ Seen(v)[r.c][r.i].name = n /\ SlotAt(r) = Seen(v)[r.c][r.i]
  BY <1>1 DEF FindDone
<1>3. Sane(q, l) /\ Seen(q) = Seen(v) /\ q.leaked = v.leaked /\ Onto(v, q) /\ q \in Vols
      /\ Marks(Seen(q), l) = Marks(Seen(v), l)
  BY <1>2, SaneReads, ReadsIs, OntoReads DEF Reads
<1>4. Good(Seen(v), Fat(v), l) /\ v \in Vols
  BY DEF Sane, Fine
<1>5. p.c = r.c /\ p.i = r.i
  BY PlaceIs
<1>6. SlotAt(r) \in Slot
  BY <1>2, <1>4, GoodHas
<1>7. [SlotAt(r) EXCEPT !.first = c] = e /\ Seen(q)[p.c][p.i] = Entry32("file", n, FREE)
  BY <1>2, <1>3, <1>5, <1>6, FirstSlot
<1>8. FileFilled(q, t, p, SlotAt(r)) = g
  BY <1>7 DEF FileFilled, FlushPut
<1>9. q.fat \in Tables /\ q.fat.fails = {}
  BY <1>3, VolHas DEF Onto
<1>10. Allocates(q.fat, t)
  BY <1>9, FatAllocIs
<1> HIDE DEF p, q
<1>11. Taking(q, u, c) /\ u.fat = t
  BY <1>3, <1>10, TakingJunk
<1>12. t \in Tables /\ t.fails = {}
  BY <1>9, <1>10 DEF Allocates
<1>13. ~Io(t).cf
  BY <1>12, IoIs
<1> HIDE DEF u
<1>14. /\ Onto(q, u) /\ u \in Vols /\ u.leaked = q.leaked /\ c \in Clusters /\ Fat(q)[c] = FREE
       /\ \A a \in Clusters : a # c => u.sub[a] = q.sub[a]
  BY <1>11 DEF Taking, Onto
<1>15. l.own[c] = Nobody /\ c \notin DirCells(l)
  BY <1>3, <1>14, TakenIs
<1>16. Sited(u, p)
  <2>1. p.c \in Cell /\ p.c # c /\ Seen(v)[p.c] \in [1 .. Width(p.c) -> Slot] /\ p.i \in 1 .. Width(p.c)
    BY <1>2, <1>4, <1>5, <1>15, GoodHas
  <2>2. p.c # ROOT_CLUSTER => Seen(u)[p.c] = Seen(q)[p.c]
    <3>1. \A a \in Clusters : Seen(u)[a] = u.sub[a] /\ Seen(q)[a] = q.sub[a]
      BY SlotsAre DEF Seen
    <3> QED BY <1>14, <2>1, <3>1, CellsAre
  <2> QED BY <1>3, <1>14, <2>1, <2>2, SitedIs
<1>17. e \in Slot
  BY <1>14, FileSlot, CellsAre
<1>18. Wrote(u, p, e, w)
  BY <1>14, <1>16, <1>17, WriteSlotIs
<1>19. Onto(u, w)
  BY <1>14, <1>16, <1>17, WritesOnto
<1>e. e = Entry32("file", n, c)
  OBVIOUS
<1> HIDE DEF w, e
<1>20. /\ w \in Vols /\ Fat(w) = Fat(u) /\ w.leaked = u.leaked /\ w.fat = Io(t)
       /\ p.c = ROOT_CLUSTER \/ ~w.fat.cf => PutAt(Seen(u), Seen(w), l, p.c, p.i, e)
  BY <1>11, <1>18 DEF Wrote
<1>21. /\ Onto(w, g) /\ g \in Vols /\ Seen(g) = Seen(w) /\ Fat(g) = Fat(w) /\ g.leaked = w.leaked
  BY <1>20, FlushPutIs
<1> HIDE DEF g
<1>22. Onto(q, g)
  BY <1>14, <1>19, <1>21, OntoMore
<1>23. Onto(v, g)
  BY <1>3, <1>22, OntoMore
<1>24. FillsAt(q, l, u, g, n, p, c)
  <2>1. PutAt(Seen(u), Seen(g), l, p.c, p.i, e)
    BY <1>13, <1>20, <1>21
  <2>2. q.leaked => g.leaked
    BY <1>22 DEF Onto
  <2> QED BY <1>2, <1>3, <1>5, <1>7, <1>11, <1>20, <1>21, <1>e, <2>1, <2>2 DEF FillsAt
<1>25. PICK k : Alike(q, g, l, k)
  BY <1>24, FillsAtIs
<1>26. Stands(v, l, g, k)
  BY <1>3, <1>25 DEF Alike, Stands, Same
<1>27. Ends(v, l, g)
  BY <1>23, <1>26 DEF Ends
<1> QED BY <1>8, <1>27 DEF p, q

-----------------------------------------------------------------------------
(* The beginning and the end of a call *)

Searches == [on : BOOLEAN, dir : Cell, next : Nat, due : SUBSET Names, given : SUBSET Names, twice : BOOLEAN]

TypeOK ==
    /\ fat \in Tables /\ root \in Roots /\ disk \in Roots /\ sub \in Subs
    /\ cur_dir_cluster \in Cell /\ find \in Searches /\ faults \in Nat
    /\ off \in BOOLEAN /\ mistook \in BOOLEAN /\ leaked \in BOOLEAN

(* A call begins with its transfers not yet counted. *)
LEMMA BeginIs ==
  ASSUME NEW t \in Tables, NEW F \in SUBSET Nat
  PROVE  Begin(t, F) \in Tables /\ View(Begin(t, F)) = View(t) /\ Begin(t, F).fails = F
<1> DEFINE u == Begin(t, F)
<1>1. /\ t \in Table /\ t.ax \in Entry /\ t.cf \in BOOLEAN /\ t.ios \in Nat /\ t.ioerr \in BOOLEAN
  BY TableHas
<1>2. u \in Table /\ SameTable(t, u) /\ u.fails = F
  BY <1>1 DEF Begin, Table, SameTable
<1> HIDE DEF u
<1>3. Sound(u) /\ View(u) = View(t)
  BY <1>2, SameIsSound, TableHas
<1>4. u \in Tables
  BY <1>2, <1>3, TableOf
<1> QED BY <1>2, <1>3, <1>4 DEF u

(* A call ends with its registers cleared. *)
LEMMA EndIs ==
  ASSUME NEW t \in Tables
  PROVE  End(t) \in Tables /\ View(End(t)) = View(t)
<1> DEFINE u == End(t)
<1>1. t \in Table /\ FREE \in Entry
  BY TableHas DEF Entry
<1>2. u \in Table /\ SameTable(t, u)
  BY <1>1 DEF End, Table, SameTable
<1> HIDE DEF u
<1>3. Sound(u) /\ View(u) = View(t)
  BY <1>2, SameIsSound, TableHas
<1>4. u \in Tables
  BY <1>2, <1>3, TableOf
<1> QED BY <1>3, <1>4 DEF u

(* A call begins with the volume as it is. *)
LEMMA StartIs ==
  ASSUME TypeOK, NEW fails \in SUBSET Nat
  PROVE  LET v == Start(fails) IN
         /\ v \in Vols /\ v.fat.fails = fails /\ v.root = root /\ v.disk = disk /\ v.sub = sub
         /\ Seen(v) = Slots(root, sub) /\ Fat(v) = View(fat) /\ v.unread = FALSE /\ v.leaked = leaked
<1> DEFINE t == Begin(fat, fails)
           no == FALSE
           v == Vol(t, root, disk, sub, no, leaked)
<1>1. /\ fat \in Tables /\ root \in Roots /\ disk \in Roots /\ sub \in Subs /\ leaked \in BOOLEAN
      /\ no \in BOOLEAN /\ no = FALSE
  BY DEF TypeOK
<1>5. Start(fails) = v
  BY DEF Start, Vol
<1> HIDE DEF t, no
<1>4. t \in Tables /\ View(t) = View(fat) /\ t.fails = fails
  BY <1>1, BeginIs DEF t
<1> HIDE DEF v
<1>6. /\ v \in Vols /\ v.fat = t /\ v.root = root /\ v.disk = disk /\ v.sub = sub
      /\ v.unread = no /\ v.leaked = leaked
  BY <1>1, <1>4, VolIs DEF v
<1>7. Seen(v) = Slots(root, sub) /\ Fat(v) = View(fat)
  BY <1>4, <1>6 DEF Seen, Fat
<1> QED BY <1>1, <1>4, <1>5, <1>6, <1>7

(* The transfers that fail are a set of numbers. *)
LEMMA FailingIs == \A k, lasting : Failing(k, lasting) \in SUBSET Nat
BY DEF Failing

(* A layout of the tree in memory. *)
Standing(l, rt, sb, ft, hs, lk) ==
    LET T == Slots(rt, sb)
        F == View(ft)
    IN  /\ Good(T, F, l) /\ hs = Held(T, F, l)
        /\ lk \/ \A c \in Clusters : F[c] # FREE => l.own[c] # Nobody

(* What is held depends on the slots of directories only. *)
LEMMA HeldSame ==
  ASSUME NEW T, NEW U, NEW F, NEW l, \A c \in DirCells(l) : U[c] = T[c]
  PROVE  Held(U, F, l) = Held(T, F, l)
<1>1. \A c \in DirCells(l) : \A i : HoldAt(U, F, l, c, i) = HoldAt(T, F, l, c, i)
  BY DEF HoldAt
<1>2. \A h : h \in Held(U, F, l) <=> h \in Held(T, F, l)
  BY <1>1, HeldIs
<1> QED BY <1>2

(* What a call ends with stands when it is swept up. *)
LEMMA SweptIs ==
  ASSUME NEW w, NEW k, Sane(w, k)
  PROVE  /\ Standing(k, w.root, Swept(w), End(w.fat), Holdings(w.root, w.sub, View(w.fat)), w.leaked)
         /\ Marks(Slots(w.root, Swept(w)), k) = Marks(Seen(w), k)
<1> DEFINE T == Seen(w)
           U == Slots(w.root, Swept(w))
           F == Fat(w)
<1>1. /\ w \in Vols /\ Good(T, F, k)
      /\ w.leaked \/ \A c \in Clusters : F[c] # FREE => k.own[c] # Nobody
  BY DEF Sane, Fine, Tight
<1>2. View(End(w.fat)) = F
  <2>1. w.fat \in Tables
    BY <1>1, VolHas
  <2> QED BY <2>1, EndIs DEF Fat
<1>3. \A c \in DirCells(k) : U[c] = T[c]
  <2> SUFFICES ASSUME NEW c \in DirCells(k) PROVE U[c] = T[c]
    OBVIOUS
  <2>1. c \in Cell /\ k.own[c] # Nobody
    BY <1>1, GoodHas
  <2>2. CASE c = ROOT_CLUSTER
    BY <2>2, SlotsAre DEF Seen
  <2>3. CASE c # ROOT_CLUSTER
    <3>1. c \in Clusters /\ F[c] # FREE
      BY <1>1, <2>1, <2>3, CellsAre, GoodHas
    <3>2. Swept(w)[c] = w.sub[c]
      BY <3>1 DEF Swept, Fat
    <3> QED BY <3>1, <3>2, SlotsAre DEF Seen
  <2> QED BY <2>2, <2>3
<1>4. Holdings(w.root, w.sub, View(w.fat)) = Held(T, F, k)
  BY <1>1, HoldingsIs DEF Seen, Fat
<1> HIDE DEF T, U, F
<1>5. Good(U, F, k) /\ Marks(U, k) = Marks(T, k)
  BY <1>1, <1>3, GoodSame
<1>6. Held(U, F, k) = Held(T, F, k)
  BY <1>3, HeldSame
<1>7. Standing(k, w.root, Swept(w), End(w.fat), Holdings(w.root, w.sub, View(w.fat)), w.leaked)
  BY <1>1, <1>2, <1>4, <1>5, <1>6 DEF Standing, U
<1> QED BY <1>5, <1>7 DEF T, U

(* The state a call leaves. *)
LEMMA FinishTypes ==
  ASSUME TypeOK, NEW w \in Vols, Finish(w)
  PROVE  /\ fat' \in Tables /\ root' \in Roots /\ disk' \in Roots /\ sub' \in Subs
         /\ faults' \in Nat /\ off' \in BOOLEAN /\ mistook' \in BOOLEAN /\ leaked' \in BOOLEAN
<1>1. /\ w.fat \in Tables /\ w.root \in Roots /\ w.disk \in Roots /\ w.sub \in Subs
      /\ w.leaked \in BOOLEAN
  BY VolHas
<1>2. fat' \in Tables
  <2>1. End(w.fat) \in Tables
    BY <1>1, EndIs
  <2> QED BY <2>1 DEF Finish
<1>3. sub' \in Subs
  <2>1. \A c \in Clusters : Swept(w)[c] \in SubSlots
    BY <1>1, SubSlotsHave DEF Subs, Swept
  <2>2. Swept(w) \in Subs
    BY <2>1 DEF Swept, Subs
  <2> QED BY <2>2 DEF Finish
<1>4. root' \in Roots /\ disk' \in Roots /\ leaked' \in BOOLEAN
  BY <1>1 DEF Finish
<1>5. faults' \in Nat /\ off' \in BOOLEAN /\ mistook' \in BOOLEAN
  BY DEF Finish, TypeOK
<1> QED BY <1>2, <1>3, <1>4, <1>5

(* Upon a mistake a call that goes on has changed nothing. *)
LEMMA MistookNothing ==
  ASSUME TypeOK, NEW fails \in SUBSET Nat, NEW l, Sane(Start(fails), l), NEW w, Onto(Start(fails), w),
         Finish(w), ~off', ~mistook', w.unread
  PROVE  Stands(Start(fails), l, w, l)
<1> DEFINE v == Start(fails)
<1>1. /\ v \in Vols /\ v.root = root /\ v.sub = sub
      /\ Seen(v) = Slots(root, sub) /\ Fat(v) = View(fat) /\ v.leaked = leaked
  BY StartIs
<1>2. Onto(v, w) /\ Sane(v, l)
  OBVIOUS
<1> HIDE DEF v
<1>3. w.root = root /\ w.sub = sub /\ View(w.fat) = View(fat)
  BY DEF Finish
<1>4. Seen(w) = Seen(v) /\ Fat(w) = Fat(v)
  BY <1>1, <1>3 DEF Seen, Fat
<1>5. w \in Vols /\ (v.leaked => w.leaked)
  BY <1>2 DEF Onto
<1>6. Stands(v, l, w, l)
  BY <1>2, <1>4, <1>5 DEF Stands, Same, Sane, Fine, Tight
<1> QED BY <1>6 DEF v

-----------------------------------------------------------------------------
(* A search under way *)

(* The names given stand before where it goes on, those due behind.        *)
Between(given, due, d, next, M) ==
    /\ \A n \in given : \E m \in M : m.dir = d /\ m.name = n /\ m.index <= next
    /\ \A n \in due : \E m \in M : m.dir = d /\ m.name = n /\ m.index > next
SearchFits(f, M, ds) == f.dir \in ds /\ Between(f.given, f.due, f.dir, f.next, M)

(* The types of a search's parts. *)
LEMMA SearchesHave ==
  ASSUME NEW f \in Searches
  PROVE  /\ f.on \in BOOLEAN /\ f.dir \in Cell /\ f.next \in Nat /\ f.due \in SUBSET Names
         /\ f.given \in SUBSET Names /\ f.twice \in BOOLEAN
BY DEF Searches

(* What a call makes of a tree: more entries or fewer of them. *)
Grew(M, ds, N, es, d, n) ==
    Same(M, ds, N, es) \/ AddedFile(M, ds, N, es, d, n) \/ AddedDir(M, ds, N, es, d, n)
Shrank(M, ds, N, es, d, n, cur) ==
    \/ Same(M, ds, N, es) \/ Removed(M, ds, N, es, d, n, cur)
    \/ \E k \in Names : Renamed(M, ds, N, es, d, n, k)

(* A call that grows the tree keeps all marks. *)
LEMMA GrewKeeps ==
  ASSUME NEW M, NEW ds, NEW N, NEW es, NEW d, NEW n, Grew(M, ds, N, es, d, n)
  PROVE  M \subseteq N /\ ds \subseteq es
BY DEF Grew, Same, AddedFile, AddedDir

(* A search still fits a tree that has grown. *)
LEMMA GrewFits ==
  ASSUME NEW M, NEW ds, NEW N, NEW es, NEW d, NEW n, Grew(M, ds, N, es, d, n),
         NEW f, SearchFits(f, M, ds)
  PROVE  SearchFits(f, N, es)
BY GrewKeeps DEF SearchFits, Between

(* What is left of a search upon a removal of name n in d. *)
Pruned(f, n) == [f EXCEPT !.due = @ \ {n}, !.given = @ \ {n}]
NamesOf(N, d) == {m.name : m \in {x \in N : x.dir = d}}

(* A search that no longer owes a name. *)
LEMMA PrunedIs ==
  ASSUME NEW f \in Searches, NEW n
  PROVE  /\ Pruned(f, n) \in Searches /\ Pruned(f, n).dir = f.dir /\ Pruned(f, n).next = f.next
         /\ Pruned(f, n).on = f.on /\ Pruned(f, n).twice = f.twice
         /\ Pruned(f, n).due = f.due \ {n} /\ Pruned(f, n).given = f.given \ {n}
BY DEF Searches, Pruned

(* Every name but n in d is where it was, and so is n when it is there. *)
LEMMA ShrankKeeps ==
  ASSUME NEW M, NEW ds, GoodMarks(M, ds), NEW N, NEW es, NEW d, NEW n, NEW cur,
         Shrank(M, ds, N, es, d, n, cur)
  PROVE  /\ \A m \in M : m \in N \/ (m.dir = d /\ m.name = n /\ n \notin NamesOf(N, d))
         /\ cur \in ds => cur \in es
<1>1. CASE Same(M, ds, N, es)
  BY <1>1 DEF Same
<1>2. CASE Removed(M, ds, N, es, d, n, cur)
  <2>1. PICK m \in M : /\ m.dir = d /\ m.name = n /\ N = M \ {m} /\ es = ds \ ({m.id} \ {ROOT_CLUSTER})
                       /\ m.id # ROOT_CLUSTER => m.id # cur
    BY <1>2 DEF Removed
  <2>2. \A o \in M : o.dir = d /\ o.name = n => o = m
    BY <2>1 DEF GoodMarks
  <2>3. n \notin NamesOf(N, d)
    BY <2>1, <2>2 DEF NamesOf
  <2> QED BY <2>1, <2>3
<1>3. ASSUME NEW k \in Names, Renamed(M, ds, N, es, d, n, k)
      PROVE  /\ \A m \in M : m \in N \/ (m.dir = d /\ m.name = n /\ n \notin NamesOf(N, d))
             /\ cur \in ds => cur \in es
  <2>1. PICK m \in M : /\ m.dir = d /\ m.name = n
                       /\ N = (M \ {m}) \cup {Mark(d, m.index, k, ROOT_CLUSTER)}
    BY <1>3 DEF Renamed
  <2>2. es = ds /\ k # n
    BY <1>3, <2>1 DEF Renamed, Fresh
  <2>3. \A o \in M : o.dir = d /\ o.name = n => o = m
    BY <2>1 DEF GoodMarks
  <2>4. n \notin NamesOf(N, d)
    <3>1. \A o \in N : o.dir = d => o.name # n
      BY <2>1, <2>2, <2>3, MarkIs
    <3> QED BY <3>1 DEF NamesOf
  <2> QED BY <2>1, <2>2, <2>4
<1> QED BY <1>1, <1>2, <1>3 DEF Shrank

(* A search still fits after a removal, but for the name removed. *)
LEMMA ShrankFits ==
  ASSUME NEW M, NEW ds, GoodMarks(M, ds), NEW N, NEW es, NEW d, NEW n, NEW cur,
         Shrank(M, ds, N, es, d, n, cur), NEW f \in Searches, SearchFits(f, M, ds), f.dir \in es,
         NEW g, g = IF f.dir = d /\ n \notin NamesOf(N, d) THEN Pruned(f, n) ELSE f
  PROVE  SearchFits(g, N, es)
<1>1. \A m \in M : m \in N \/ (m.dir = d /\ m.name = n /\ n \notin NamesOf(N, d))
  BY ShrankKeeps
<1>2. /\ g.dir = f.dir /\ g.next = f.next /\ g.due \subseteq f.due /\ g.given \subseteq f.given
      /\ f.dir = d /\ n \notin NamesOf(N, d) => n \notin g.due /\ n \notin g.given
  BY PrunedIs
<1>3. \A x \in g.given : \E m \in N : m.dir = f.dir /\ m.name = x /\ m.index <= f.next
  BY <1>1, <1>2 DEF SearchFits, Between
<1>4. \A x \in g.due : \E m \in N : m.dir = f.dir /\ m.name = x /\ m.index > f.next
  BY <1>1, <1>2 DEF SearchFits, Between
<1> QED BY <1>2, <1>3, <1>4 DEF SearchFits, Between

-----------------------------------------------------------------------------
(* One step of a search *)

(* What a search looks for from slot from on stands in M. *)
Sought(from) == Named(Names \cup {".", ".."}, from)

(* A search stops at every entry behind its position. *)
LEMMA EntriesStop ==
  ASSUME NEW T, NEW F, NEW l, Good(T, F, l), NEW c \in DirCells(l), NEW i \in 1 .. Width(c), IsEntry(T[c][i]),
         NEW from \in Nat, Index(l, c, i) > from
  PROVE  Stops(Sought(from), T[c][i], Index(l, c, i) - 1) /\ T[c][i].is # "unused"
<1>1. T[c][i] \in Slot
  BY GoodHas
<1>2. Live(T[c][i]) /\ T[c][i].is # "unused" /\ T[c][i].name \in Names
  BY <1>1, LiveIs
<1>3. Index(l, c, i) \in Nat
  BY IndexIs
<1>4. Index(l, c, i) - 1 >= from
  BY <1>3
<1> QED BY <1>2, <1>4, NamedStop DEF Sought

(* A search that finds no more has no name left. *)
LEMMA NoneDue ==
  ASSUME NEW T, NEW F, NEW l, Good(T, F, l), NEW d, NEW from \in Nat, NEW given, NEW due,
         Between(given, due, d, from, Marks(T, l)),
         \A b \in DirCells(l) : l.own[b] = d => \A j \in 1 .. Width(b) :
            T[b][j].is # "unused" => ~Stops(Sought(from), T[b][j], Index(l, b, j) - 1)
  PROVE  due = {}
<1> SUFFICES ASSUME NEW n \in due PROVE FALSE
  OBVIOUS
<1>1. PICK m \in Marks(T, l) : m.dir = d /\ m.name = n /\ m.index > from
  BY DEF Between
<1>2. PICK c \in DirCells(l) : \E i \in 1 .. Width(c) : IsEntry(T[c][i]) /\ m = MarkAt(T, l, c, i)
  BY <1>1, MarksAre
<1>3. PICK i \in 1 .. Width(c) : IsEntry(T[c][i]) /\ m = MarkAt(T, l, c, i)
  BY <1>2
<1>4. l.own[c] = d /\ Index(l, c, i) > from
  BY <1>1, <1>3, MarkIs DEF MarkAt
<1>5. Stops(Sought(from), T[c][i], Index(l, c, i) - 1) /\ T[c][i].is # "unused"
  BY <1>3, <1>4, EntriesStop
<1> QED BY <1>4, <1>5

(* A search that finds one gives it once, and has those behind it left. *)
LEMMA OneGiven ==
  ASSUME NEW T, NEW F, NEW l, Good(T, F, l), NEW c \in DirCells(l), NEW i \in 1 .. Width(c), NEW from \in Nat,
         FirstStop(T, l, Sought(from), c, i), Live(T[c][i]),
         NEW given \in SUBSET Names, NEW due \in SUBSET Names,
         Between(given, due, l.own[c], from, Marks(T, l))
  PROVE  LET n == T[c][i].name IN
         /\ n \notin given
         /\ Between(given \cup ({n} \cap Names), due \ {n}, l.own[c], Index(l, c, i), Marks(T, l))
<1> DEFINE n == T[c][i].name
           M == Marks(T, l)
           d == l.own[c]
           x == Index(l, c, i)
<1>1. T[c][i] \in Slot /\ x \in Nat
  BY GoodHas, IndexIs
<1>2. T[c][i].is # "unused"
  BY <1>1, LiveIs
<1>3. x - 1 >= from
  BY <1>2, NamedStop DEF FirstStop, Sought
<1>4. x > from
  BY <1>1, <1>3
<1>5. GoodMarks(M, l.dirs)
  BY MarksGood
<1>6. n \in Names => /\ MarkAt(T, l, c, i) \in M /\ MarkAt(T, l, c, i).dir = d
                     /\ MarkAt(T, l, c, i).name = n /\ MarkAt(T, l, c, i).index = x
  BY <1>1, LiveIs, MarksAre, MarkIs DEF MarkAt
<1>7. n \notin given
  <2> SUFFICES ASSUME n \in given PROVE FALSE
    OBVIOUS
  <2>1. PICK m \in M : m.dir = d /\ m.name = n /\ m.index <= from
    BY DEF Between
  <2>2. m = MarkAt(T, l, c, i)
    BY <1>5, <1>6, <2>1 DEF GoodMarks
  <2> QED BY <1>1, <1>4, <1>6, <2>1, <2>2
<1>8. \A y \in given \cup ({n} \cap Names) : \E m \in M : m.dir = d /\ m.name = y /\ m.index <= x
  <2> SUFFICES ASSUME NEW y \in given \cup ({n} \cap Names)
               PROVE  \E m \in M : m.dir = d /\ m.name = y /\ m.index <= x
    OBVIOUS
  <2>1. CASE y \in given
    <3>1. PICK m \in M : m.dir = d /\ m.name = y /\ m.index <= from
      BY <2>1 DEF Between
    <3>2. m.index \in Nat
      BY <1>5 DEF GoodMarks, MarkSet
    <3> QED BY <1>1, <1>4, <3>1, <3>2
  <2>2. CASE y = n /\ n \in Names
    BY <1>1, <1>6, <2>2
  <2> QED BY <2>1, <2>2
<1>9. \A y \in due \ {n} : \E m \in M : m.dir = d /\ m.name = y /\ m.index > x
  <2> SUFFICES ASSUME NEW y \in due \ {n}
               PROVE  \E m \in M : m.dir = d /\ m.name = y /\ m.index > x
    OBVIOUS
  <2>1. PICK m \in M : m.dir = d /\ m.name = y /\ m.index > from
    BY DEF Between
  <2>2. PICK b \in DirCells(l) : \E j \in 1 .. Width(b) : IsEntry(T[b][j]) /\ m = MarkAt(T, l, b, j)
    BY MarksAre
  <2>3. PICK j \in 1 .. Width(b) : IsEntry(T[b][j]) /\ m = MarkAt(T, l, b, j)
    BY <2>2
  <2>4. l.own[b] = d /\ Index(l, b, j) > from /\ T[b][j].name = y /\ m.index = Index(l, b, j)
    BY <2>1, <2>3, MarkIs DEF MarkAt
  <2>5. Stops(Sought(from), T[b][j], Index(l, b, j) - 1)
    BY <2>3, <2>4, EntriesStop
  <2>6. ~(Index(l, b, j) < x)
    BY <2>4, <2>5 DEF FirstStop
  <2>7. Index(l, b, j) # x
    BY <2>4, IndexIs
  <2>8. Index(l, b, j) \in Nat
    BY <2>4, IndexIs
  <2> QED BY <1>1, <2>1, <2>4, <2>6, <2>7, <2>8
<1> QED BY <1>7, <1>8, <1>9 DEF Between

-----------------------------------------------------------------------------
(* The inductive invariant *)

(* The tree in memory has a layout, the current directory is in it, and the *)
(* search under way fits it.                                               *)
Laid(l) ==
    /\ Standing(l, root, sub, fat, held, leaked)
    /\ cur_dir_cluster \in l.dirs
    /\ find.on => SearchFits(find, Marks(Slots(root, sub), l), l.dirs)

IInv ==
    /\ TypeOK
    /\ ~find.twice /\ (~find.on => find.due = {})
    /\ Running => \E l \in Layouts : Laid(l)

Became(M, ds, N, es, d, n, cur, grows) ==
    IF grows THEN Grew(M, ds, N, es, d, n) ELSE Shrank(M, ds, N, es, d, n, cur)

(* What stands has a layout, and its names and tree are the layout's. *)
LEMMA StandingHas ==
  ASSUME NEW l, NEW rt, NEW sb, NEW ft, NEW hs, NEW lk, Standing(l, rt, sb, ft, hs, lk)
  PROVE  LET M == Marks(Slots(rt, sb), l) IN
         /\ l \in Layouts /\ Good(Slots(rt, sb), View(ft), l) /\ GoodMarks(M, l.dirs)
         /\ hs = Holdings(rt, sb, View(ft)) /\ DirsIn(hs) = l.dirs
         /\ \A d : NamesIn(hs, d) = NamesOf(M, d)
         /\ TreeOf(hs) = {[dir |-> m.dir, name |-> m.name, id |-> m.id] : m \in M}
<1> DEFINE T == Slots(rt, sb)
           F == View(ft)
<1>1. Good(T, F, l) /\ hs = Held(T, F, l) /\ T = Slots(rt, sb)
  BY DEF Standing
<1>2. Holdings(rt, sb, F) = hs
  BY <1>1, HoldingsIs
<1>3. l \in Layouts /\ GoodMarks(Marks(T, l), l.dirs)
  BY <1>1, GoodHas, MarksGood
<1>4. DirsIn(hs) = l.dirs
  BY <1>1, DirsInIs
<1>5. \A d : NamesIn(hs, d) = NamesOf(Marks(T, l), d)
  BY <1>1, NamesInIs DEF NamesOf
<1>6. TreeOf(hs) = {[dir |-> m.dir, name |-> m.name, id |-> m.id] : m \in Marks(T, l)}
  BY <1>1, TreeOfIs
<1> QED BY <1>1, <1>2, <1>3, <1>4, <1>5, <1>6

(* A call begins with a sane volume. *)
LEMMA StartSane ==
  ASSUME TypeOK, NEW l, Standing(l, root, sub, fat, held, leaked), NEW fails \in SUBSET Nat
  PROVE  Sane(Start(fails), l)
<1>1. /\ Start(fails) \in Vols /\ Seen(Start(fails)) = Slots(root, sub) /\ Fat(Start(fails)) = View(fat)
      /\ Start(fails).leaked = leaked
  BY StartIs
<1> QED BY <1>1 DEF Sane, Fine, Tight, Standing

(* A call's end, when the machine is on and the call wrote upon no mistake. *)
Lands(l, d, n, cur, grows, w) ==
    \E k : /\ Sane(w, k)
           /\ Became(Marks(Slots(root, sub), l), l.dirs, Marks(Seen(w), k), k.dirs, d, n, cur, grows)

(* What a call ends with is installed, and stands in a layout of its own. *)
LEMMA CallLands ==
  ASSUME TypeOK, NEW l, Standing(l, root, sub, fat, held, leaked), NEW fails \in SUBSET Nat,
         NEW d, NEW n, NEW cur, NEW grows \in BOOLEAN,
         NEW w, Onto(Start(fails), w), w.unread \/ Lands(l, d, n, cur, grows, w), Finish(w), Running'
  PROVE  \E k : /\ Standing(k, root', sub', fat', held', leaked')
                /\ Became(Marks(Slots(root, sub), l), l.dirs, Marks(Slots(root', sub'), k), k.dirs,
                          d, n, cur, grows)
<1>1. Sane(Start(fails), l) /\ Seen(Start(fails)) = Slots(root, sub)
  BY StartSane, StartIs
<1>2. Lands(l, d, n, cur, grows, w)
  <2>1. CASE w.unread
    <3>1. ~off' /\ ~mistook'
      BY DEF Running
    <3>2. Stands(Start(fails), l, w, l)
      BY <1>1, <2>1, <3>1, MistookNothing
    <3> QED BY <1>1, <3>2 DEF Stands, Lands, Became, Grew, Shrank
  <2> QED BY <2>1
<1>3. PICK k : /\ Sane(w, k)
               /\ Became(Marks(Slots(root, sub), l), l.dirs, Marks(Seen(w), k), k.dirs, d, n, cur, grows)
  BY <1>2 DEF Lands
<1>4. /\ root' = w.root /\ sub' = Swept(w) /\ fat' = End(w.fat) /\ leaked' = w.leaked
      /\ held' = Holdings(w.root, w.sub, View(w.fat))
  BY DEF Finish
<1>5. /\ Standing(k, w.root, Swept(w), End(w.fat), Holdings(w.root, w.sub, View(w.fat)), w.leaked)
      /\ Marks(Slots(w.root, Swept(w)), k) = Marks(Seen(w), k)
  BY <1>3, SweptIs
<1>6. Standing(k, root', sub', fat', held', leaked') /\ Marks(Slots(root', sub'), k) = Marks(Seen(w), k)
  BY <1>4, <1>5
<1> QED BY <1>3, <1>6

(* A call that adds to the tree, or takes from it. *)
Steps(l, k, d, n, grows) ==
    /\ Standing(k, root', sub', fat', held', leaked')
    /\ Became(Marks(Slots(root, sub), l), l.dirs, Marks(Slots(root', sub'), k), k.dirs,
              d, n, cur_dir_cluster, grows)

(* After a call that grows the tree all is laid out again. *)
LEMMA GrewLaid ==
  ASSUME NEW l, Laid(l), NEW k, NEW d, NEW n, Steps(l, k, d, n, TRUE), Quiet
  PROVE  k \in Layouts /\ Laid(k)'
<1> DEFINE M == Marks(Slots(root, sub), l)
           N == Marks(Slots(root', sub'), k)
<1>1. Standing(k, root', sub', fat', held', leaked') /\ Grew(M, l.dirs, N, k.dirs, d, n)
  BY DEF Steps, Became
<1>2. k \in Layouts
  BY <1>1, StandingHas
<1>3. cur_dir_cluster \in k.dirs
  BY <1>1, GrewKeeps DEF Laid
<1>4. find.on => SearchFits(find, N, k.dirs)
  BY <1>1, GrewFits DEF Laid
<1> QED BY <1>1, <1>2, <1>3, <1>4 DEF Quiet, Laid

(* The search as a removal leaves it. *)
LEMMA AfterIs ==
  ASSUME find \in Searches, NEW d, NEW n
  PROVE  LET g == AfterRemoval(d, n) IN
         /\ g \in Searches /\ (~find.twice => ~g.twice)
         /\ (~find.on => find.due = {}) => (~g.on => g.due = {})
         /\ g.on => find.on /\ find.dir \in DirsIn(held')
         /\ g.on => g = IF find.dir = d /\ n \notin NamesIn(held', d) THEN Pruned(find, n) ELSE find
<1> DEFINE z == [NoSearch EXCEPT !.twice = find.twice]
<1>1. find.on \in BOOLEAN /\ find.twice \in BOOLEAN
  BY SearchesHave
<1>2. z \in Searches /\ z.on = FALSE /\ z.due = {} /\ z.twice = find.twice
  BY <1>1, CellsAre DEF NoSearch, Searches
<1> HIDE DEF z
<1>3. /\ Pruned(find, n) \in Searches /\ Pruned(find, n).on = find.on /\ Pruned(find, n).twice = find.twice
  BY PrunedIs
<1>4. AfterRemoval(d, n) =
         IF ~find.on THEN find
         ELSE IF find.dir \notin DirsIn(held') THEN z
         ELSE IF find.dir = d /\ n \notin NamesIn(held', d) THEN Pruned(find, n) ELSE find
  BY DEF AfterRemoval, Pruned, z
<1> QED BY <1>1, <1>2, <1>3, <1>4

(* After a removal all is laid out again. *)
LEMMA ShrankLaid ==
  ASSUME TypeOK, NEW l, Laid(l), NEW k, NEW d, NEW n, Steps(l, k, d, n, FALSE), find' = AfterRemoval(d, n),
         UNCHANGED cur_dir_cluster
  PROVE  k \in Layouts /\ Laid(k)'
<1> DEFINE M == Marks(Slots(root, sub), l)
           N == Marks(Slots(root', sub'), k)
           g == AfterRemoval(d, n)
<1>1. /\ Standing(k, root', sub', fat', held', leaked')
      /\ Shrank(M, l.dirs, N, k.dirs, d, n, cur_dir_cluster)
  BY DEF Steps, Became
<1>2. k \in Layouts /\ DirsIn(held') = k.dirs /\ \A b : NamesIn(held', b) = NamesOf(N, b)
  BY <1>1, StandingHas
<1>3. GoodMarks(M, l.dirs)
  BY StandingHas DEF Laid
<1>4. cur_dir_cluster \in k.dirs
  BY <1>1, <1>3, ShrankKeeps DEF Laid
<1>5. find \in Searches
  BY DEF TypeOK
<1>6. /\ g.on => find.on /\ find.dir \in k.dirs
      /\ g.on => g = IF find.dir = d /\ n \notin NamesOf(N, d) THEN Pruned(find, n) ELSE find
  BY <1>2, <1>5, AfterIs
<1> HIDE DEF M, N, g
<1>7. g.on => SearchFits(g, N, k.dirs)
  <2> SUFFICES ASSUME g.on PROVE SearchFits(g, N, k.dirs)
    OBVIOUS
  <2>1. SearchFits(find, M, l.dirs)
    BY <1>6 DEF Laid, M
  <2> QED BY <1>1, <1>3, <1>5, <1>6, <2>1, ShrankFits
<1>8. find' = g
  BY DEF g
<1>9. find'.on => SearchFits(find', N, k.dirs)
  BY <1>7, <1>8
<1>10. cur_dir_cluster' \in k.dirs
  BY <1>4
<1> QED BY <1>1, <1>2, <1>9, <1>10 DEF Laid, N

-----------------------------------------------------------------------------
(* Every call keeps the invariant. *)

(* What a call does to the tree, when it goes on. *)
Moves(d, n, grows) == Running' => \E l \in Layouts : Laid(l) /\ \E k : Steps(l, k, d, n, grows)

(* From a layout l, a call on name n in d ends with volume w. *)
Called(l, fails, d, n, grows, w) ==
    Onto(Start(fails), w) /\ (w.unread \/ Lands(l, d, n, cur_dir_cluster, grows, w))

(* What a call ends with satisfies the invariant. *)
LEMMA CallKeeps ==
  ASSUME IInv, Running, NEW l \in Layouts, Laid(l), NEW fails \in SUBSET Nat, NEW d, NEW n,
         NEW grows \in BOOLEAN, NEW w, Called(l, fails, d, n, grows, w), Finish(w),
         IF grows THEN Quiet ELSE find' = AfterRemoval(d, n) /\ UNCHANGED cur_dir_cluster
  PROVE  IInv' /\ Moves(d, n, grows)
<1>1. TypeOK /\ Standing(l, root, sub, fat, held, leaked) /\ w \in Vols
  BY DEF IInv, Laid, Called, Onto
<1>2. find \in Searches /\ ~find.twice /\ (~find.on => find.due = {}) /\ cur_dir_cluster \in Cell
  BY <1>1 DEF IInv, TypeOK
<1>3. /\ find' \in Searches /\ ~find'.twice /\ (~find'.on => find'.due = {})
      /\ cur_dir_cluster' = cur_dir_cluster
  <2>1. CASE grows
    BY <1>2, <2>1 DEF Quiet
  <2>2. CASE ~grows
    BY <1>2, <2>2, AfterIs
  <2> QED BY <2>1, <2>2
<1>4. /\ fat' \in Tables /\ root' \in Roots /\ disk' \in Roots /\ sub' \in Subs
      /\ faults' \in Nat /\ off' \in BOOLEAN /\ mistook' \in BOOLEAN /\ leaked' \in BOOLEAN
  BY <1>1, FinishTypes
<1>5. TypeOK'
  BY <1>2, <1>3, <1>4 DEF TypeOK
<1>6. ASSUME Running' PROVE \E k : k \in Layouts /\ Laid(k)' /\ Steps(l, k, d, n, grows)
  <2>1. PICK k : Steps(l, k, d, n, grows)
    BY <1>1, <1>6, CallLands DEF Called, Steps
  <2>2. CASE grows
    <3>1. Steps(l, k, d, n, TRUE) /\ Quiet
      BY <2>1, <2>2
    <3> QED BY <2>1, <3>1, GrewLaid
  <2>3. CASE ~grows
    <3>1. Steps(l, k, d, n, FALSE) /\ find' = AfterRemoval(d, n) /\ UNCHANGED cur_dir_cluster
      BY <2>1, <2>3
    <3> QED BY <1>1, <2>1, <3>1, ShrankLaid
  <2> QED BY <2>2, <2>3
<1>7. IInv'
  BY <1>3, <1>5, <1>6 DEF IInv
<1> QED BY <1>6, <1>7 DEF Moves

(* From the outcomes of the calls to Lands. *)
LEMMA CreatedLands ==
  ASSUME TypeOK, NEW l, NEW fails \in SUBSET Nat, NEW d, NEW n, NEW w, Created(Start(fails), l, d, n, w)
  PROVE  Called(l, fails, d, n, TRUE, w)
BY StartIs DEF Created, Called, Lands, Became, Grew

(* A make directory that ends is a call of the tree. *)
LEMMA MadeLands ==
  ASSUME TypeOK, NEW l, NEW fails \in SUBSET Nat, NEW d, NEW n, NEW w, Made(Start(fails), l, d, n, w)
  PROVE  Called(l, fails, d, n, TRUE, w)
BY StartIs DEF Made, Called, Lands, Became, Grew

(* A call that changes no name is a call of the tree. *)
LEMMA EndsLands ==
  ASSUME TypeOK, NEW l, NEW fails \in SUBSET Nat, NEW d, NEW n, NEW w, Ends(Start(fails), l, w)
  PROVE  Called(l, fails, d, n, TRUE, w)
BY StartIs DEF Ends, Stands, Called, Lands, Became, Grew

(* A removal that ends is a call of the tree. *)
LEMMA UnmadeLands ==
  ASSUME TypeOK, NEW l, NEW fails \in SUBSET Nat, NEW d, NEW n, NEW w,
         Unmade(Start(fails), l, d, n, cur_dir_cluster, w)
  PROVE  Called(l, fails, d, n, FALSE, w)
BY StartIs DEF Unmade, Called, Lands, Became, Shrank

(* A rename that ends is a call of the tree. *)
LEMMA RetitledLands ==
  ASSUME TypeOK, NEW l, NEW fails \in SUBSET Nat, NEW d, NEW n, NEW m \in Names, NEW w,
         Retitled(Start(fails), l, d, n, m, w)
  PROVE  Called(l, fails, d, n, FALSE, w)
BY StartIs DEF Retitled, Called, Lands, Became, Shrank

(* What every call begins from. *)
LEMMA CallBegins ==
  ASSUME IInv, Running, NEW d \in DirsIn(held), NEW fails \in SUBSET Nat
  PROVE  TypeOK /\ \E l \in Layouts : Laid(l) /\ Sane(Start(fails), l) /\ d \in l.dirs
<1>1. PICK l \in Layouts : Laid(l)
  BY DEF IInv
<1>2. TypeOK /\ Standing(l, root, sub, fat, held, leaked)
  BY <1>1 DEF IInv, Laid
<1>3. Sane(Start(fails), l) /\ d \in l.dirs
  BY <1>2, StartSane, StandingHas
<1> QED BY <1>1, <1>2, <1>3

(* Create keeps the invariant. *)
LEMMA CreateStep ==
  ASSUME IInv, NEW d \in DirsIn(held), NEW n \in Names, NEW fails \in SUBSET Nat, Create(d, n, fails)
  PROVE  IInv' /\ Moves(d, n, TRUE)
<1>1. Running /\ Finish(CreateTo(Start(fails), d, n)) /\ Quiet
  BY DEF Create, CreateTo, CreatePlaced, CreateLoaded
<1>2. TypeOK
  BY <1>1, CallBegins
<1>3. PICK l \in Layouts : Laid(l) /\ Sane(Start(fails), l) /\ d \in l.dirs
  BY <1>1, CallBegins
<1>4. Called(l, fails, d, n, TRUE, CreateTo(Start(fails), d, n))
  BY <1>2, <1>3, CreateIs, CreatedLands
<1> QED BY <1>1, <1>3, <1>4, CallKeeps

(* Make directory keeps the invariant. *)
LEMMA MkDirStep ==
  ASSUME IInv, NEW d \in DirsIn(held), NEW n \in Names, NEW fails \in SUBSET Nat, MkDir(d, n, fails)
  PROVE  IInv' /\ Moves(d, n, TRUE)
<1>1. Running /\ Finish(MkDirTo(Start(fails), d, n)) /\ Quiet
  BY DEF MkDir, MkDirTo, MkDirPlaced, MkDirTaken, MkDirDotted, MkDirFlushed, MkDirLoaded, MkDirWritten,
         MkDirFreed, DotsPut
<1>2. TypeOK
  BY <1>1, CallBegins
<1>3. PICK l \in Layouts : Laid(l) /\ Sane(Start(fails), l) /\ d \in l.dirs
  BY <1>1, CallBegins
<1>4. Called(l, fails, d, n, TRUE, MkDirTo(Start(fails), d, n))
  BY <1>2, <1>3, MkDirIs, MadeLands
<1> QED BY <1>1, <1>3, <1>4, CallKeeps

(* Delete keeps the invariant. *)
LEMMA DeleteStep ==
  ASSUME IInv, NEW d \in DirsIn(held), NEW n \in Names, NEW fails \in SUBSET Nat, Delete(d, n, fails)
  PROVE  IInv' /\ Moves(d, n, FALSE)
<1>1. /\ Running /\ Finish(DeleteTo(Start(fails), d, n)) /\ find' = AfterRemoval(d, n)
      /\ UNCHANGED cur_dir_cluster
  BY DEF Delete, DeleteTo, DeleteFound
<1>2. TypeOK
  BY <1>1, CallBegins
<1>3. PICK l \in Layouts : Laid(l) /\ Sane(Start(fails), l) /\ d \in l.dirs
  BY <1>1, CallBegins
<1>4. Called(l, fails, d, n, FALSE, DeleteTo(Start(fails), d, n))
  BY <1>2, <1>3, DeleteIs, UnmadeLands
<1> QED BY <1>1, <1>3, <1>4, CallKeeps

(* Remove directory keeps the invariant. *)
LEMMA RmDirStep ==
  ASSUME IInv, NEW d \in DirsIn(held), NEW n \in Names, NEW fails \in SUBSET Nat, RmDir(d, n, fails)
  PROVE  IInv' /\ Moves(d, n, FALSE)
<1>1. /\ Running /\ Finish(RmDirTo(Start(fails), d, n, cur_dir_cluster)) /\ find' = AfterRemoval(d, n)
      /\ UNCHANGED cur_dir_cluster
  BY DEF RmDir, RmDirTo, RmDirFound, RmDirScanned, RmDirLoaded
<1>2. TypeOK
  BY <1>1, CallBegins
<1>3. PICK l \in Layouts : Laid(l) /\ Sane(Start(fails), l) /\ d \in l.dirs
  BY <1>1, CallBegins
<1>4. Called(l, fails, d, n, FALSE, RmDirTo(Start(fails), d, n, cur_dir_cluster))
  BY <1>2, <1>3, RmDirIs, UnmadeLands
<1> QED BY <1>1, <1>3, <1>4, CallKeeps

(* Rename keeps the invariant. *)
LEMMA RenameStep ==
  ASSUME IInv, NEW d \in DirsIn(held), NEW n \in Names, NEW m \in Names, NEW fails \in SUBSET Nat,
         Rename(d, n, m, fails)
  PROVE  IInv' /\ Moves(d, n, FALSE)
<1>1. /\ Running /\ Finish(RenameTo(Start(fails), d, n, m)) /\ find' = AfterRemoval(d, n)
      /\ UNCHANGED cur_dir_cluster
  BY DEF Rename, RenameTo, RenameCompared, RenameLoaded
<1>2. TypeOK
  BY <1>1, CallBegins
<1>3. PICK l \in Layouts : Laid(l) /\ Sane(Start(fails), l) /\ d \in l.dirs
  BY <1>1, CallBegins
<1>4. Called(l, fails, d, n, FALSE, RenameTo(Start(fails), d, n, m))
  BY <1>2, <1>3, RenameIs, RetitledLands
<1> QED BY <1>1, <1>3, <1>4, CallKeeps

(* A write to an empty file keeps the invariant. *)
LEMMA WriteFileStep ==
  ASSUME IInv, NEW d \in DirsIn(held), NEW n \in Names, WriteFile(d, n)
  PROVE  IInv' /\ Moves(d, n, TRUE)
<1> DEFINE fails == {}
<1>1. PICK r \in {FindInDir(Start(fails), d, n)} :
        /\ r.how = "found" /\ SlotAt(r).is = "file" /\ SlotAt(r).first = FREE
        /\ \E t \in {FatAlloc(r.v.fat)} :
              ~t.cf /\ Finish(FileFilled(r.v, t, PlaceOf(r), SlotAt(r)))
  BY DEF WriteFile, FileFilled, JunkPut
<1>2. PICK t \in {FatAlloc(r.v.fat)} : ~t.cf /\ Finish(FileFilled(r.v, t, PlaceOf(r), SlotAt(r)))
  BY <1>1
<1>3. Running /\ Quiet
  BY DEF WriteFile
<1>4. fails \in SUBSET Nat /\ fails = {}
  OBVIOUS
<1>5. r = FindInDir(Start(fails), d, n) /\ t = FatAlloc(r.v.fat)
  BY <1>1, <1>2
<1> HIDE DEF fails
<1>6. TypeOK
  BY <1>3, <1>4, CallBegins
<1>7. PICK l \in Layouts : Laid(l) /\ Sane(Start(fails), l) /\ d \in l.dirs
  BY <1>3, <1>4, CallBegins
<1>8. Start(fails).fat.fails = {}
  BY <1>4, <1>6, StartIs
<1>9. Ends(Start(fails), l, FileFilled(r.v, t, PlaceOf(r), SlotAt(r)))
  BY <1>1, <1>2, <1>5, <1>7, <1>8, WriteFileIs
<1>10. Called(l, fails, d, n, TRUE, FileFilled(r.v, t, PlaceOf(r), SlotAt(r)))
  BY <1>4, <1>6, <1>9, EndsLands
<1> QED BY <1>2, <1>3, <1>4, <1>7, <1>10, CallKeeps

-----------------------------------------------------------------------------
(* Searches *)

Advanced(before, d, next, n) ==
    [before EXCEPT !.on = TRUE, !.dir = d, !.next = next,
                   !.due = @ \ {n}, !.given = @ \cup ({n} \cap Names),
                   !.twice = @ \/ n \in before.given]
Finished(before) == [NoSearch EXCEPT !.due = before.due, !.twice = before.twice]

(* A search that gives a name. *)
LEMMA AdvancedIs ==
  ASSUME NEW before \in Searches, NEW d \in Cell, NEW next \in Nat, NEW n
  PROVE  LET g == Advanced(before, d, next, n) IN
         /\ g \in Searches /\ g.on /\ g.dir = d /\ g.next = next
         /\ g.due = before.due \ {n} /\ g.given = before.given \cup ({n} \cap Names)
         /\ g.twice = (before.twice \/ n \in before.given)
<1> DEFINE tw == before.twice \/ n \in before.given
           gv == before.given \cup ({n} \cap Names)
           du == before.due \ {n}
           g == [on |-> TRUE, dir |-> d, next |-> next, due |-> du, given |-> gv, twice |-> tw]
<1>1. Advanced(before, d, next, n) =
         [before EXCEPT !.on = TRUE, !.dir = d, !.next = next, !.due = du, !.given = gv, !.twice = tw]
  BY DEF Advanced
<1>2. tw \in BOOLEAN /\ gv \in SUBSET Names /\ du \in SUBSET Names
  BY SearchesHave
<1> HIDE DEF tw, gv, du
<1>4. Advanced(before, d, next, n) = g
  BY <1>1, <1>2 DEF Searches
<1>3. /\ g \in Searches /\ g.on /\ g.dir = d /\ g.next = next /\ g.due = du /\ g.given = gv /\ g.twice = tw
  BY <1>2 DEF Searches
<1> QED BY <1>3, <1>4 DEF tw, gv, du

(* A search that is over. *)
LEMMA FinishedIs ==
  ASSUME NEW before \in Searches
  PROVE  LET g == Finished(before) IN
         g \in Searches /\ g.on = FALSE /\ g.due = before.due /\ g.twice = before.twice
<1>1. before.due \in SUBSET Names /\ before.twice \in BOOLEAN
  BY SearchesHave
<1> QED BY <1>1, CellsAre DEF Finished, NoSearch, Searches

(* Where a scan for every name ends, when no transfer fails. *)
SearchEnds(l, d, from, before, r) ==
    /\ ScanDone(Start({}), l, d, Sought(from), r)
    /\ r.v.unread = FALSE /\ Finish(r.v)
    /\ find' = IF r.how = "found" /\ Live(SlotAt(r))
               THEN Advanced(before, d, r.base + r.i, SlotAt(r).name) ELSE Finished(before)

(* A call without a failed transfer leaves the machine as it was. *)
LEMMA NoneFailed ==
  ASSUME TypeOK, NEW w \in Vols, w.fat.fails = {}, w.unread = FALSE, Finish(w)
  PROVE  faults' = faults /\ ~off' /\ ~mistook'
<1>1. ~Failed(w)
  BY DEF Failed
<1> QED BY <1>1 DEF Finish

(* A search's scan ends with the next entry, or behind all of them. *)
LEMMA SearchScans ==
  ASSUME TypeOK, NEW l, Standing(l, root, sub, fat, held, leaked), NEW before, NEW d \in l.dirs,
         NEW from \in Nat, Search(before, d, from)
  PROVE  \E r : SearchEnds(l, d, from, before, r)
<1> DEFINE fails == {}
           v == Start(fails)
<1>1. PICK r \in {Scan(v, d, Sought(from))} :
        /\ Finish(r.v)
        /\ find' = IF r.how = "found" /\ Live(SlotAt(r))
                   THEN Advanced(before, d, r.base + r.i, SlotAt(r).name) ELSE Finished(before)
  BY DEF Search, Sought, Advanced, Finished
<1>2. fails \in SUBSET Nat /\ fails = {}
  OBVIOUS
<1> HIDE DEF fails
<1>3. Sane(v, l) /\ v.fat.fails = {} /\ v.unread = FALSE
  BY <1>2, StartSane, StartIs
<1> HIDE DEF v
<1>4. ScanDone(v, l, d, Sought(from), r)
  BY <1>1, <1>3, ScanIs DEF Sane
<1>5. Reads(v, r.v)
  BY <1>4 DEF ScanDone
<1>6. r.v.unread = FALSE
  <2>1. r.v.unread \in BOOLEAN /\ (r.v.unread <=> v.unread)
    BY <1>3, <1>5, ReadsIs
  <2> QED BY <1>3, <2>1
<1>7. v = Start({})
  BY <1>2 DEF v
<1> QED BY <1>1, <1>4, <1>6, <1>7 DEF SearchEnds

(* The tree stays, and the search fits it or has come to its end. *)
LEMMA SearchFound ==
  ASSUME NEW T, NEW F, NEW l, Good(T, F, l), NEW v, Seen(v) = T, NEW d \in l.dirs, NEW from \in Nat,
         NEW r, ScanDone(v, l, d, Sought(from), r), r.v.unread = FALSE,
         NEW before \in Searches, ~before.twice, Between(before.given, before.due, d, from, Marks(T, l)),
         NEW g, g = IF r.how = "found" /\ Live(SlotAt(r))
                    THEN Advanced(before, d, r.base + r.i, SlotAt(r).name) ELSE Finished(before)
  PROVE  /\ g \in Searches /\ ~g.twice /\ (~g.on => g.due = {})
         /\ g.on => SearchFits(g, Marks(T, l), l.dirs)
<1>1. /\ Reads(v, r.v) /\ r.c \in DirCells(l) /\ l.own[r.c] = d /\ r.c \in Cell
      /\ r.how \in {"found", "end", "bad"} /\ r.i \in Nat /\ r.base \in Nat
  BY ScanHas DEF ScanDone
<1>2. r.how # "bad"
  BY DEF ScanDone
<1>3. r.how = "found" => /\ r.i \in 1 .. Width(r.c) /\ r.base + r.i = Index(l, r.c, r.i)
                         /\ FirstStop(T, l, Sought(from), r.c, r.i)
  BY DEF ScanDone
<1>4. r.how = "end" => NoStopIn(T, l, d, Sought(from))
  BY DEF ScanDone
<1>5. SlotAt(r) = T[r.c][r.i]
  BY <1>1, SlotAtIs
<1>6. before.given \in SUBSET Names /\ before.due \in SUBSET Names /\ before.twice \in BOOLEAN
  BY SearchesHave
<1>7. CASE r.how = "found" /\ Live(SlotAt(r))
  <2> DEFINE n == SlotAt(r).name
             x == Index(l, r.c, r.i)
  <2>1. /\ n \notin before.given
        /\ Between(before.given \cup ({n} \cap Names), before.due \ {n}, d, x, Marks(T, l))
    BY <1>1, <1>3, <1>5, <1>6, <1>7, OneGiven
  <2>2. g = Advanced(before, d, x, n) /\ x \in Nat /\ d \in Cell
    BY <1>1, <1>3, <1>7, GoodHas
  <2> HIDE DEF n, x
  <2>3. /\ g \in Searches /\ g.on /\ g.dir = d /\ g.next = x
        /\ g.due = before.due \ {n} /\ g.given = before.given \cup ({n} \cap Names)
        /\ g.twice = (before.twice \/ n \in before.given)
    BY <2>2, AdvancedIs
  <2>4. SearchFits(g, Marks(T, l), l.dirs)
    BY <2>1, <2>3 DEF SearchFits
  <2> QED BY <2>1, <2>3, <2>4
<1>8. CASE ~(r.how = "found" /\ Live(SlotAt(r)))
  <2>1. \A b \in DirCells(l) : l.own[b] = d => \A j \in 1 .. Width(b) :
           T[b][j].is # "unused" => ~Stops(Sought(from), T[b][j], Index(l, b, j) - 1)
    <3>1. CASE r.how = "end"
      BY <1>4, <3>1 DEF NoStopIn, NoStop
    <3>2. CASE r.how = "found"
      <4>1. T[r.c][r.i].is = "unused"
        <5>1. Stops(Sought(from), T[r.c][r.i], Index(l, r.c, r.i) - 1)
          BY <1>3, <3>2 DEF FirstStop
        <5> QED BY <1>5, <1>8, <3>2, <5>1, NamedStop DEF Sought
      <4> QED BY <1>1, <1>3, <3>2, <4>1, NoneBehind
    <3> QED BY <1>1, <1>2, <3>1, <3>2
  <2>2. before.due = {}
    BY <2>1, NoneDue
  <2>3. g = Finished(before)
    BY <1>8
  <2> QED BY <2>2, <2>3, FinishedIs
<1> QED BY <1>7, <1>8

(* A step of a search keeps the invariant. *)
LEMMA SearchStep ==
  ASSUME IInv, Running, NEW l \in Layouts, Laid(l), NEW before \in Searches, ~before.twice,
         NEW d \in l.dirs, NEW from \in Nat,
         Between(before.given, before.due, d, from, Marks(Slots(root, sub), l)), Search(before, d, from)
  PROVE  IInv' /\ held' = held
<1> DEFINE v == Start({})
           T == Slots(root, sub)
           F == View(fat)
<1>1. TypeOK /\ Standing(l, root, sub, fat, held, leaked) /\ cur_dir_cluster \in l.dirs
  BY DEF IInv, Laid
<1>2. PICK r : SearchEnds(l, d, from, before, r)
  BY <1>1, SearchScans
<1>3. ScanDone(v, l, d, Sought(from), r) /\ r.v.unread = FALSE /\ Finish(r.v)
  BY <1>2 DEF SearchEnds
<1>4. /\ v \in Vols /\ v.fat.fails = {} /\ v.root = root /\ v.sub = sub /\ Seen(v) = T /\ Fat(v) = F
      /\ v.leaked = leaked /\ Sane(v, l)
  <2> DEFINE fails == {}
  <2>1. fails \in SUBSET Nat /\ fails = {} /\ v = Start(fails)
    OBVIOUS
  <2> HIDE DEF fails, v, T, F
  <2>2. /\ Start(fails) \in Vols /\ Start(fails).fat.fails = fails /\ Start(fails).root = root
        /\ Start(fails).sub = sub /\ Seen(Start(fails)) = Slots(root, sub)
        /\ Fat(Start(fails)) = View(fat) /\ Start(fails).leaked = leaked
    BY <1>1, <2>1, StartIs
  <2>3. Sane(Start(fails), l)
    BY <1>1, <2>1, StartSane
  <2> QED BY <2>1, <2>2, <2>3 DEF T, F
<1> HIDE DEF v
<1>5. Reads(v, r.v)
  BY <1>3 DEF ScanDone
<1>6. /\ r.v \in Vols /\ Seen(r.v) = Seen(v) /\ Fat(r.v) = Fat(v) /\ r.v.leaked = v.leaked
      /\ r.v.fat.fails = {} /\ r.v.root = root /\ r.v.sub = sub
  BY <1>4, <1>5, ReadsIs DEF Reads
<1>7. faults' = faults /\ ~off' /\ ~mistook'
  BY <1>1, <1>3, <1>6, NoneFailed
<1>8. Sane(r.v, l)
  BY <1>4, <1>5, SaneReads
<1>9. /\ Standing(l, root', sub', fat', held', leaked')
      /\ Marks(Slots(root', sub'), l) = Marks(T, l)
  <2>1. /\ root' = r.v.root /\ sub' = Swept(r.v) /\ fat' = End(r.v.fat) /\ leaked' = r.v.leaked
        /\ held' = Holdings(r.v.root, r.v.sub, View(r.v.fat))
    BY <1>3 DEF Finish
  <2>2. /\ Standing(l, r.v.root, Swept(r.v), End(r.v.fat), Holdings(r.v.root, r.v.sub, View(r.v.fat)), r.v.leaked)
        /\ Marks(Slots(r.v.root, Swept(r.v)), l) = Marks(Seen(r.v), l)
    BY <1>8, SweptIs
  <2> QED BY <1>4, <1>6, <2>1, <2>2
<1>10. held' = held
  <2>1. held = Holdings(root, sub, F)
    BY <1>1, StandingHas
  <2>2. held' = Holdings(r.v.root, r.v.sub, Fat(r.v))
    BY <1>3 DEF Finish, Fat
  <2> QED BY <1>4, <1>6, <2>1, <2>2
<1>11. Good(T, F, l)
  BY <1>1, StandingHas
<1>12. /\ find' \in Searches /\ ~find'.twice /\ (~find'.on => find'.due = {})
       /\ find'.on => SearchFits(find', Marks(T, l), l.dirs)
  <2>1. find' = IF r.how = "found" /\ Live(SlotAt(r))
                THEN Advanced(before, d, r.base + r.i, SlotAt(r).name) ELSE Finished(before)
    BY <1>2 DEF SearchEnds
  <2> QED BY <1>3, <1>4, <1>11, <2>1, SearchFound
<1>13. cur_dir_cluster' = cur_dir_cluster
  BY DEF Search
<1>14. TypeOK'
  <2>1. /\ fat' \in Tables /\ root' \in Roots /\ disk' \in Roots /\ sub' \in Subs
        /\ faults' \in Nat /\ off' \in BOOLEAN /\ mistook' \in BOOLEAN /\ leaked' \in BOOLEAN
    BY <1>1, <1>3, <1>6, FinishTypes
  <2>2. cur_dir_cluster' \in Cell
    BY <1>1, <1>13 DEF TypeOK
  <2> QED BY <1>12, <2>1, <2>2 DEF TypeOK
<1>15. Laid(l)'
  <2>1. find'.on => SearchFits(find', Marks(Slots(root', sub'), l), l.dirs)
    BY <1>9, <1>12
  <2>2. cur_dir_cluster' \in l.dirs
    BY <1>1, <1>13
  <2> QED BY <1>9, <2>1, <2>2 DEF Laid
<1> QED BY <1>10, <1>12, <1>14, <1>15 DEF IInv

(* Find first keeps the invariant. *)
LEMMA FindFirstStep ==
  ASSUME IInv, NEW d \in DirsIn(held), FindFirst(d)
  PROVE  IInv' /\ held' = held
<1> DEFINE names == NamesIn(held, d)
           tw == find.twice
           before == [NoSearch EXCEPT !.due = names, !.twice = tw]
           zero == 0
<1>1. Running /\ Search(before, d, zero) /\ zero \in Nat /\ zero = 0
  BY DEF FindFirst
<1>2. PICK l \in Layouts : Laid(l)
  BY <1>1 DEF IInv
<1>3. Standing(l, root, sub, fat, held, leaked) /\ TypeOK /\ ~tw
  BY <1>2 DEF IInv, Laid
<1> DEFINE M == Marks(Slots(root, sub), l)
<1>4. d \in l.dirs /\ GoodMarks(M, l.dirs) /\ names = NamesOf(M, d)
  BY <1>3, StandingHas
<1>5. tw \in BOOLEAN
  BY <1>3 DEF TypeOK, Searches
<1> HIDE DEF names, tw, M, zero
<1>6. names \in SUBSET Names
  BY <1>4 DEF GoodMarks, MarkSet, NamesOf
<1>7. before \in Searches /\ before.due = names /\ before.given = {} /\ before.twice = tw
  BY <1>5, <1>6, CellsAre DEF NoSearch, Searches
<1> HIDE DEF before
<1>8. Between(before.given, before.due, d, zero, M)
  <2>1. \A n \in names : \E m \in M : m.dir = d /\ m.name = n /\ m.index > 0
    BY <1>4 DEF NamesOf, GoodMarks
  <2> QED BY <1>1, <1>7, <2>1 DEF Between
<1> QED BY <1>1, <1>2, <1>3, <1>4, <1>7, <1>8, SearchStep DEF M

(* Find next keeps the invariant. *)
LEMMA FindNextStep ==
  ASSUME IInv, FindNext
  PROVE  IInv' /\ held' = held
<1>1. Running /\ find.on /\ Search(find, find.dir, find.next)
  BY DEF FindNext, Resume
<1>2. PICK l \in Layouts : Laid(l)
  BY <1>1 DEF IInv
<1>3. find \in Searches /\ ~find.twice /\ find.next \in Nat
  BY SearchesHave DEF IInv, TypeOK
<1>4. /\ find.dir \in l.dirs
      /\ Between(find.given, find.due, find.dir, find.next, Marks(Slots(root, sub), l))
  BY <1>1, <1>2 DEF Laid, SearchFits
<1> QED BY <1>1, <1>2, <1>3, <1>4, SearchStep

(* A change of directory keeps the invariant. *)
LEMMA ChDirStep ==
  ASSUME IInv, NEW d \in DirsIn(held), ChDir(d)
  PROVE  IInv' /\ held' = held
<1>1. Running /\ cur_dir_cluster' = d /\ UNCHANGED <<fat, root, disk, sub, find, faults, off, mistook, leaked, held>>
  BY DEF ChDir
<1>2. PICK l \in Layouts : Laid(l)
  BY <1>1 DEF IInv
<1>3. d \in l.dirs /\ d \in Cell
  <2>1. d \in l.dirs /\ l \in Layouts
    BY <1>2, StandingHas DEF Laid
  <2> QED BY <2>1, LayoutHas
<1>4. Laid(l)'
  BY <1>1, <1>2, <1>3 DEF Laid
<1>5. TypeOK'
  BY <1>1, <1>3 DEF IInv, TypeOK
<1> QED BY <1>1, <1>4, <1>5 DEF IInv

-----------------------------------------------------------------------------
(* The invariant holds at first and always. *)

NoLayout ==
    [own |-> [c \in Cell |-> IF c = ROOT_CLUSTER THEN ROOT_CLUSTER ELSE Nobody],
     pos |-> [c \in Cell |-> 0], dirs |-> {ROOT_CLUSTER}, rank |-> [c \in Cell |-> 0],
     in |-> [c \in Cell |-> ROOT_CLUSTER], num |-> [c \in Cell |-> 0]]

(* The layout of an empty volume. *)
LEMMA NoLayoutIs ==
  /\ NoLayout \in Layouts /\ NoLayout.dirs = {ROOT_CLUSTER}
  /\ NoLayout.own[ROOT_CLUSTER] = ROOT_CLUSTER /\ \A c \in Clusters : NoLayout.own[c] = Nobody
  /\ \A c \in Cell : NoLayout.pos[c] = 0 /\ NoLayout.rank[c] = 0
  /\ DirCells(NoLayout) = {ROOT_CLUSTER}
<1>1. /\ NoLayout.own = [c \in Cell |-> IF c = ROOT_CLUSTER THEN ROOT_CLUSTER ELSE Nobody]
      /\ NoLayout.dirs = {ROOT_CLUSTER}
      /\ NoLayout.pos = [c \in Cell |-> 0] /\ NoLayout.rank = [c \in Cell |-> 0]
  BY DEF NoLayout
<1>2. NoLayout \in Layouts
  BY CellsAre DEF NoLayout, Layouts
<1>3. NoLayout.own[ROOT_CLUSTER] = ROOT_CLUSTER /\ \A c \in Clusters : NoLayout.own[c] = Nobody
  BY <1>1, CellsAre
<1>4. Nobody # ROOT_CLUSTER
  BY CellsAre
<1>5. DirCells(NoLayout) = {ROOT_CLUSTER}
  BY <1>1, <1>3, <1>4, CellsAre DEF DirCells
<1> QED BY <1>1, <1>2, <1>3, <1>5

(* An empty root is good and holds nothing. *)
LEMMA EmptyRoot ==
  ASSUME NEW T, T[ROOT_CLUSTER] = [i \in 1 .. RootSlots |-> UNUSED], NEW F
  PROVE  Good(T, F, NoLayout) /\ Held(T, F, NoLayout) = {}
<1> DEFINE l == NoLayout
<1>0. UNUSED.is = "unused" /\ ~IsEntry(UNUSED) /\ UNUSED \in Slot
  BY CellsAre DEF UNUSED, Entry32, IsEntry, Slot, Kind, Dots
<1>1. /\ l \in Layouts /\ l.dirs = {ROOT_CLUSTER}
      /\ l.own[ROOT_CLUSTER] = ROOT_CLUSTER /\ \A c \in Clusters : l.own[c] = Nobody
      /\ \A c \in Cell : l.pos[c] = 0 /\ l.rank[c] = 0
      /\ DirCells(l) = {ROOT_CLUSTER}
  BY NoLayoutIs
<1> HIDE DEF l
<1>2. GoodChains(F, l)
  <2>1. l.pos[ROOT_CLUSTER] = 0 /\ l.rank[ROOT_CLUSTER] = 0
    BY <1>1, CellsAre
  <2> QED BY <1>1, <2>1 DEF GoodChains
<1>3. \A c \in DirCells(l) : \A i \in 1 .. Width(c) : T[c][i] = UNUSED
  BY <1>1 DEF Width
<1>4. GoodSlots(T, l)
  BY <1>0, <1>1 DEF GoodSlots, Width
<1>5. GoodEntries(T, l)
  <2>1. \A f \in Clusters : l.own[f] # f
    BY <1>1, CellsAre
  <2> QED BY <1>0, <1>3, <2>1 DEF GoodEntries
<1>6. GoodNames(T, l)
  BY <1>0, <1>3 DEF GoodNames
<1>7. \A h : h \notin Held(T, F, l)
  BY <1>0, <1>3, HeldIs
<1> QED BY <1>2, <1>4, <1>5, <1>6, <1>7 DEF Good, l

(* The invariant holds at first. *)
LEMMA StartsSound == Init => IInv
<1> SUFFICES ASSUME Init PROVE IInv
  OBVIOUS
<1> DEFINE T == Slots(root, sub)
           F == View(fat)
<1>1. /\ fat = EmptyTable /\ root = [i \in 1 .. RootSlots |-> UNUSED] /\ disk = root
      /\ sub = [c \in Clusters |-> Junk] /\ cur_dir_cluster = ROOT_CLUSTER /\ find = NoSearch
      /\ faults = 0 /\ off = FALSE /\ mistook = FALSE /\ leaked = FALSE /\ held = {}
  BY DEF Init
<1>2. TypeOK
  <2>1. fat \in Tables
    BY <1>1, EmptyTableIs
  <2>2. UNUSED \in Slot
    BY CellsAre DEF UNUSED, Entry32, IsEntry, Slot, Kind, Dots
  <2>3. root \in Roots /\ disk \in Roots
    BY <1>1, <2>2 DEF Roots
  <2>4. sub \in Subs
    BY <1>1 DEF Subs, SubSlots
  <2>5. find \in Searches
    BY <1>1, CellsAre DEF NoSearch, Searches
  <2> QED BY <1>1, <2>1, <2>3, <2>4, <2>5, CellsAre DEF TypeOK
<1>3. ~find.twice /\ ~find.on /\ find.due = {}
  BY <1>1 DEF NoSearch
<1>4. Good(T, F, NoLayout) /\ Held(T, F, NoLayout) = {}
  <2>1. T[ROOT_CLUSTER] = root
    BY SlotsAre
  <2> HIDE DEF T, F
  <2> QED BY <1>1, <2>1, EmptyRoot
<1>5. \A c \in Clusters : F[c] = FREE
  BY <1>1, EmptyTableIs
<1>6. Standing(NoLayout, root, sub, fat, held, leaked)
  BY <1>1, <1>4, <1>5 DEF Standing
<1>7. NoLayout \in Layouts /\ Laid(NoLayout)
  BY <1>1, <1>3, <1>6, NoLayoutIs DEF Laid
<1> QED BY <1>2, <1>3, <1>7 DEF IInv

(* What a step of the system is to the tree. *)
LEMMA EveryStep ==
  ASSUME IInv, Next
  PROVE  /\ IInv'
         /\ held' = held \/ \E d \in DirsIn(held), n \in Names, grows \in BOOLEAN : Moves(d, n, grows)
<1> DEFINE Goal == /\ IInv'
                   /\ held' = held \/ \E d \in DirsIn(held), n \in Names, grows \in BOOLEAN : Moves(d, n, grows)
<1>1. ASSUME NEW d \in DirsIn(held), NEW n \in Names, NEW k, NEW lasting, NEW fails, fails = Failing(k, lasting),
             Create(d, n, fails) \/ MkDir(d, n, fails) \/ Delete(d, n, fails) \/ RmDir(d, n, fails)
                \/ \E m \in Names \ {n} : Rename(d, n, m, fails)
      PROVE  Goal
  <2>0. fails \in SUBSET Nat
    BY <1>1, FailingIs
  <2>1. CASE Create(d, n, fails)
    BY <2>0, <2>1, CreateStep
  <2>2. CASE MkDir(d, n, fails)
    BY <2>0, <2>2, MkDirStep
  <2>3. CASE Delete(d, n, fails)
    BY <2>0, <2>3, DeleteStep
  <2>4. CASE RmDir(d, n, fails)
    BY <2>0, <2>4, RmDirStep
  <2>5. ASSUME NEW m \in Names, Rename(d, n, m, fails) PROVE Goal
    BY <2>0, <2>5, RenameStep
  <2> QED BY <1>1, <2>1, <2>2, <2>3, <2>4, <2>5
<1>2. ASSUME NEW d \in DirsIn(held), NEW n \in Names, WriteFile(d, n) PROVE Goal
  BY <1>2, WriteFileStep
<1>3. ASSUME NEW d \in DirsIn(held), ChDir(d) \/ FindFirst(d) PROVE Goal
  BY <1>3, ChDirStep, FindFirstStep
<1>4. ASSUME FindNext PROVE Goal
  BY <1>4, FindNextStep
<1> HIDE DEF Goal
<1>5. Goal
  BY <1>1, <1>2, <1>3, <1>4 DEF Next
<1> QED BY <1>5 DEF Goal

(* Every step keeps the invariant. *)
LEMMA StaysSound == IInv /\ [Next]_vars => IInv'
<1> SUFFICES ASSUME IInv, [Next]_vars PROVE IInv'
  OBVIOUS
<1>1. CASE Next
  BY <1>1, EveryStep
<1>2. CASE UNCHANGED vars
  BY <1>2 DEF vars, IInv, TypeOK, Running, Laid
<1> QED BY <1>1, <1>2

(* Until the machine is off or a call has written upon a mistake, the tree *)
(* in memory has a layout after every call, and a search fits it.          *)
THEOREM Always == Spec => []IInv
BY StartsSound, StaysSound, PTL DEF Spec

(* The tables, the root, the directories on the disk and the program's     *)
(* search keep their types.                                                *)
THEOREM TypeCorrect == Spec => []TypeOK
<1>1. IInv => TypeOK
  BY DEF IInv
<1> QED BY <1>1, Always, PTL

-----------------------------------------------------------------------------
(* The tree is sound. *)

(* Clusters of an entry are its first cluster's own. *)
LEMMA HasOwn ==
  ASSUME NEW T, NEW F, NEW l, Good(T, F, l), NEW c \in DirCells(l), NEW i \in 1 .. Width(c), IsEntry(T[c][i])
  PROVE  LET f == T[c][i].first
             has == HoldAt(T, F, l, c, i).has
         IN  /\ T[c][i].is = "dir" => has = CellsOf(l, f)
             /\ T[c][i].is = "file" => has = {f} \ {FREE}
             /\ \A x \in has : l.own[x] = f /\ f # FREE
<1> DEFINE f == T[c][i].first
           has == HoldAt(T, F, l, c, i).has
<1>1. T[c][i].is = "dir" => f \in l.dirs \ {ROOT_CLUSTER} /\ has = CellsOf(l, f)
  BY EntriesHave, HoldAtIs, LinksAre DEF Good
<1>2. T[c][i].is = "file" => has = {f} \ {FREE}
  BY HoldAtIs
<1>3. f # FREE => l.own[f] = f
  BY EntriesHave
<1>4. T[c][i].is \in {"file", "dir"}
  BY DEF IsEntry
<1> HIDE DEF f, has
<1>5. \A x \in has : l.own[x] = f /\ f # FREE
  BY <1>1, <1>2, <1>3, <1>4, CellsAre DEF CellsOf
<1> QED BY <1>1, <1>2, <1>5 DEF f, has

(* A chain ends. *)
LEMMA ChainEnds ==
  ASSUME NEW F, NEW l, GoodChains(F, l), NEW d \in l.dirs \ {ROOT_CLUSTER}
  PROVE  \E c \in CellsOf(l, d) : F[c] = EOC
<1> SUFFICES ASSUME \A c \in CellsOf(l, d) : F[c] # EOC PROVE FALSE
  OBVIOUS
<1>1. /\ d \in CellsOf(l, d) /\ l.pos[d] = 0 /\ CellsOf(l, d) \subseteq Clusters
      /\ \A c \in CellsOf(l, d) : l.pos[c] \in Nat /\ l.pos[c] < NClusters /\ l.own[c] = d
  BY CellsOfIs DEF CellsOf
<1>2. d # Nobody
  BY <1>1, CellsAre
<1>3. \A c \in CellsOf(l, d) : \E b \in CellsOf(l, d) : l.pos[b] = l.pos[c] + 1
  <2> SUFFICES ASSUME NEW c \in CellsOf(l, d) PROVE \E b \in CellsOf(l, d) : l.pos[b] = l.pos[c] + 1
    OBVIOUS
  <2>1. F[c] \in Clusters /\ l.own[F[c]] = l.own[c] /\ l.pos[F[c]] = l.pos[c] + 1
    BY <1>1, <1>2 DEF GoodChains
  <2>2. F[c] \in CellsOf(l, d)
    BY <1>1, <2>1, CellsAre DEF CellsOf
  <2> QED BY <2>1, <2>2
<1> DEFINE I == {k \in Nat : \E c \in CellsOf(l, d) : l.pos[c] = k}
<1>4. 0 \in I
  BY <1>1
<1>5. NClusters \in Nat
  BY ClustersFinite
<1>6. \A k \in 1 .. NClusters : k - 1 \in I => k \in I
  <2> SUFFICES ASSUME NEW k \in 1 .. NClusters, k - 1 \in I PROVE k \in I
    OBVIOUS
  <2>1. PICK c \in CellsOf(l, d) : l.pos[c] = k - 1
    OBVIOUS
  <2>2. PICK b \in CellsOf(l, d) : l.pos[b] = l.pos[c] + 1
    BY <1>3
  <2>3. l.pos[b] = k /\ k \in Nat
    BY <1>5, <2>1, <2>2
  <2> QED BY <2>3
<1>7. NClusters \in I
  <2> HIDE DEF I
  <2>1. \A k \in 0 .. NClusters : k \in I
    BY <1>4, <1>5, <1>6, Upwards
  <2> QED BY <1>5, <2>1
<1> QED BY <1>1, <1>5, <1>7

(* A directory that is held is whole: its chain ends, and its dots are     *)
(* right.                                                                  *)
LEMMA WholeIs ==
  ASSUME NEW sb, NEW rt, NEW T, T = Slots(rt, sb), NEW F, NEW l, Good(T, F, l),
         NEW c \in DirCells(l), NEW i \in 1 .. Width(c), T[c][i].is = "dir"
  PROVE  Whole(sb, F, HoldAt(T, F, l, c, i))
<1> DEFINE h == HoldAt(T, F, l, c, i)
           f == T[c][i].first
<1>1. IsEntry(T[c][i])
  BY DEF IsEntry
<1>2. /\ h.first = f /\ h.dir = l.own[c] /\ h.has = CellsOf(l, f)
      /\ f \in l.dirs \ {ROOT_CLUSTER} /\ l.in[f] = c
  BY <1>1, HasOwn, HoldAtIs, EntriesHave, CellsAre
<1>3. CellsOf(l, f) \subseteq DirCells(l) /\ CellsOf(l, f) \subseteq Clusters /\ f \in Clusters
  BY <1>2, CellsOfIs DEF Good
<1>4. \A b \in CellsOf(l, f) : sb[b] = T[b] /\ T[b] \in [1 .. Width(b) -> Slot]
  BY <1>3, SlotsAre DEF Good, GoodSlots
<1>5. \A b \in CellsOf(l, f) : sb[b] # Junk
  <2> SUFFICES ASSUME NEW b \in CellsOf(l, f), sb[b] = Junk PROVE FALSE
    OBVIOUS
  <2>1. DOMAIN sb[b] = 1 .. Width(b) /\ Width(b) \in Nat /\ Width(b) > 0
    BY <1>3, <1>4, WidthIs, CellsAre
  <2>2. DOMAIN sb[b] = {}
    BY DEF Junk
  <2> QED BY <2>1, <2>2
<1>6. \E b \in CellsOf(l, f) : F[b] = EOC
  BY <1>2, ChainEnds DEF Good
<1>7. sb[f][1] = Entry32("dot", ".", f) /\ sb[f][2] = Entry32("dot", "..", l.own[l.in[f]])
  BY <1>2, <1>3, SlotsAre DEF Good, GoodSlots
<1> HIDE DEF h, f
<1>8. Whole(sb, F, h)
  BY <1>2, <1>5, <1>6, <1>7 DEF Whole
<1> QED BY <1>8 DEF h

(* A good tree is sound. *)
LEMMA SoundIs ==
  ASSUME NEW rt, NEW sb, NEW T, T = Slots(rt, sb), NEW F, NEW l, Good(T, F, l)
  PROVE  SoundTree(Held(T, F, l), sb, F)
<1>1. \A h \in Held(T, F, l) : h.is = "dir" => Whole(sb, F, h)
  BY HeldIs, HoldAtIs, WholeIs
<1>2. ASSUME NEW h \in Held(T, F, l), NEW g \in Held(T, F, l), g # h
      PROVE  h.has \cap g.has = {} /\ (h.dir = g.dir => h.name # g.name)
  <2>1. PICK c \in DirCells(l) : \E i \in 1 .. Width(c) : IsEntry(T[c][i]) /\ h = HoldAt(T, F, l, c, i)
    BY HeldIs
  <2>2. PICK i \in 1 .. Width(c) : IsEntry(T[c][i]) /\ h = HoldAt(T, F, l, c, i)
    BY <2>1
  <2>3. PICK b \in DirCells(l) : \E j \in 1 .. Width(b) : IsEntry(T[b][j]) /\ g = HoldAt(T, F, l, b, j)
    BY HeldIs
  <2>4. PICK j \in 1 .. Width(b) : IsEntry(T[b][j]) /\ g = HoldAt(T, F, l, b, j)
    BY <2>3
  <2>5. ~(b = c /\ i = j)
    BY <1>2, <2>2, <2>4
  <2>6. ASSUME NEW x \in h.has, x \in g.has PROVE FALSE
    <3>1. T[c][i].first = T[b][j].first /\ T[c][i].first # FREE
      BY <2>2, <2>4, <2>6, HasOwn
    <3>2. /\ l.in[T[c][i].first] = c /\ l.num[T[c][i].first] = i
          /\ l.in[T[b][j].first] = b /\ l.num[T[b][j].first] = j
      BY <2>2, <2>4, <3>1, EntriesHave
    <3> QED BY <2>5, <3>1, <3>2
  <2>7. ASSUME h.dir = g.dir PROVE h.name # g.name
    <3>1. l.own[c] = l.own[b] /\ h.name = T[c][i].name /\ g.name = T[b][j].name
      BY <2>2, <2>4, <2>7, HoldAtIs
    <3> QED BY <2>2, <2>4, <2>5, <3>1, NamesHas
  <2> QED BY <2>6, <2>7
<1> QED BY <1>1, <1>2 DEF SoundTree

(* Nothing stands behind an unused slot. *)
LEMMA NothingBehind ==
  ASSUME NEW rt, NEW sb, NEW T, T = Slots(rt, sb), NEW F, NEW l, Good(T, F, l), NEW d \in l.dirs
  PROVE  \A x, y \in SlotsOf(rt, sb, F, d) : x[1] < y[1] /\ x[2].is = "unused" => y[2].is = "unused"
<1>1. SlotsOf(rt, sb, F, d) = {<<Index(l, p[1], p[2]), T[p[1]][p[2]]>> : p \in PlacesIn(l, d)}
  BY SlotsOfIs DEF Good
<1> SUFFICES ASSUME NEW x \in SlotsOf(rt, sb, F, d), NEW y \in SlotsOf(rt, sb, F, d),
                    x[1] < y[1], x[2].is = "unused"
             PROVE  y[2].is = "unused"
  OBVIOUS
<1>2. PICK p \in PlacesIn(l, d) : x = <<Index(l, p[1], p[2]), T[p[1]][p[2]]>>
  BY <1>1
<1>3. PICK q \in PlacesIn(l, d) : y = <<Index(l, q[1], q[2]), T[q[1]][q[2]]>>
  BY <1>1
<1>4. /\ p[1] \in CellsOf(l, d) /\ q[1] \in CellsOf(l, d) /\ CellsOf(l, d) \subseteq DirCells(l)
      /\ l.own[p[1]] = d /\ l.own[q[1]] = d
  BY CellsOfIs DEF PlacesIn, CellsOf, Good
<1>5. p[2] \in 1 .. Width(p[1]) /\ q[2] \in 1 .. Width(q[1])
  <2>1. Width(p[1]) \in Nat /\ Width(q[1]) \in Nat
    BY <1>4, WidthIs DEF CellsOf
  <2>2. /\ p[2] \in 1 .. RootSlots + SlotsPerSector /\ p[2] <= Width(p[1])
        /\ q[2] \in 1 .. RootSlots + SlotsPerSector /\ q[2] <= Width(q[1])
    BY DEF PlacesIn
  <2> QED BY <2>1, <2>2, Constants
<1> QED BY <1>2, <1>3, <1>4, <1>5, NamesHas

(* A cluster that is owned is held by an entry. *)
LEMMA SomebodyHas ==
  ASSUME NEW T, NEW F, NEW l, Good(T, F, l), NEW c \in Clusters, l.own[c] # Nobody
  PROVE  \E h \in Held(T, F, l) : c \in h.has
<1> DEFINE f == l.own[c]
<1>1. /\ f \in Cell /\ f # ROOT_CLUSTER /\ l.own[f] = f /\ f \in Clusters
      /\ f \notin l.dirs => f = c
  BY GoodHas, LayoutHas, CellsAre DEF Good, GoodChains
<1> HIDE DEF f
<1>2. /\ l.in[f] \in DirCells(l) /\ l.num[f] \in 1 .. Width(l.in[f])
      /\ T[l.in[f]][l.num[f]].first = f
      /\ T[l.in[f]][l.num[f]].is = IF f \in l.dirs THEN "dir" ELSE "file"
      /\ IsEntry(T[l.in[f]][l.num[f]])
  BY <1>1, FirstsHave
<1> DEFINE h == HoldAt(T, F, l, l.in[f], l.num[f])
<1>3. h \in Held(T, F, l)
  BY <1>2, HeldIs
<1>4. /\ f \in l.dirs => h.has = CellsOf(l, f)
      /\ f \notin l.dirs => h.has = {f} \ {FREE}
  BY <1>2, HasOwn
<1>5. c \in h.has
  BY <1>1, <1>4, CellsAre DEF CellsOf, f
<1> QED BY <1>3, <1>5

(* The invariant implies that the tree is sound. *)
LEMMA SoundAtAll == IInv => TreeIsSound
<1> SUFFICES ASSUME IInv, Running PROVE TreeIsSound
  BY DEF TreeIsSound
<1> DEFINE T == Slots(root, sub)
           F == View(fat)
<1>1. PICK l \in Layouts : Laid(l)
  BY DEF IInv
<1>2. Standing(l, root, sub, fat, held, leaked) /\ cur_dir_cluster \in l.dirs
  BY <1>1 DEF Laid
<1>3. /\ Good(T, F, l) /\ held = Held(T, F, l)
      /\ leaked \/ \A c \in Clusters : F[c] # FREE => l.own[c] # Nobody
  BY <1>2 DEF Standing
<1>4. DirsIn(held) = l.dirs
  BY <1>2, StandingHas
<1>5. SoundTree(held, sub, F)
  BY <1>3, SoundIs
<1>6. cur_dir_cluster \in DirsIn(held)
  BY <1>2, <1>4
<1>7. \A d \in DirsIn(held) : \A x, y \in SlotsOf(root, sub, F, d) :
         x[1] < y[1] /\ x[2].is = "unused" => y[2].is = "unused"
  BY <1>3, <1>4, NothingBehind
<1>8. leaked \/ \A c \in Clusters : F[c] # FREE => \E h \in held : c \in h.has
  BY <1>3, SomebodyHas
<1> QED BY <1>5, <1>6, <1>7, <1>8 DEF TreeIsSound

(* Whichever transfer fails, and however many calls have failed before:    *)
(* directories are whole, share no cluster with anything, name their       *)
(* entries once and hide none, and no cluster is lost but by a call that   *)
(* could not take it back.                                                 *)
THEOREM TreesAreSound == Spec => []TreeIsSound
BY SoundAtAll, Always, PTL

(* A search gives every name that stays where it is, and none twice.       *)
THEOREM NoNameIsMissed == Spec => []SearchesAreComplete
<1>1. IInv => SearchesAreComplete
  BY DEF IInv, SearchesAreComplete
<1> QED BY <1>1, Always, PTL

-----------------------------------------------------------------------------
(* Calls change the tree as a whole or not at all. *)

ItemOf(m) == [dir |-> m.dir, name |-> m.name, id |-> m.id]
Items(M) == {ItemOf(m) : m \in M}

(* The parts of an item of the tree of names. *)
LEMMA ItemIs ==
  ASSUME NEW m
  PROVE  ItemOf(m).dir = m.dir /\ ItemOf(m).name = m.name /\ ItemOf(m).id = m.id
BY DEF ItemOf

(* The tree of names is the marks without their places. *)
LEMMA TreeIs ==
  ASSUME NEW l, NEW rt, NEW sb, NEW ft, NEW hs, NEW lk, Standing(l, rt, sb, ft, hs, lk)
  PROVE  TreeOf(hs) = Items(Marks(Slots(rt, sb), l))
BY StandingHas DEF Items, ItemOf

(* Two marks are not one item. *)
LEMMA ItemsOnce ==
  ASSUME NEW M, NEW ds, GoodMarks(M, ds), NEW m \in M, NEW o \in M, ItemOf(m) = ItemOf(o)
  PROVE  m = o
<1>1. m.dir = o.dir /\ m.name = o.name
  BY ItemIs
<1> QED BY <1>1 DEF GoodMarks

(* The names and directories of the tree, told by marks. *)
LEMMA ItemsHave ==
  ASSUME NEW M, NEW ds, GoodMarks(M, ds), Tree = Items(M)
  PROVE  /\ NT!Directories = ds
         /\ \A d, n : Fresh(M, d, n) => n \notin NT!Taken(d)
<1>1. NT!Directories = {ROOT_CLUSTER} \cup {e.id : e \in Items(M)}
  BY DEF NT!Directories
<1>2. \A d : d \in ds <=> d \in {ROOT_CLUSTER} \cup {e.id : e \in Items(M)}
  BY ItemIs DEF GoodMarks, Items
<1>3. \A d, n : Fresh(M, d, n) => n \notin NT!Taken(d)
  BY ItemIs DEF Fresh, NT!Taken, Items
<1> QED BY <1>1, <1>2, <1>3

(* A file added is a step of NameTree. *)
LEMMA AddsFile ==
  ASSUME NEW M, NEW ds, GoodMarks(M, ds), NEW N, NEW es, NEW d \in ds, NEW n \in Names,
         AddedFile(M, ds, N, es, d, n), Tree = Items(M), Tree' = Items(N)
  PROVE  NT!Next
<1>1. PICK x \in Nat : N = M \cup {Mark(d, x, n, ROOT_CLUSTER)}
  BY DEF AddedFile
<1>2. ItemOf(Mark(d, x, n, ROOT_CLUSTER)) = NT!Item(d, n, ROOT_CLUSTER)
  BY MarkIs DEF ItemOf, NT!Item
<1>3. Items(N) = Items(M) \cup {NT!Item(d, n, ROOT_CLUSTER)}
  BY <1>1, <1>2 DEF Items
<1>4. n \notin NT!Taken(d) /\ d \in NT!Directories
  BY ItemsHave DEF AddedFile
<1>5. NT!AddFile(d, n)
  BY <1>3, <1>4 DEF NT!AddFile
<1> QED BY <1>4, <1>5 DEF NT!Next

(* A directory added is a step of NameTree. *)
LEMMA AddsDir ==
  ASSUME NEW M, NEW ds, GoodMarks(M, ds), NEW N, NEW es, NEW d \in ds, NEW n \in Names,
         AddedDir(M, ds, N, es, d, n), Tree = Items(M), Tree' = Items(N)
  PROVE  NT!Next
<1>1. PICK f \in Clusters, x \in Nat : f \notin ds /\ N = M \cup {Mark(d, x, n, f)}
  BY DEF AddedDir
<1>2. ItemOf(Mark(d, x, n, f)) = NT!Item(d, n, f)
  BY MarkIs DEF ItemOf, NT!Item
<1>3. Items(N) = Items(M) \cup {NT!Item(d, n, f)}
  BY <1>1, <1>2 DEF Items
<1>4. n \notin NT!Taken(d) /\ d \in NT!Directories /\ f \notin NT!Directories
  BY <1>1, ItemsHave DEF AddedDir
<1>5. NT!AddDir(d, n, f)
  BY <1>3, <1>4 DEF NT!AddDir
<1> QED BY <1>4, <1>5 DEF NT!Next

(* One mark less is one item less. *)
LEMMA ItemsLess ==
  ASSUME NEW M, NEW ds, GoodMarks(M, ds), NEW m \in M
  PROVE  Items(M \ {m}) = Items(M) \ {ItemOf(m)}
BY ItemsOnce DEF Items

(* A name removed is a step of NameTree. *)
LEMMA Removes ==
  ASSUME NEW M, NEW ds, GoodMarks(M, ds), NEW N, NEW es, NEW d, NEW n, NEW cur,
         Removed(M, ds, N, es, d, n, cur), Tree = Items(M), Tree' = Items(N)
  PROVE  NT!Next
<1>1. PICK m \in M : N = M \ {m} /\ (m.id # ROOT_CLUSTER => \A o \in M : o.dir # m.id)
  BY DEF Removed
<1> DEFINE e == ItemOf(m)
<1>2. Items(N) = Items(M) \ {e}
  BY <1>1, ItemsLess
<1>3. e \in Tree /\ e.id = m.id
  BY ItemIs DEF Items
<1>4. CASE m.id = ROOT_CLUSTER
  <2>1. NT!RemoveFile(e)
    BY <1>2, <1>3, <1>4 DEF NT!RemoveFile
  <2> QED BY <1>3, <2>1 DEF NT!Next
<1>5. CASE m.id # ROOT_CLUSTER
  <2>1. NT!Taken(e.id) = {}
    BY <1>1, <1>3, <1>5, ItemIs DEF NT!Taken, Items
  <2>2. NT!RemoveDir(e)
    BY <1>2, <1>3, <1>5, <2>1 DEF NT!RemoveDir
  <2> QED BY <1>3, <2>2 DEF NT!Next
<1> QED BY <1>4, <1>5

(* A name changed is a step of NameTree. *)
LEMMA Renames ==
  ASSUME NEW M, NEW ds, GoodMarks(M, ds), NEW N, NEW es, NEW d, NEW n, NEW k \in Names,
         Renamed(M, ds, N, es, d, n, k), Tree = Items(M), Tree' = Items(N)
  PROVE  NT!Next
<1>1. PICK m \in M : /\ m.dir = d /\ m.id = ROOT_CLUSTER
                     /\ N = (M \ {m}) \cup {Mark(d, m.index, k, ROOT_CLUSTER)}
  BY DEF Renamed
<1> DEFINE e == ItemOf(m)
<1>2. ItemOf(Mark(d, m.index, k, ROOT_CLUSTER)) = NT!Item(d, k, ROOT_CLUSTER)
  BY MarkIs DEF ItemOf, NT!Item
<1>3. Items(N) = Items(M \ {m}) \cup {NT!Item(d, k, ROOT_CLUSTER)}
  BY <1>1, <1>2 DEF Items
<1>4. Items(N) = (Items(M) \ {e}) \cup {NT!Item(d, k, ROOT_CLUSTER)}
  BY <1>3, ItemsLess
<1>5. e \in Tree /\ e.id = ROOT_CLUSTER /\ e.dir = d
  BY <1>1, ItemIs DEF Items
<1>6. k \notin NT!Taken(d)
  BY ItemsHave DEF Renamed
<1>7. NT!Rename(e, k)
  BY <1>4, <1>5, <1>6 DEF NT!Rename
<1> QED BY <1>5, <1>7 DEF NT!Next

(* What a call makes of the marks is a step of NameTree, or none. *)
LEMMA MovesMap ==
  ASSUME NEW d \in DirsIn(held), NEW n \in Names, NEW grows \in BOOLEAN, Moves(d, n, grows), Running'
  PROVE  Tree' = Tree \/ NT!Next
<1>0. PICK l \in Layouts : Laid(l) /\ \E k : Steps(l, k, d, n, grows)
  BY DEF Moves
<1>1. PICK k : Laid(l) /\ Steps(l, k, d, n, grows)
  BY <1>0
<1> DEFINE M == Marks(Slots(root, sub), l)
           N == Marks(Slots(root', sub'), k)
<1>2. Standing(l, root, sub, fat, held, leaked) /\ Standing(k, root', sub', fat', held', leaked')
  BY <1>1 DEF Laid, Steps
<1>3. Became(M, l.dirs, N, k.dirs, d, n, cur_dir_cluster, grows)
  BY <1>1 DEF Steps
<1>4. d \in l.dirs /\ GoodMarks(M, l.dirs)
  BY <1>2, StandingHas
<1>5. Tree = Items(M) /\ Tree' = Items(N)
  <2>1. TreeOf(held) = Items(M) /\ TreeOf(held') = Items(N)
    BY <1>2, TreeIs
  <2>2. Tree = TreeOf(held) /\ Tree' = TreeOf(held')
    BY DEF Tree, TreeOf
  <2> QED BY <2>1, <2>2
<1> HIDE DEF M, N
<1>6. CASE Same(M, l.dirs, N, k.dirs)
  BY <1>5, <1>6 DEF Same
<1>7. CASE AddedFile(M, l.dirs, N, k.dirs, d, n)
  BY <1>4, <1>5, <1>7, AddsFile
<1>8. CASE AddedDir(M, l.dirs, N, k.dirs, d, n)
  BY <1>4, <1>5, <1>8, AddsDir
<1>9. CASE Removed(M, l.dirs, N, k.dirs, d, n, cur_dir_cluster)
  BY <1>4, <1>5, <1>9, Removes
<1>10. ASSUME NEW m \in Names, Renamed(M, l.dirs, N, k.dirs, d, n, m) PROVE NT!Next
  BY <1>4, <1>5, <1>10, Renames
<1> QED BY <1>3, <1>6, <1>7, <1>8, <1>9, <1>10 DEF Became, Grew, Shrank

(* Every step is one of NameTree, or none. *)
LEMMA StepsMap == IInv /\ [Next]_vars => [Running' => NT!Next]_Tree
<1> SUFFICES ASSUME IInv, [Next]_vars, Running' PROVE NT!Next \/ Tree' = Tree
  OBVIOUS
<1>1. CASE Next
  <2>1. held' = held \/ \E d \in DirsIn(held), n \in Names, grows \in BOOLEAN : Moves(d, n, grows)
    BY <1>1, EveryStep
  <2>2. held' = held => Tree' = Tree
    BY DEF Tree
  <2> QED BY <2>1, <2>2, MovesMap
<1>2. CASE UNCHANGED vars
  BY <1>2 DEF vars, Tree
<1> QED BY <1>1, <1>2

(* Until the machine is off or a call has written upon a mistake, every    *)
(* call makes one change of the tree that the call promises, or none,      *)
(* whichever of its transfers fail.                                        *)
THEOREM CallsAreWhole == Spec => ImplementsNameTree
<1>1. Init => NT!Init
  BY DEF Init, NT!Init, Tree
<1>2. IInv /\ [Next]_vars => [Running' => NT!Next]_Tree
  BY StepsMap
<1> QED BY <1>1, <1>2, Always, PTL DEF Spec, ImplementsNameTree
=============================================================================
