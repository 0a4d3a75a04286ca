-------------------------- MODULE FatVolumeProofs --------------------------
(***************************************************************************)
(* What holds of files on a FAT volume for any number of clusters, files,  *)
(* handles and copies of the table.                                        *)
(*                                                                         *)
(* First what holds whichever transfers fail: the volume is as every call  *)
(* needs it (Sitting), the copies of the table agree, and what a commit    *)
(* has saved is on the disk.  Then what holds when none fails: the         *)
(* clusters in use have a layout (Resting), in which each belongs to one   *)
(* file and has one place in it, and every call keeps one: it is followed  *)
(* through the steps of a call, a volume v that is Fine(v, l) for a layout *)
(* l becoming one that is fine for another.                                *)
(***************************************************************************)
EXTENDS FatVolume, FatTableProofs

LEMMA Constants ==
  /\ kmax_cluster \in Nat /\ kmax_cluster > 2
  /\ EntriesPerSector \in Nat /\ EntriesPerSector > 0
  /\ knum_fats \in Nat /\ knum_fats > 0 /\ 1 \in 1 .. knum_fats
  /\ ClusterUnits \in Nat /\ ClusterUnits > 0 /\ ChainSlots \in Nat /\ ChainSlots > 0
  /\ MaxSize \in Nat /\ NONE \notin Files /\ Faults \subseteq Nat /\ 0 \notin Faults
BY FatAssumption, VolumeAssumption

-----------------------------------------------------------------------------
(* Volumes *)

(* A first cluster, or a cached one, is a cluster or none: never the mark  *)
(* of a chain's end.                                                       *)
Known == Clusters \cup {FREE}
KnownSlot == [first : Entry, index : Nat, cluster : Known]
KnownHandle == [file : Files \cup {NONE}, write : BOOLEAN, first : Known, size : Sizes, pos : Sizes,
                dirty : BOOLEAN, lastIndex : Nat, lastCluster : Known]
KnownEntry == [first : Known, size : Sizes]
SlotNumbers == 0 .. ChainSlots - 1
Slots == [SlotNumbers -> KnownSlot]
OpenHandles == [Handles -> KnownHandle]
Entries == [Files -> KnownEntry \cup {NONE}]
Vols == [fat : Tables, slots : Slots, hs : OpenHandles, root : Entries, disk : Entries]

WithFat(v, t) == [v EXCEPT !.fat = t]
WithSlots(v, s) == [v EXCEPT !.slots = s]
WithHandles(v, H) == [v EXCEPT !.hs = H]
WithRoot(v, R) == [v EXCEPT !.root = R]
WithDisk(v, D) == [v EXCEPT !.disk = D]

LEMMA VolHas ==
  ASSUME NEW v \in Vols
  PROVE  /\ v.fat \in Tables /\ v.slots \in Slots /\ v.hs \in OpenHandles
         /\ v.root \in Entries /\ v.disk \in Entries
         /\ \A h \in Handles : v.hs[h] \in KnownHandle
         /\ \A n \in SlotNumbers : v.slots[n] \in KnownSlot
         /\ DOMAIN v.slots = SlotNumbers
BY DEF Vols, Slots, OpenHandles

LEMMA WithFatIs ==
  ASSUME NEW v \in Vols, NEW t \in Tables, NEW u, u = WithFat(v, t)
  PROVE  /\ u \in Vols /\ u.fat = t
         /\ u.slots = v.slots /\ u.hs = v.hs /\ u.root = v.root /\ u.disk = v.disk
BY DEF Vols, WithFat

LEMMA WithSlotsIs ==
  ASSUME NEW v \in Vols, NEW s \in Slots, NEW u, u = WithSlots(v, s)
  PROVE  /\ u \in Vols /\ u.slots = s
         /\ u.fat = v.fat /\ u.hs = v.hs /\ u.root = v.root /\ u.disk = v.disk
BY DEF Vols, WithSlots

LEMMA WithHandlesIs ==
  ASSUME NEW v \in Vols, NEW H \in OpenHandles, NEW u, u = WithHandles(v, H)
  PROVE  /\ u \in Vols /\ u.hs = H
         /\ u.fat = v.fat /\ u.slots = v.slots /\ u.root = v.root /\ u.disk = v.disk
BY DEF Vols, WithHandles

LEMMA WithRootIs ==
  ASSUME NEW v \in Vols, NEW R \in Entries, NEW u, u = WithRoot(v, R)
  PROVE  /\ u \in Vols /\ u.root = R
         /\ u.fat = v.fat /\ u.slots = v.slots /\ u.hs = v.hs /\ u.disk = v.disk
BY DEF Vols, WithRoot

LEMMA WithDiskIs ==
  ASSUME NEW v \in Vols, NEW D \in Entries, NEW u, u = WithDisk(v, D)
  PROVE  /\ u \in Vols /\ u.disk = D
         /\ u.fat = v.fat /\ u.slots = v.slots /\ u.hs = v.hs /\ u.root = v.root
BY DEF Vols, WithDisk

LEMMA HandleHas ==
  ASSUME NEW o \in KnownHandle
  PROVE  /\ o.file \in Files \cup {NONE} /\ o.write \in BOOLEAN /\ o.first \in Known
         /\ o.size \in Sizes /\ o.pos \in Sizes /\ o.dirty \in BOOLEAN
         /\ o.lastIndex \in Nat /\ o.lastCluster \in Known
BY DEF KnownHandle

LEMMA KnownAre ==
  /\ Known \subseteq Entry /\ Clusters \subseteq Known /\ FREE \in Known
  /\ \A c \in Known : c \in Clusters \/ c = FREE
  /\ \A n \in Sizes : n \in Nat /\ n <= MaxSize
BY ClustersAre, Constants DEF Known, Sizes

(* One handle of the table changes. *)
LEMMA OneHandle ==
  ASSUME NEW H \in OpenHandles, NEW h \in Handles, NEW o \in KnownHandle
  PROVE  /\ [H EXCEPT ![h] = o] \in OpenHandles
         /\ [H EXCEPT ![h] = o][h] = o
         /\ \A g \in Handles : g # h => [H EXCEPT ![h] = o][g] = H[g]
BY DEF OpenHandles

-----------------------------------------------------------------------------
(* The chain-position cache *)

Located(o, i, c) == [o EXCEPT !.lastIndex = i, !.lastCluster = c]

LEMMA LocatedIs ==
  ASSUME NEW o \in KnownHandle, NEW i \in Nat, NEW c \in Known, NEW p, p = Located(o, i, c)
  PROVE  /\ p \in KnownHandle /\ p.lastIndex = i /\ p.lastCluster = c
         /\ p.file = o.file /\ p.write = o.write /\ p.first = o.first /\ p.size = o.size
         /\ p.pos = o.pos /\ p.dirty = o.dirty
BY DEF KnownHandle, Located

CachedAt(o, i, c) == [first |-> o.first, index |-> i, cluster |-> c]

(* What a lookup learns ends up with the handle, and in one shared slot    *)
(* when the handle has a chain.                                            *)
StoredAt(v, u, h, i, c) ==
    /\ u \in Vols /\ u.fat = v.fat /\ u.root = v.root /\ u.disk = v.disk
    /\ u.hs[h] = Located(v.hs[h], i, c)
    /\ \A g \in Handles : g # h => u.hs[g] = v.hs[g]
    /\ \A n \in SlotNumbers :
          \/ u.slots[n] = v.slots[n]
          \/ v.hs[h].first \in Clusters /\ u.slots[n] = CachedAt(v.hs[h], i, c)

LEMMA CacheStoreIs ==
  ASSUME NEW v \in Vols, NEW h \in Handles, NEW i \in Nat, NEW c \in Known
  PROVE  StoredAt(v, CacheStore(v, h, i, c), h, i, c)
<1>1. PICK o \in KnownHandle : o = v.hs[h]
  BY VolHas
<1>2. PICK p : p = Located(o, i, c)
  OBVIOUS
<1>3. PICK n \in SlotNumbers : n = i % ChainSlots
  BY Remainders, Constants DEF SlotNumbers
<1>4. PICK e : e = IF o.first \in Clusters THEN CachedAt(o, i, c) ELSE v.slots[n]
  OBVIOUS
<1>5. e \in KnownSlot
  BY <1>4, VolHas, HandleHas, KnownAre DEF KnownSlot, CachedAt
<1>6. p \in KnownHandle
  BY <1>2, LocatedIs
<1>7. PICK x : x = WithHandles(v, [v.hs EXCEPT ![h] = p])
  OBVIOUS
<1>8. PICK u : u = WithSlots(x, [v.slots EXCEPT ![n] = e])
  OBVIOUS
<1>9. /\ x \in Vols /\ x.hs = [v.hs EXCEPT ![h] = p]
      /\ x.fat = v.fat /\ x.slots = v.slots /\ x.root = v.root /\ x.disk = v.disk
  BY <1>6, <1>7, VolHas, OneHandle, WithHandlesIs
<1>10. [v.slots EXCEPT ![n] = e] \in Slots
  BY <1>5, VolHas DEF Slots
<1>11. /\ u \in Vols /\ u.slots = [v.slots EXCEPT ![n] = e]
       /\ u.fat = x.fat /\ u.hs = x.hs /\ u.root = x.root /\ u.disk = x.disk
  BY <1>8, <1>9, <1>10, WithSlotsIs
<1>12. CacheStore(v, h, i, c) = u
  <2>1. v = [fat |-> v.fat, slots |-> v.slots, hs |-> v.hs, root |-> v.root, disk |-> v.disk]
    BY DEF Vols
  <2>2. CacheStore(v, h, i, c) =
           [fat |-> v.fat, slots |-> [v.slots EXCEPT ![n] = e], hs |-> [v.hs EXCEPT ![h] = p],
            root |-> v.root, disk |-> v.disk]
    <3>0. PICK y : y = CacheStore(v, h, i, c)
      OBVIOUS
    <3>1. y = [fat |-> y.fat, slots |-> y.slots, hs |-> y.hs, root |-> y.root, disk |-> y.disk]
      BY <2>1, <3>0 DEF CacheStore
    <3>2. y.fat = v.fat /\ y.root = v.root /\ y.disk = v.disk
      BY <2>1, <3>0 DEF CacheStore
    <3>3. y.slots = [v.slots EXCEPT ![n] = e]
      BY <1>1, <1>3, <1>4, <2>1, <3>0 DEF CacheStore, CachedAt
    <3>4. y.hs = [v.hs EXCEPT ![h] = p]
      BY <1>1, <1>2, <2>1, <3>0, VolHas DEF CacheStore, Located, OpenHandles
    <3> QED BY <3>0, <3>1, <3>2, <3>3, <3>4
  <2>3. u = [fat |-> u.fat, slots |-> u.slots, hs |-> u.hs, root |-> u.root, disk |-> u.disk]
    BY <1>11 DEF Vols
  <2> QED BY <1>9, <1>11, <2>2, <2>3
<1>13. u.hs[h] = p /\ \A g \in Handles : g # h => u.hs[g] = v.hs[g]
  BY <1>6, <1>9, <1>11, VolHas, OneHandle
<1>14. ASSUME NEW k \in SlotNumbers
       PROVE  \/ u.slots[k] = v.slots[k]
              \/ v.hs[h].first \in Clusters /\ u.slots[k] = CachedAt(v.hs[h], i, c)
  <2>1. v.slots \in Slots
    BY VolHas
  <2>2. u.slots[k] = IF k = n THEN e ELSE v.slots[k]
    BY <1>11, <2>1 DEF Slots
  <2> QED BY <1>1, <1>4, <2>2
<1> QED BY <1>1, <1>2, <1>9, <1>11, <1>12, <1>13, <1>14 DEF StoredAt

(* A set of numbers up to n that is not empty has a largest one. *)
LEMMA LargestUpTo ==
  ASSUME NEW n \in Nat, NEW S \in SUBSET Nat, S # {}, \A s \in S : s <= n
  PROVE  \E m \in S : \A s \in S : s <= m
<1> DEFINE Has(k) == \E m \in S : m <= k /\ \A s \in S : s <= k => s <= m
           I == {k \in Nat : (\E s \in S : s <= k) => Has(k)}
<1>1. 0 \in I
  <2>1. ASSUME NEW s \in S, s <= 0 PROVE Has(0)
    <3>1. \A r \in S : r <= 0 => r <= s
      BY <2>1
    <3> QED BY <2>1, <3>1
  <2> QED BY <2>1
<1>2. ASSUME NEW k \in 0 + 1 .. n, k - 1 \in I PROVE k \in I
  <2>1. k \in Nat /\ k - 1 \in Nat
    BY <1>2
  <2>2. CASE k \in S
    <3>1. Has(k)
      BY <2>1, <2>2
    <3> QED BY <2>1, <3>1
  <2>3. CASE k \notin S
    <3>1. \A s \in S : s <= k <=> s <= k - 1
      BY <2>1, <2>3
    <3>2. (\E s \in S : s <= k - 1) => Has(k - 1)
      BY <1>2
    <3>3. Has(k - 1) => Has(k)
      <4>1. ASSUME NEW m \in S, m <= k - 1, \A s \in S : s <= k - 1 => s <= m PROVE Has(k)
        BY <2>1, <3>1, <4>1
      <4> QED BY <4>1
    <3>4. (\E s \in S : s <= k) => Has(k)
      BY <3>1, <3>2, <3>3
    <3> QED BY <2>1, <3>4
  <2> QED BY <2>2, <2>3
<1> HIDE DEF I
<1>3. n \in I
  <2>1. \A k \in 0 + 1 .. n : k - 1 \in I => k \in I
    BY <1>2
  <2>2. 0 \in Nat /\ n \in 0 .. n
    OBVIOUS
  <2>3. \A k \in 0 .. n : k \in I
    BY ONLY <1>1, <2>1, <2>2, n \in Nat, Upwards
  <2> QED BY <2>2, <2>3
<1>4. Has(n)
  BY <1>3 DEF I
<1> QED BY <1>4

OwnPosition(o) == [index |-> o.lastIndex, cluster |-> o.lastCluster]
SlotPosition(s) == [index |-> s.index, cluster |-> s.cluster]
Beginning(o) == [index |-> 0, cluster |-> o.first]

(* Where a walk may start: at the chain's first cluster, or at a cluster   *)
(* that the handle or a slot of its chain knows.                           *)
StartsAt(v, h, e) ==
    \/ e = Beginning(v.hs[h])
    \/ e = OwnPosition(v.hs[h]) /\ v.hs[h].lastCluster \in Clusters
    \/ \E n \in SlotNumbers :
          /\ e = SlotPosition(v.slots[n]) /\ v.slots[n].cluster \in Clusters
          /\ v.slots[n].first = v.hs[h].first

LEMMA CacheLookupIs ==
  ASSUME NEW v \in Vols, NEW h \in Handles, NEW i \in Nat
  PROVE  LET e == CacheLookup(v, h, i) IN
         /\ StartsAt(v, h, e) /\ e.index \in Nat /\ e.index <= i /\ e.cluster \in Known
         /\ v.hs[h].first \in Clusters => e.cluster \in Clusters
<1>1. PICK o \in KnownHandle : o = v.hs[h]
  BY VolHas
<1>2. PICK own : own = OwnPosition(o)
  OBVIOUS
<1>3. PICK shared : shared = {SlotPosition(s) : s \in {v.slots[n] : n \in {m \in DOMAIN v.slots :
                                  v.slots[m].first = o.first}}}
  OBVIOUS
<1>4. PICK known : known = {e \in {own} \cup shared : e.cluster # FREE /\ e.index <= i}
  OBVIOUS
<1>5. PICK nearest : nearest = {e \in known : \A p \in known : p.index <= e.index}
  OBVIOUS
<1>6. CacheLookup(v, h, i) = IF known = {} THEN Beginning(o)
                             ELSE IF own \in nearest THEN own
                             ELSE CHOOSE e \in nearest : TRUE
  BY <1>1, <1>2, <1>3, <1>4, <1>5 DEF CacheLookup, OwnPosition, SlotPosition, Beginning
<1>7. ASSUME NEW e \in known
      PROVE  /\ StartsAt(v, h, e) /\ e.index \in Nat /\ e.index <= i /\ e.cluster \in Clusters
  <2>1. e.cluster # FREE /\ e.index <= i
    BY <1>4
  <2>2. CASE e = own
    <3>1. e.index = o.lastIndex /\ e.cluster = o.lastCluster
      BY <1>2, <2>2 DEF OwnPosition
    <3>2. e.index \in Nat /\ e.cluster \in Clusters
      BY <2>1, <3>1, HandleHas, KnownAre
    <3> QED BY <1>1, <1>2, <2>1, <2>2, <3>1, <3>2 DEF StartsAt
  <2>3. CASE e \in shared
    <3>1. PICK n \in SlotNumbers : v.slots[n].first = o.first /\ e = SlotPosition(v.slots[n])
      BY <1>3, <2>3, VolHas
    <3>2. v.slots[n] \in KnownSlot
      BY VolHas
    <3>3. e.index = v.slots[n].index /\ e.cluster = v.slots[n].cluster
      BY <3>1 DEF SlotPosition
    <3>4. e.index \in Nat /\ e.cluster \in Clusters
      BY <2>1, <3>2, <3>3, KnownAre DEF KnownSlot
    <3> QED BY <1>1, <2>1, <3>1, <3>3, <3>4 DEF StartsAt
  <2> QED BY <1>4, <2>2, <2>3
<1>8. known # {} => nearest # {}
  <2> SUFFICES ASSUME known # {} PROVE \E e \in known : \A p \in known : p.index <= e.index
    BY <1>5
  <2> DEFINE S == {e.index : e \in known}
  <2>1. S \in SUBSET Nat /\ S # {} /\ \A s \in S : s <= i
    BY <1>7
  <2> HIDE DEF S
  <2>2. PICK m \in S : \A s \in S : s <= m
    BY <2>1, LargestUpTo
  <2> QED BY <2>2 DEF S
<1>9. CASE known = {}
  <2>1. CacheLookup(v, h, i) = Beginning(o)
    BY <1>6, <1>9
  <2>2. /\ Beginning(o).index = 0 /\ Beginning(o).cluster = o.first
    BY DEF Beginning
  <2> QED BY <1>1, <2>1, <2>2, HandleHas, KnownAre DEF StartsAt
<1>10. CASE known # {}
  <2>1. CacheLookup(v, h, i) \in known
    BY <1>5, <1>6, <1>8, <1>10
  <2> QED BY <1>7, <2>1, KnownAre
<1> QED BY <1>9, <1>10

(* Nothing is known of any position. *)
Unknown(o) == Located(o, 0, FREE)
Forgotten(v, u) ==
    /\ u \in Vols /\ u.root = v.root /\ u.disk = v.disk
    /\ \A h \in Handles : u.hs[h] = Unknown(v.hs[h])
    /\ \A n \in SlotNumbers : u.slots[n] = EmptySlot

LEMMA InvalidateAllIs ==
  ASSUME NEW v \in Vols
  PROVE  Forgotten(v, InvalidateAll(v)) /\ InvalidateAll(v).fat = v.fat
<1>1. PICK H : H = [h \in Handles |-> Unknown(v.hs[h])]
  OBVIOUS
<1>2. PICK S : S = [n \in SlotNumbers |-> EmptySlot]
  OBVIOUS
<1>3. H \in OpenHandles
  <2>1. ASSUME NEW h \in Handles PROVE Unknown(v.hs[h]) \in KnownHandle
    BY VolHas, LocatedIs, KnownAre DEF Unknown
  <2> QED BY <1>1, <2>1 DEF OpenHandles
<1>4. S \in Slots
  BY <1>2, KnownAre DEF Slots, EmptySlot, KnownSlot
<1>5. PICK x : x = WithHandles(v, H)
  OBVIOUS
<1>6. PICK u : u = WithSlots(x, S)
  OBVIOUS
<1>7. /\ x \in Vols /\ x.hs = H
      /\ x.fat = v.fat /\ x.slots = v.slots /\ x.root = v.root /\ x.disk = v.disk
  BY <1>3, <1>5, WithHandlesIs
<1>8. /\ u \in Vols /\ u.slots = S
      /\ u.fat = x.fat /\ u.hs = x.hs /\ u.root = x.root /\ u.disk = x.disk
  BY <1>4, <1>6, <1>7, WithSlotsIs
<1>9. InvalidateAll(v) = u
  <2>1. InvalidateAll(v) = [v EXCEPT !.slots = S, !.hs = H]
    BY <1>1, <1>2, VolHas DEF InvalidateAll, Unknown, Located
  <2>2. v = [fat |-> v.fat, slots |-> v.slots, hs |-> v.hs, root |-> v.root, disk |-> v.disk]
    BY DEF Vols
  <2> QED BY <1>5, <1>6, <2>1, <2>2 DEF WithHandles, WithSlots
<1> QED BY <1>1, <1>2, <1>7, <1>8, <1>9 DEF Forgotten

LEMMA FreeIs ==
  ASSUME NEW v \in Vols, NEW c \in Entry
  PROVE  Forgotten(v, Free(v, c)) /\ Free(v, c).fat = FreeChain(v.fat, c)
<1>1. PICK x : x = InvalidateAll(v)
  OBVIOUS
<1>2. Forgotten(v, x) /\ x.fat = v.fat /\ x \in Vols
  BY <1>1, InvalidateAllIs DEF Forgotten
<1>3. FreeChain(v.fat, c) \in Tables
  BY VolHas, FreeChainTypes DEF SameBounds
<1>4. PICK u : u = WithFat(x, FreeChain(v.fat, c))
  OBVIOUS
<1>5. Free(v, c) = u
  BY <1>1, <1>2, <1>4 DEF Free, WithFat
<1>6. /\ u \in Vols /\ u.fat = FreeChain(v.fat, c)
      /\ u.slots = x.slots /\ u.hs = x.hs /\ u.root = x.root /\ u.disk = x.disk
  BY <1>2, <1>3, <1>4, WithFatIs
<1> QED BY <1>2, <1>5, <1>6 DEF Forgotten

-----------------------------------------------------------------------------
(* The steps of a write *)

Answers == {"more", "error", "full"}
Shorts == {"error", "full"}
Writes == [v : Vols, c : Entry, left : Nat, a : Answers]
Writing(v, c, left, a) == [v |-> v, c |-> c, left |-> left, a |-> a]

LEMMA WriteHas ==
  ASSUME NEW w \in Writes
  PROVE  /\ w.v \in Vols /\ w.c \in Entry /\ w.left \in Nat /\ w.a \in Answers
         /\ w = Writing(w.v, w.c, w.left, w.a)
BY DEF Writes, Writing

LEMMA WritingIs ==
  ASSUME NEW v \in Vols, NEW c \in Entry, NEW left \in Nat, NEW a \in Answers,
         NEW u, u = Writing(v, c, left, a)
  PROVE  u \in Writes /\ u.v = v /\ u.c = c /\ u.left = left /\ u.a = a
BY DEF Writes, Writing

(* Only the table differs. *)
OnlyTable(v, u) ==
    /\ u \in Vols /\ u.fat.fails = v.fat.fails
    /\ u.slots = v.slots /\ u.hs = v.hs /\ u.root = v.root /\ u.disk = v.disk

(* What the table says does not differ. *)
SameView(v, u) == View(u.fat) = View(v.fat) /\ u.fat.ioerr = v.fat.ioerr

LEMMA TableAlone ==
  ASSUME NEW v \in Vols, NEW t \in Tables, t.fails = v.fat.fails
  PROVE  OnlyTable(v, WithFat(v, t)) /\ WithFat(v, t).fat = t
BY WithFatIs DEF OnlyTable

LEMMA DataIoIs ==
  ASSUME NEW w \in Writes
  PROVE  LET u == DataIo(w) IN
         /\ u \in Writes /\ u.c = w.c /\ u.left = w.left /\ OnlyTable(w.v, u.v) /\ SameView(w.v, u.v)
         /\ u.a \in {w.a, "error"}
         /\ w.v.fat.fails = {} => u.a = w.a
<1>1. PICK t : t = Io(w.v.fat)
  OBVIOUS
<1>2. w.v \in Vols /\ w.v.fat \in Tables
  BY WriteHas, VolHas
<1>3. /\ t \in Tables /\ View(t) = View(w.v.fat) /\ t.ioerr = w.v.fat.ioerr
      /\ t.fails = w.v.fat.fails /\ (w.v.fat.fails = {} => ~t.cf)
  BY <1>1, <1>2, IoIs
<1>4. PICK x : x = WithFat(w.v, t)
  OBVIOUS
<1>5. x \in Vols /\ OnlyTable(w.v, x) /\ x.fat = t
  BY <1>2, <1>3, <1>4, TableAlone DEF OnlyTable
<1>6. PICK a \in Answers : a = IF t.cf THEN "error" ELSE w.a
  BY WriteHas DEF Answers
<1>7. PICK u : u = Writing(x, w.c, w.left, a)
  OBVIOUS
<1>8. u \in Writes /\ u.v = x /\ u.c = w.c /\ u.left = w.left /\ u.a = a
  BY <1>5, <1>6, <1>7, WriteHas, WritingIs
<1>9. DataIo(w) = u
  <2>1. w = Writing(w.v, w.c, w.left, w.a)
    BY WriteHas
  <2>2. DataIo(w) = [w EXCEPT !.v.fat = t, !.a = a]
    BY <1>1, <1>6 DEF DataIo
  <2>3. PICK y : y = [w EXCEPT !.v.fat = t, !.a = a]
    OBVIOUS
  <2>4. y = Writing(x, w.c, w.left, a)
    BY <1>4, <2>1, <2>3 DEF Writing, WithFat
  <2> QED BY <1>7, <2>2, <2>3, <2>4
<1> QED BY <1>3, <1>5, <1>6, <1>8, <1>9 DEF SameView

(* A file's first cluster. *)
Started(o, c) == [o EXCEPT !.first = c, !.dirty = TRUE]

LEMMA StartedIs ==
  ASSUME NEW o \in KnownHandle, NEW c \in Known, NEW p, p = Started(o, c)
  PROVE  /\ p \in KnownHandle /\ p.first = c /\ p.dirty
         /\ p.file = o.file /\ p.write = o.write /\ p.size = o.size
         /\ p.pos = o.pos /\ p.lastIndex = o.lastIndex /\ p.lastCluster = o.lastCluster
BY DEF KnownHandle, Started

(* What a write does before it stores: the handle keeps its file, size and *)
(* position, and a chain that it has.                                      *)
Keeping(o, p) ==
    /\ p.file = o.file /\ p.write = o.write /\ p.size = o.size /\ p.pos = o.pos
    /\ o.first \in Clusters => p.first = o.first
Growing(w, u, h) ==
    /\ u \in Writes /\ u.left = w.left /\ u.v.fat.fails = w.v.fat.fails
    /\ u.v.root = w.v.root /\ u.v.disk = w.v.disk
    /\ Keeping(w.v.hs[h], u.v.hs[h])
    /\ \A g \in Handles : g # h => u.v.hs[g] = w.v.hs[g]

LEMMA GrowingMore ==
  ASSUME NEW h, NEW w, NEW u, NEW x, Growing(w, u, h), Growing(u, x, h)
  PROVE  Growing(w, x, h)
BY DEF Growing, Keeping

LEMMA GrowingNone == ASSUME NEW w \in Writes, NEW h PROVE Growing(w, w, h)
BY DEF Growing, Keeping

(* What FirstCluster does when it finds one: the table t is the one that   *)
(* the allocation leaves.                                                  *)
Begins(w, u, h, t) ==
    \E x : /\ x \in Vols /\ x.fat = t /\ x.slots = w.v.slots /\ x.root = w.v.root /\ x.disk = w.v.disk
           /\ x.hs[h] = Started(w.v.hs[h], t.ax)
           /\ \A g \in Handles : g # h => x.hs[g] = w.v.hs[g]
           /\ StoredAt(x, u.v, h, 0, t.ax)

LEMMA FirstClusterIs ==
  ASSUME NEW w \in Writes, NEW h \in Handles, NEW short \in Shorts, w.a = "more",
         w.v.hs[h].first = FREE
  PROVE  LET u == FirstCluster(w, h, short)
             t == FatAlloc(w.v.fat)
         IN  /\ Growing(w, u, h)
             /\ u.a = "more" => u.v.hs[h].first \in Clusters
             /\ IF t.cf THEN u.a = short /\ u.v = WithFat(w.v, t)
                ELSE u.a = "more" /\ Begins(w, u, h, t)
<1>1. PICK t : t = FatAlloc(w.v.fat)
  OBVIOUS
<1>2. PICK u : u = FirstCluster(w, h, short)
  OBVIOUS
<1>3. w.v \in Vols /\ w.v.fat \in Tables /\ w.v.hs[h] \in KnownHandle /\ w = Writing(w.v, w.c, w.left, w.a)
  BY WriteHas, VolHas
<1>4. t \in Tables /\ t.fails = w.v.fat.fails /\ (~t.cf => t.ax \in Clusters)
  BY <1>1, <1>3, FatAllocIs DEF Allocates
<1>5. PICK y : y = WithFat(w.v, t)
  OBVIOUS
<1>6. y \in Vols /\ OnlyTable(w.v, y) /\ y.fat = t
  BY <1>3, <1>4, <1>5, TableAlone DEF OnlyTable
<1>7. CASE t.cf
  <2>1. short \in Answers /\ short # "more"
    BY DEF Answers, Shorts
  <2>2. u = Writing(y, w.c, w.left, short)
    <3>1. u = [w EXCEPT !.v.fat = t, !.a = short]
      BY <1>1, <1>2, <1>7 DEF FirstCluster
    <3> QED BY <1>3, <1>5, <3>1 DEF Writing, WithFat
  <2>3. u \in Writes /\ u.v = y /\ u.left = w.left /\ u.a = short
    BY <1>6, <2>1, <2>2, WriteHas, WritingIs
  <2>4. Growing(w, u, h)
    BY <1>3, <1>6, <2>3 DEF Growing, Keeping, OnlyTable
  <2> QED BY <1>1, <1>2, <1>5, <1>7, <2>1, <2>3, <2>4
<1>8. CASE ~t.cf
  <2>1. t.ax \in Known /\ t.ax \in Clusters
    BY <1>4, <1>8, KnownAre
  <2>2. PICK p \in KnownHandle : p = Started(w.v.hs[h], t.ax)
    BY <1>3, <2>1, StartedIs
  <2>3. PICK x : x = WithHandles(y, [y.hs EXCEPT ![h] = p])
    OBVIOUS
  <2>4. /\ x \in Vols /\ x.hs[h] = p /\ \A g \in Handles : g # h => x.hs[g] = y.hs[g]
        /\ x.fat = y.fat /\ x.slots = y.slots /\ x.root = y.root /\ x.disk = y.disk
    <3>1. y.hs \in OpenHandles
      BY <1>6, VolHas
    <3>2. PICK H \in OpenHandles : H = [y.hs EXCEPT ![h] = p]
      BY <3>1, OneHandle
    <3>3. H[h] = p /\ \A g \in Handles : g # h => H[g] = y.hs[g]
      BY <3>1, <3>2, OneHandle
    <3>4. x = WithHandles(y, H)
      BY <2>3, <3>2
    <3>5. /\ x \in Vols /\ x.hs = H
          /\ x.fat = y.fat /\ x.slots = y.slots /\ x.root = y.root /\ x.disk = y.disk
      BY <1>6, <3>2, <3>4, WithHandlesIs
    <3> QED BY <3>3, <3>5
  <2>5. PICK z : z = CacheStore(x, h, 0, t.ax)
    OBVIOUS
  <2>6. StoredAt(x, z, h, 0, t.ax) /\ z \in Vols
    BY <2>1, <2>4, <2>5, CacheStoreIs DEF StoredAt
  <2>7. u = Writing(z, w.c, w.left, "more")
    <3>1. [[w.v EXCEPT !.fat = t] EXCEPT !.hs[h].first = t.ax, !.hs[h].dirty = TRUE] = x
      <4>1. [w.v EXCEPT !.fat = t] = y
        BY <1>5 DEF WithFat
      <4>2. [y EXCEPT !.hs[h].first = t.ax, !.hs[h].dirty = TRUE] = [y EXCEPT !.hs = [y.hs EXCEPT ![h] = p]]
        <5>1. y = [fat |-> y.fat, slots |-> y.slots, hs |-> y.hs, root |-> y.root, disk |-> y.disk]
          BY <1>6 DEF Vols
        <5>2. y.hs[h] = w.v.hs[h]
          BY <1>6 DEF OnlyTable
        <5>3. p = [y.hs[h] EXCEPT !.first = t.ax, !.dirty = TRUE]
          BY <2>2, <5>2 DEF Started
        <5>4. y.hs \in OpenHandles
          BY <1>6, VolHas
        <5> QED BY <5>1, <5>3, <5>4 DEF OpenHandles
      <4> QED BY <2>3, <4>1, <4>2 DEF WithHandles
    <3>2. u = [w EXCEPT !.v = z]
      BY <1>1, <1>2, <1>8, <2>5, <3>1 DEF FirstCluster
    <3> QED BY <1>3, <3>2 DEF Writing
  <2>8. u \in Writes /\ u.v = z /\ u.left = w.left /\ u.a = "more"
    BY <2>6, <2>7, WriteHas, WritingIs DEF Answers
  <2>9. z.hs[h] = Located(p, 0, t.ax)
    BY <2>4, <2>6 DEF StoredAt
  <2>10. /\ z.hs[h].file = w.v.hs[h].file /\ z.hs[h].write = w.v.hs[h].write
         /\ z.hs[h].size = w.v.hs[h].size /\ z.hs[h].pos = w.v.hs[h].pos /\ z.hs[h].first = t.ax
    <3>1. /\ z.hs[h].file = p.file /\ z.hs[h].write = p.write /\ z.hs[h].first = p.first
          /\ z.hs[h].size = p.size /\ z.hs[h].pos = p.pos
      BY <2>1, <2>9, LocatedIs
    <3>2. /\ p.file = w.v.hs[h].file /\ p.write = w.v.hs[h].write /\ p.first = t.ax
          /\ p.size = w.v.hs[h].size /\ p.pos = w.v.hs[h].pos
      <4>1. PICK o \in KnownHandle : o = w.v.hs[h]
        BY <1>3
      <4>2. p = Started(o, t.ax)
        BY <2>2, <4>1
      <4>3. /\ p.file = o.file /\ p.write = o.write /\ p.first = t.ax
            /\ p.size = o.size /\ p.pos = o.pos
        BY <2>1, <4>2, StartedIs
      <4> QED BY <4>1, <4>3
    <3> QED BY <3>1, <3>2
  <2>11. Growing(w, u, h)
    <3>1. /\ z.fat = t /\ z.root = w.v.root /\ z.disk = w.v.disk
          /\ \A g \in Handles : g # h => z.hs[g] = w.v.hs[g]
      BY <1>6, <2>4, <2>6 DEF StoredAt, OnlyTable
    <3>2. w.v.hs[h].first \notin Clusters
      BY ClustersAre
    <3>3. Keeping(w.v.hs[h], z.hs[h])
      BY <2>10, <3>2 DEF Keeping
    <3> QED BY <1>4, <2>8, <3>1, <3>3 DEF Growing
  <2>12. Begins(w, u, h, t)
    <3>1. x.fat = t /\ x.slots = w.v.slots /\ x.root = w.v.root /\ x.disk = w.v.disk
      BY <1>6, <2>4 DEF OnlyTable
    <3>2. x.hs[h] = Started(w.v.hs[h], t.ax) /\ \A g \in Handles : g # h => x.hs[g] = w.v.hs[g]
      BY <1>6, <2>2, <2>4 DEF OnlyTable
    <3> QED BY <2>4, <2>6, <2>8, <3>1, <3>2 DEF Begins
  <2> QED BY <1>1, <1>2, <1>8, <2>1, <2>8, <2>10, <2>11, <2>12
<1>9. t.cf \in BOOLEAN
  BY <1>4, TableHas
<1> QED BY <1>7, <1>8, <1>9

(* A write goes on with another table, cluster and answer. *)
LEMMA MovedIs ==
  ASSUME NEW p \in Writes, NEW t \in Tables, t.fails = p.v.fat.fails, NEW c \in Entry,
         NEW a \in Answers, NEW q, q = Writing(WithFat(p.v, t), c, p.left, a)
  PROVE  /\ q \in Writes /\ q.v.fat = t /\ OnlyTable(p.v, q.v)
         /\ q.c = c /\ q.left = p.left /\ q.a = a
<1>1. p.v \in Vols /\ p.left \in Nat
  BY WriteHas
<1>2. PICK x : x = WithFat(p.v, t)
  OBVIOUS
<1>3. OnlyTable(p.v, x) /\ x.fat = t /\ x \in Vols
  BY <1>1, <1>2, TableAlone DEF OnlyTable
<1> QED BY <1>1, <1>2, <1>3, WritingIs

GoesTo(p, t, c) == [p EXCEPT !.v.fat = t, !.c = c]
StopsWith(p, t, a) == [p EXCEPT !.v.fat = t, !.a = a]

LEMMA GoesToIs ==
  ASSUME NEW p \in Writes, NEW t, NEW c
  PROVE  GoesTo(p, t, c) = Writing(WithFat(p.v, t), c, p.left, p.a)
<1>1. p = Writing(p.v, p.c, p.left, p.a)
  BY WriteHas
<1>2. PICK y : y = [p EXCEPT !.v.fat = t, !.c = c]
  OBVIOUS
<1>3. y = Writing(WithFat(p.v, t), c, p.left, p.a)
  BY <1>1, <1>2 DEF Writing, WithFat
<1> QED BY <1>2, <1>3 DEF GoesTo

LEMMA StopsWithIs ==
  ASSUME NEW p \in Writes, NEW t, NEW a
  PROVE  StopsWith(p, t, a) = Writing(WithFat(p.v, t), p.c, p.left, a)
<1>1. p = Writing(p.v, p.c, p.left, p.a)
  BY WriteHas
<1>2. PICK y : y = [p EXCEPT !.v.fat = t, !.a = a]
  OBVIOUS
<1>3. y = Writing(WithFat(p.v, t), p.c, p.left, a)
  BY <1>1, <1>2 DEF Writing, WithFat
<1> QED BY <1>2, <1>3 DEF StopsWith

LEMMA NowAt ==
  ASSUME NEW p \in Writes, NEW c
  PROVE  [p EXCEPT !.c = c] = Writing(p.v, c, p.left, p.a)
<1>1. p = Writing(p.v, p.c, p.left, p.a)
  BY WriteHas
<1> QED BY <1>1 DEF Writing

LEMMA NowOf ==
  ASSUME NEW p \in Writes, NEW v
  PROVE  [p EXCEPT !.v = v] = Writing(v, p.c, p.left, p.a)
<1>1. p = Writing(p.v, p.c, p.left, p.a)
  BY WriteHas
<1> QED BY <1>1 DEF Writing

GrownBy(p, t, short) ==
    IF t.cf THEN StopsWith(p, t, short) ELSE GoesTo(p, FatSet(t, p.c, t.ax), t.ax)
FollowedBy(p, t, short) ==
    IF t.ax \in Clusters THEN GoesTo(p, t, t.ax)
    ELSE IF t.ax = FREE THEN StopsWith(p, t, short)
    ELSE GrownBy(p, FatAlloc(t), short)
GetNext(p, short) == IF p.a = "more" THEN FollowedBy(p, FatNext(p.v.fat, p.c), short) ELSE p

(* A turn of the walk: on to the next cluster, or to one that is added at  *)
(* the end of the chain, or the volume is full.                            *)
Reaches(p, q, short) ==
    LET V == View(p.v.fat)
        W == View(q.v.fat)
    IN  /\ q.v.fat.ioerr = p.v.fat.ioerr
        /\ V[p.c] \in Clusters => q.a = "more" /\ q.c = V[p.c] /\ W = V
        /\ V[p.c] = EOC =>
              \/ q.a = short /\ W = V /\ \A c \in Clusters : V[c] # FREE
              \/ /\ q.a = "more" /\ q.c \in Clusters /\ V[q.c] = FREE
                 /\ W = [[V EXCEPT ![q.c] = EOC] EXCEPT ![p.c] = q.c]
Walking(p, q) ==
    /\ q \in Writes /\ q.left = p.left /\ OnlyTable(p.v, q.v)
    /\ q.a = "more" => q.c \in Clusters

LEMMA WalkingMore ==
  ASSUME NEW p, NEW q, NEW r, Walking(p, q), Walking(q, r)
  PROVE  Walking(p, r)
BY DEF Walking, OnlyTable

LEMMA GetNextIs ==
  ASSUME NEW p \in Writes, p.a = "more", p.c \in Clusters, NEW short \in Shorts
  PROVE  LET q == GetNext(p, short) IN
         /\ Walking(p, q) /\ q.a \in {"more", short}
         /\ p.v.fat.fails = {} => Reaches(p, q, short)
<1>1. PICK d \in Clusters : d = p.c
  OBVIOUS
<1>2. PICK f \in Tables : f = p.v.fat
  BY WriteHas, VolHas
<1>3. PICK t : t = FatNext(f, d)
  OBVIOUS
<1>4. PICK q : q = GetNext(p, short)
  OBVIOUS
<1>5. /\ Kept(f, t) /\ t \in Tables /\ t.fails = f.fails /\ t.ax \in Entry
      /\ f.fails = {} => t.ax = View(f)[d]
  BY <1>3, FatNextIs DEF Kept
<1>6. q = FollowedBy(p, t, short)
  BY <1>1, <1>2, <1>3, <1>4 DEF GetNext
<1>7. short \in Answers /\ short # "more" /\ "more" \in Answers /\ p.c \in Entry
  BY WriteHas DEF Answers, Shorts
<1>8. CASE t.ax \in Clusters
  <2>1. q = Writing(WithFat(p.v, t), t.ax, p.left, "more")
    BY <1>6, <1>8, GoesToIs DEF FollowedBy
  <2>2. /\ q \in Writes /\ q.v.fat = t /\ OnlyTable(p.v, q.v)
        /\ q.c = t.ax /\ q.left = p.left /\ q.a = "more"
    BY <1>2, <1>5, <1>7, <2>1, MovedIs
  <2>3. Walking(p, q)
    BY <1>8, <2>2 DEF Walking
  <2>4. f.fails = {} => Reaches(p, q, short)
    BY <1>1, <1>2, <1>5, <1>8, <2>2, ClustersAre DEF Reaches, Kept
  <2> QED BY <1>2, <1>4, <2>2, <2>3, <2>4
<1>9. CASE t.ax = FREE
  <2>1. q = Writing(WithFat(p.v, t), p.c, p.left, short)
    BY <1>6, <1>9, StopsWithIs, ClustersAre DEF FollowedBy
  <2>2. /\ q \in Writes /\ q.v.fat = t /\ OnlyTable(p.v, q.v)
        /\ q.left = p.left /\ q.a = short
    BY <1>2, <1>5, <1>7, <2>1, MovedIs
  <2>3. Walking(p, q)
    BY <1>7, <2>2 DEF Walking
  <2>4. f.fails = {} => Reaches(p, q, short)
    BY <1>1, <1>2, <1>5, <1>9, <2>2, ClustersAre DEF Reaches, Kept
  <2> QED BY <1>2, <1>4, <2>2, <2>3, <2>4
<1>10. CASE t.ax = EOC
  <2>1. PICK u : u = FatAlloc(t)
    OBVIOUS
  <2>2. Allocates(t, u) /\ u \in Tables /\ u.fails = f.fails
    BY <1>5, <2>1, FatAllocIs DEF Allocates
  <2>3. q = GrownBy(p, u, short)
    BY <1>6, <1>10, <2>1, ClustersAre DEF FollowedBy
  <2>4. CASE u.cf
    <3>1. q = Writing(WithFat(p.v, u), p.c, p.left, short)
      BY <2>3, <2>4, StopsWithIs DEF GrownBy
    <3>2. /\ q \in Writes /\ q.v.fat = u /\ OnlyTable(p.v, q.v)
          /\ q.left = p.left /\ q.a = short
      BY <1>2, <1>7, <2>2, <3>1, MovedIs
    <3>3. Walking(p, q)
      BY <1>7, <3>2 DEF Walking
    <3>4. f.fails = {} => Reaches(p, q, short)
      <4> SUFFICES ASSUME f.fails = {} PROVE Reaches(p, q, short)
        OBVIOUS
      <4>1. u.ioerr = t.ioerr /\ View(u) = View(t) /\ \A c \in Clusters : View(t)[c] # FREE
        BY <1>5, <2>2, <2>4 DEF Allocates
      <4>2. t.ioerr = f.ioerr /\ View(t) = View(f) /\ View(f)[d] = EOC
        BY <1>5, <1>10 DEF Kept
      <4> QED BY <1>1, <1>2, <3>2, <4>1, <4>2, ClustersAre DEF Reaches
    <3> QED BY <1>2, <1>4, <3>2, <3>3, <3>4
  <2>5. CASE ~u.cf
    <3>1. u.ax \in Clusters /\ u.ax \in Entry
      BY <2>2, <2>5, ClustersAre DEF Allocates
    <3>2. PICK y : y = FatSet(u, d, u.ax)
      OBVIOUS
    <3>3. Stored(u, y, d, u.ax) /\ y \in Tables /\ y.fails = f.fails
      <4>1. Stored(u, y, d, u.ax)
        BY <2>2, <3>1, <3>2, FatSetIs
      <4> QED BY <2>2, <4>1 DEF Stored
    <3>4. q = Writing(WithFat(p.v, y), u.ax, p.left, "more")
      BY <1>1, <2>3, <2>5, <3>2, GoesToIs DEF GrownBy
    <3>5. /\ q \in Writes /\ q.v.fat = y /\ OnlyTable(p.v, q.v)
          /\ q.c = u.ax /\ q.left = p.left /\ q.a = "more"
      BY <1>2, <1>7, <3>1, <3>3, <3>4, MovedIs
    <3>6. Walking(p, q)
      BY <3>1, <3>5 DEF Walking
    <3>7. f.fails = {} => Reaches(p, q, short)
      <4> SUFFICES ASSUME f.fails = {} PROVE Reaches(p, q, short)
        OBVIOUS
      <4>1. /\ u.ioerr = t.ioerr /\ View(t)[u.ax] = FREE /\ View(u) = [View(t) EXCEPT ![u.ax] = EOC]
        BY <1>5, <2>2, <2>5 DEF Allocates
      <4>2. t.ioerr = f.ioerr /\ View(t) = View(f) /\ View(f)[d] = EOC
        BY <1>5, <1>10 DEF Kept
      <4>3. y.ioerr = u.ioerr /\ View(y) = [View(u) EXCEPT ![d] = u.ax]
        BY <2>2, <3>3 DEF Stored
      <4> QED BY <1>1, <1>2, <3>1, <3>5, <4>1, <4>2, <4>3, ClustersAre DEF Reaches
    <3> QED BY <1>2, <1>4, <3>5, <3>6, <3>7
  <2>6. u.cf \in BOOLEAN
    BY <2>2 DEF Allocates
  <2> QED BY <2>4, <2>5, <2>6
<1> QED BY <1>5, <1>8, <1>9, <1>10, ClustersAre

(* The whole walk, from a start s. *)
Arrived(w, s) == [w EXCEPT !.c = s.cluster]
WalkTurns(g, w, i, short, s) ==
    g = [j \in s.index .. i |-> IF j = s.index THEN Arrived(w, s) ELSE GetNext(g[j - 1], short)]


LEMMA ArrivedIs ==
  ASSUME NEW w \in Writes, NEW s, s.cluster \in Clusters
  PROVE  LET p == Arrived(w, s) IN
         Walking(w, p) /\ p.v = w.v /\ p.c = s.cluster /\ p.a = w.a
<1>1. PICK p : p = Arrived(w, s)
  OBVIOUS
<1>2. p = Writing(w.v, s.cluster, w.left, w.a)
  BY <1>1, NowAt DEF Arrived
<1>3. p \in Writes /\ p.v = w.v /\ p.c = s.cluster /\ p.left = w.left /\ p.a = w.a
  BY <1>2, WriteHas, WritingIs, ClustersAre
<1> QED BY <1>1, <1>3, WriteHas DEF Walking, OnlyTable

LEMMA WalkNextIs ==
  ASSUME NEW w \in Writes, NEW p, Walking(w, p), NEW short \in Shorts
  PROVE  Walking(w, GetNext(p, short))
<1>1. CASE p.a = "more"
  <2>1. p \in Writes /\ p.c \in Clusters
    BY <1>1 DEF Walking
  <2>2. Walking(p, GetNext(p, short))
    BY <1>1, <2>1, GetNextIs
  <2> QED BY <2>2, WalkingMore
<1>2. CASE p.a # "more"
  BY <1>2 DEF GetNext
<1> QED BY <1>1, <1>2

LEMMA WalkTypes ==
  ASSUME NEW w \in Writes, NEW i \in Nat, NEW short \in Shorts, NEW s, s.index \in Nat, s.index <= i,
         s.cluster \in Clusters, NEW g, WalkTurns(g, w, i, short, s)
  PROVE  \A j \in s.index .. i : Walking(w, g[j])
<1> DEFINE I == {j \in s.index .. i : Walking(w, g[j])}
<1>0. PICK a \in Nat : a = s.index
  OBVIOUS
<1>1. a \in I
  <2>1. g[a] = Arrived(w, s) /\ a \in s.index .. i
    BY <1>0 DEF WalkTurns
  <2> QED BY <1>0, <2>1, ArrivedIs
<1>2. ASSUME NEW k \in a + 1 .. i, k - 1 \in I PROVE k \in I
  <2>1. k \in s.index .. i /\ k # s.index /\ k - 1 \in s.index .. i
    BY <1>0
  <2>2. g[k] = GetNext(g[k - 1], short)
    BY <2>1 DEF WalkTurns
  <2>3. Walking(w, g[k - 1])
    BY <1>2
  <2> QED BY <2>1, <2>2, <2>3, WalkNextIs
<1> HIDE DEF I
<1>3. \A k \in a .. i : k \in I
  BY <1>1, <1>2, Upwards
<1> QED BY <1>0, <1>3 DEF I

LEMMA WalkExists ==
  ASSUME NEW w \in Writes, NEW i \in Nat, NEW short \in Shorts, NEW s, s.index \in Nat, s.index <= i,
         s.cluster \in Clusters
  PROVE  \E g : WalkTurns(g, w, i, short, s)
<1>0. PICK a \in Nat : a = s.index /\ a <= i
  OBVIOUS
<1>1. PICK b : b = Arrived(w, s)
  OBVIOUS
<1> DEFINE P == {p \in Writes : Walking(w, p)}
           X == (a .. i) \X P
           S == [p \in P \X (a + 1 .. i) |-> GetNext(p[1], short)]
<1>2. <<a, b>> \in X
  <2>1. Walking(w, b) /\ b \in Writes
    BY <1>1, ArrivedIs DEF Walking
  <2> QED BY <1>0, <2>1
<1>3. ASSUME NEW k \in a + 1 .. i, NEW x, <<k - 1, x>> \in X
      PROVE  S[<<x, k>>] = GetNext(x, short) /\ <<k, GetNext(x, short)>> \in X
  <2>1. x \in P /\ k \in a .. i
    BY <1>3
  <2>2. Walking(w, GetNext(x, short))
    BY <2>1, WalkNextIs
  <2>3. GetNext(x, short) \in P
    BY <2>2 DEF Walking
  <2> QED BY <2>1, <2>3
<1> HIDE DEF X, S, P
<1>4. PICK g : Turns(g, X, a, i, b, S)
  <2>1. \A k \in a + 1 .. i : \A x : <<k - 1, x>> \in X => <<k, S[<<x, k>>]>> \in X
    BY <1>3
  <2> QED BY ONLY <1>0, <1>2, <2>1, i \in Nat, TurnsExist
<1>5. WalkTurns(g, w, i, short, s)
  <2>1. ASSUME NEW j \in a .. i, j # a PROVE g[j] = GetNext(g[j - 1], short)
    <3>1. j \in a + 1 .. i /\ j - 1 \in a .. i
      BY <2>1
    <3>2. <<j - 1, g[j - 1]>> \in X /\ g[j] = S[<<g[j - 1], j>>]
      BY <1>4, <3>1 DEF Turns
    <3> QED BY <1>3, <3>1, <3>2
  <2>2. g = [j \in a .. i |-> g[j]] /\ g[a] = b
    BY <1>4 DEF Turns
  <2>3. g = [j \in a .. i |-> IF j = a THEN b ELSE GetNext(g[j - 1], short)]
    BY <2>1, <2>2
  <2> QED BY <1>0, <1>1, <2>3 DEF WalkTurns
<1> QED BY <1>5

GetLast(p, h, i) == IF p.a = "more" THEN [p EXCEPT !.v = CacheStore(@, h, i, p.c)] ELSE p

LEMMA GetClusterTurns ==
  ASSUME NEW w \in Writes, NEW h \in Handles, NEW i \in Nat, NEW short \in Shorts,
         w.v.hs[h].first \in Clusters
  PROVE  \E g : /\ WalkTurns(g, w, i, short, CacheLookup(w.v, h, i))
                /\ GetCluster(w, h, i, short) = GetLast(g[i], h, i)
<1>1. PICK s : s = CacheLookup(w.v, h, i)
  OBVIOUS
<1>2. s.index \in Nat /\ s.index <= i /\ s.cluster \in Clusters
  BY <1>1, WriteHas, CacheLookupIs
<1> DEFINE g == CHOOSE z : WalkTurns(z, w, i, short, s)
<1>3. WalkTurns(g, w, i, short, s)
  BY <1>2, WalkExists
<1>4. GetCluster(w, h, i, short) = GetLast(g[i], h, i)
  BY <1>1 DEF GetCluster, GetLast, GetNext, FollowedBy, GrownBy, GoesTo, StopsWith, WalkTurns,
              Arrived, Then
<1> QED BY <1>1, <1>3, <1>4

LEMMA GetLastIs ==
  ASSUME NEW w \in Writes, NEW h \in Handles, NEW i \in Nat, NEW p, Walking(w, p)
  PROVE  LET u == GetLast(p, h, i) IN
         /\ Growing(w, u, h) /\ u.a = p.a /\ u.c = p.c
         /\ p.a = "more" => StoredAt(p.v, u.v, h, i, p.c)
         /\ p.a # "more" => u = p
<1>1. PICK u : u = GetLast(p, h, i)
  OBVIOUS
<1>2. p \in Writes /\ p.v \in Vols /\ p.v.hs[h] \in KnownHandle
  BY WriteHas, VolHas DEF Walking
<1>3. CASE p.a = "more"
  <2>1. PICK x : x = CacheStore(p.v, h, i, p.c)
    OBVIOUS
  <2>2. p.c \in Known
    BY <1>3, KnownAre DEF Walking
  <2>3. StoredAt(p.v, x, h, i, p.c) /\ x \in Vols
    BY <1>2, <2>1, <2>2, CacheStoreIs DEF StoredAt
  <2>4. u = Writing(x, p.c, p.left, p.a)
    BY <1>1, <1>2, <1>3, <2>1, NowOf DEF GetLast
  <2>5. u \in Writes /\ u.v = x /\ u.c = p.c /\ u.left = p.left /\ u.a = p.a
    BY <1>2, <2>3, <2>4, WriteHas, WritingIs
  <2>6. PICK o \in KnownHandle : o = p.v.hs[h]
    BY <1>2
  <2>7. Keeping(o, x.hs[h])
    <3>1. x.hs[h] = Located(o, i, p.c)
      BY <2>3, <2>6 DEF StoredAt
    <3> QED BY <2>2, <3>1, LocatedIs DEF Keeping
  <2>8. Growing(w, u, h)
    <3>1. /\ x.root = w.v.root /\ x.disk = w.v.disk /\ x.fat.fails = w.v.fat.fails
          /\ \A k \in Handles : k # h => x.hs[k] = w.v.hs[k]
      BY <2>3 DEF StoredAt, Walking, OnlyTable
    <3>2. o = w.v.hs[h]
      BY <2>6 DEF Walking, OnlyTable
    <3> QED BY <2>5, <2>7, <3>1, <3>2 DEF Growing, Walking
  <2> QED BY <1>1, <1>3, <2>3, <2>5, <2>8
<1>4. CASE p.a # "more"
  <2>1. u = p
    BY <1>1, <1>4 DEF GetLast
  <2>2. Growing(w, p, h)
    BY <1>2 DEF Growing, Keeping, Walking, OnlyTable
  <2> QED BY <1>1, <1>4, <2>1, <2>2
<1> QED BY <1>3, <1>4

(* wf_get_cluster, whichever transfers fail. *)
LEMMA GetClusterIs ==
  ASSUME NEW w \in Writes, NEW h \in Handles, NEW i \in Nat, NEW short \in Shorts,
         w.v.hs[h].first \in Clusters
  PROVE  LET u == GetCluster(w, h, i, short) IN
         Growing(w, u, h) /\ (u.a = "more" => u.c \in Clusters)
<1>1. PICK s : s = CacheLookup(w.v, h, i)
  OBVIOUS
<1>2. s.index \in Nat /\ s.index <= i /\ s.cluster \in Clusters
  BY <1>1, WriteHas, CacheLookupIs
<1>3. PICK g : /\ WalkTurns(g, w, i, short, s)
               /\ GetCluster(w, h, i, short) = GetLast(g[i], h, i)
  BY <1>1, GetClusterTurns
<1>4. Walking(w, g[i])
  BY <1>2, <1>3, WalkTypes
<1> QED BY <1>3, <1>4, GetLastIs DEF Walking

LEMMA TwoNumbers ==
  ASSUME NEW x \in Nat, NEW y \in Nat
  PROVE  /\ Min({x, y}) = IF x <= y THEN x ELSE y
         /\ Max({x, y}) = IF x >= y THEN x ELSE y
<1>1. PICK lo \in Nat : lo = IF x <= y THEN x ELSE y
  OBVIOUS
<1>2. PICK hi \in Nat : hi = IF x >= y THEN x ELSE y
  OBVIOUS
<1>3. lo \in {x, y} /\ (\A n \in {x, y} : lo =< n)
      /\ \A m \in {x, y} : (\A n \in {x, y} : m =< n) => m = lo
  BY <1>1
<1>4. hi \in {x, y} /\ (\A n \in {x, y} : hi >= n)
      /\ \A m \in {x, y} : (\A n \in {x, y} : m >= n) => m = hi
  BY <1>2
<1>5. Min({x, y}) = lo
  BY <1>3 DEF Min
<1>6. Max({x, y}) = hi
  BY <1>4 DEF Max
<1> QED BY <1>1, <1>2, <1>5, <1>6

(* A handle of a write has another size and position. *)
Sized(o, n) == [o EXCEPT !.size = n, !.dirty = TRUE]

LEMMA SizedIs ==
  ASSUME NEW o \in KnownHandle, NEW n \in Sizes, NEW p, p = Sized(o, n)
  PROVE  /\ p \in KnownHandle /\ p.size = n /\ p.dirty
         /\ p.file = o.file /\ p.write = o.write /\ p.first = o.first /\ p.pos = o.pos
         /\ p.lastIndex = o.lastIndex /\ p.lastCluster = o.lastCluster
BY DEF KnownHandle, Sized

(* Only the handle h differs, and it is p. *)
OnlyHandle(v, u, h, p) ==
    /\ u \in Vols /\ u.fat = v.fat /\ u.slots = v.slots /\ u.root = v.root /\ u.disk = v.disk
    /\ u.hs[h] = p
    /\ \A g \in Handles : g # h => u.hs[g] = v.hs[g]

LEMMA OnlyHandleIs ==
  ASSUME NEW v \in Vols, NEW h \in Handles, NEW p \in KnownHandle, NEW H, H = [v.hs EXCEPT ![h] = p]
  PROVE  OnlyHandle(v, WithHandles(v, H), h, p)
<1>1. v.hs \in OpenHandles
  BY VolHas
<1>2. H \in OpenHandles /\ H[h] = p /\ \A g \in Handles : g # h => H[g] = v.hs[g]
  BY <1>1, OneHandle
<1>3. PICK u : u = WithHandles(v, H)
  OBVIOUS
<1>4. /\ u \in Vols /\ u.hs = H
      /\ u.fat = v.fat /\ u.slots = v.slots /\ u.root = v.root /\ u.disk = v.disk
  BY <1>2, <1>3, WithHandlesIs
<1> QED BY <1>2, <1>3, <1>4 DEF OnlyHandle

(* What the field of one handle becomes. *)
SetSized(v, h, n) == [v EXCEPT !.hs[h].size = n, !.hs[h].dirty = TRUE]

LEMMA SetSizedIs ==
  ASSUME NEW v \in Vols, NEW h \in Handles, NEW n \in Sizes
  PROVE  OnlyHandle(v, SetSized(v, h, n), h, Sized(v.hs[h], n))
<1>1. PICK p \in KnownHandle : p = Sized(v.hs[h], n)
  BY VolHas, SizedIs
<1>2. PICK H : H = [v.hs EXCEPT ![h] = p]
  OBVIOUS
<1>3. SetSized(v, h, n) = WithHandles(v, H)
  <2>1. v = [fat |-> v.fat, slots |-> v.slots, hs |-> v.hs, root |-> v.root, disk |-> v.disk]
    BY DEF Vols
  <2>2. v.hs \in OpenHandles
    BY VolHas
  <2> QED BY <1>1, <1>2, <2>1, <2>2 DEF SetSized, WithHandles, Sized, OpenHandles
<1> QED BY <1>1, <1>2, <1>3, OnlyHandleIs

(* The gap is backed: its steps in turn. *)
GapFirst(w, h) == IF w.a = "more" THEN FirstCluster(w, h, "error") ELSE w
GapGet(w, h, i) == IF w.a = "more" THEN GetCluster(w, h, i, "error") ELSE w
GapSize(w, h, n) ==
    IF w.a = "more" THEN [w EXCEPT !.v.hs[h].size = n, !.v.hs[h].dirty = TRUE] ELSE w

LEMMA GapFillSteps ==
  ASSUME NEW w, NEW h
  PROVE  LET o == w.v.hs[h]
             a == DataIo(w)
             b == IF o.first = FREE THEN GapFirst(a, h) ELSE a
             c == GapGet(b, h, GapIndex(o))
         IN  GapFill(w, h) = GapSize(c, h, o.pos)
BY SMTT(60) DEF GapFill, GapFirst, GapGet, GapSize, Then

LEMMA DataIoGrows ==
  ASSUME NEW w \in Writes, NEW h \in Handles
  PROVE  Growing(w, DataIo(w), h)
BY DataIoIs DEF Growing, Keeping, OnlyTable

(* The cluster that holds a position. *)
LEMMA IndexIs ==
  ASSUME NEW n \in Nat
  PROVE  n \div ClusterUnits \in Nat
BY Constants

(* What a step of a write may change besides what Growing lets it. *)
Changing(w, u, h) ==
    /\ u \in Writes /\ u.v.fat.fails = w.v.fat.fails
    /\ u.v.root = w.v.root /\ u.v.disk = w.v.disk
    /\ u.v.hs[h].file = w.v.hs[h].file /\ u.v.hs[h].write = w.v.hs[h].write
    /\ u.v.hs[h].pos + u.left = w.v.hs[h].pos + w.left
    /\ \A g \in Handles : g # h => u.v.hs[g] = w.v.hs[g]

LEMMA GrowingChanges ==
  ASSUME NEW w, NEW u, NEW h, Growing(w, u, h)
  PROVE  Changing(w, u, h)
BY DEF Growing, Changing, Keeping

LEMMA ChangingMore ==
  ASSUME NEW w, NEW u, NEW x, NEW h, Changing(w, u, h), Changing(u, x, h)
  PROVE  Changing(w, x, h)
BY DEF Changing

LEMMA GapSizeIs ==
  ASSUME NEW w \in Writes, NEW h \in Handles, NEW n \in Sizes
  PROVE  LET u == GapSize(w, h, n) IN
         /\ Changing(w, u, h) /\ u.a = w.a /\ u.c = w.c /\ u.left = w.left
         /\ w.a = "more" => OnlyHandle(w.v, u.v, h, Sized(w.v.hs[h], n))
         /\ w.a # "more" => u = w
<1>1. PICK u : u = GapSize(w, h, n)
  OBVIOUS
<1>2. CASE w.a = "more"
  <2>1. PICK x : x = SetSized(w.v, h, n)
    OBVIOUS
  <2>2. OnlyHandle(w.v, x, h, Sized(w.v.hs[h], n)) /\ x \in Vols
    BY <2>1, WriteHas, SetSizedIs DEF OnlyHandle
  <2>3. u = Writing(x, w.c, w.left, w.a)
    <3>1. w = Writing(w.v, w.c, w.left, w.a)
      BY WriteHas
    <3>2. u = [w EXCEPT !.v.hs[h].size = n, !.v.hs[h].dirty = TRUE]
      BY <1>1, <1>2 DEF GapSize
    <3>3. x = [w.v EXCEPT !.hs[h].size = n, !.hs[h].dirty = TRUE]
      BY <2>1 DEF SetSized
    <3> QED BY <3>1, <3>2, <3>3 DEF Writing
  <2>4. u \in Writes /\ u.v = x /\ u.c = w.c /\ u.left = w.left /\ u.a = w.a
    BY <2>2, <2>3, WriteHas, WritingIs
  <2>5. /\ x.hs[h].file = w.v.hs[h].file /\ x.hs[h].write = w.v.hs[h].write
        /\ x.hs[h].pos = w.v.hs[h].pos
    <3>1. PICK o \in KnownHandle : o = w.v.hs[h]
      BY WriteHas, VolHas
    <3>2. x.hs[h] = Sized(o, n)
      BY <2>2, <3>1 DEF OnlyHandle
    <3> QED BY <3>1, <3>2, SizedIs
  <2>6. Changing(w, u, h)
    BY <2>2, <2>4, <2>5 DEF Changing, OnlyHandle
  <2> QED BY <1>1, <1>2, <2>2, <2>4, <2>6
<1>3. CASE w.a # "more"
  <2>1. u = w
    BY <1>1, <1>3 DEF GapSize
  <2>2. Changing(w, w, h)
    BY DEF Changing
  <2> QED BY <1>1, <1>3, <2>1, <2>2
<1> QED BY <1>2, <1>3

(* wf_gap_fill, whichever transfers fail. *)
LEMMA GapFillIs ==
  ASSUME NEW w \in Writes, NEW h \in Handles, w.a = "more", w.v.hs[h].pos > w.v.hs[h].size
  PROVE  LET u == GapFill(w, h) IN
         /\ Changing(w, u, h)
         /\ u.a = "more" => u.v.hs[h].first \in Clusters
<1>1. PICK o \in KnownHandle : o = w.v.hs[h]
  BY WriteHas, VolHas
<1>2. PICK a : a = DataIo(w)
  OBVIOUS
<1>3. Growing(w, a, h) /\ a \in Writes /\ a.v.hs[h] = o
  <2>1. Growing(w, a, h) /\ OnlyTable(w.v, a.v)
    BY <1>2, DataIoGrows, DataIoIs
  <2> QED BY <1>1, <2>1 DEF Growing, OnlyTable
<1>4. PICK b : b = IF o.first = FREE THEN GapFirst(a, h) ELSE a
  OBVIOUS
<1>5. Growing(a, b, h) /\ b \in Writes /\ (b.a = "more" => b.v.hs[h].first \in Clusters)
  <2>1. CASE o.first = FREE /\ a.a = "more"
    <3>1. b = FirstCluster(a, h, "error")
      BY <1>4, <2>1 DEF GapFirst
    <3>2. "error" \in Shorts
      BY DEF Shorts
    <3> QED BY <1>3, <2>1, <3>1, <3>2, FirstClusterIs DEF Growing
  <2>2. CASE a.a # "more"
    <3>1. b = a
      BY <1>4, <2>2 DEF GapFirst
    <3> QED BY <1>3, <2>2, <3>1, GrowingNone
  <2>3. CASE o.first # FREE
    <3>1. b = a /\ o.first \in Clusters
      BY <1>4, <2>3, HandleHas, KnownAre
    <3> QED BY <1>3, <3>1, GrowingNone
  <2> QED BY <2>1, <2>2, <2>3
<1>6. PICK i \in Nat : i = GapIndex(o)
  <2>1. o.pos - 1 \in Nat
    BY <1>1, HandleHas, KnownAre
  <2> QED BY <2>1, IndexIs DEF GapIndex
<1>7. PICK c : c = GapGet(b, h, i)
  OBVIOUS
<1>8. Growing(b, c, h) /\ c \in Writes /\ (c.a = "more" => b.a = "more")
  <2>1. CASE b.a = "more"
    <3>1. "error" \in Shorts
      BY DEF Shorts
    <3>2. c = GetCluster(b, h, i, "error")
      BY <1>7, <2>1 DEF GapGet
    <3> QED BY <1>5, <2>1, <3>1, <3>2, GetClusterIs DEF Growing
  <2>2. CASE b.a # "more"
    <3>1. c = b
      BY <1>7, <2>2 DEF GapGet
    <3> QED BY <1>5, <2>2, <3>1, GrowingNone
  <2> QED BY <2>1, <2>2
<1>9. PICK u : u = GapSize(c, h, o.pos)
  OBVIOUS
<1>10. GapFill(w, h) = u
  BY <1>1, <1>2, <1>4, <1>6, <1>7, <1>9, GapFillSteps
<1>11. o.pos \in Sizes
  BY HandleHas
<1>12. Growing(w, c, h)
  BY <1>3, <1>5, <1>8, GrowingMore
<1>13. Changing(w, u, h) /\ u.a = c.a
  BY <1>8, <1>9, <1>11, <1>12, GapSizeIs, GrowingChanges, ChangingMore
<1>14. ASSUME u.a = "more" PROVE u.v.hs[h].first \in Clusters
  <2>1. b.a = "more" /\ c.a = "more"
    BY <1>8, <1>13, <1>14
  <2>2. c.v.hs[h].first \in Clusters
    BY <1>5, <1>8, <2>1 DEF Growing, Keeping
  <2>3. OnlyHandle(c.v, u.v, h, Sized(c.v.hs[h], o.pos))
    BY <1>8, <1>9, <1>11, <2>1, GapSizeIs
  <2>4. PICK q \in KnownHandle : q = c.v.hs[h]
    BY <1>8, WriteHas, VolHas
  <2>5. u.v.hs[h] = Sized(q, o.pos)
    BY <2>3, <2>4 DEF OnlyHandle
  <2> QED BY <1>11, <2>2, <2>4, <2>5, SizedIs
<1> QED BY <1>10, <1>13, <1>14

(* What one cluster's worth moves, and the handle that it leaves. *)
Moves(o, left) == Min({left, ClusterUnits - (o.pos % ClusterUnits)})
Filled(o, end) == [o EXCEPT !.pos = end, !.size = Max({@, end}), !.dirty = @ \/ end > o.size]

LEMMA FilledIs ==
  ASSUME NEW o \in KnownHandle, NEW end \in Sizes, NEW p, p = Filled(o, end)
  PROVE  /\ p \in KnownHandle /\ p.pos = end /\ p.size = (IF o.size >= end THEN o.size ELSE end)
         /\ p.file = o.file /\ p.write = o.write /\ p.first = o.first
         /\ p.lastIndex = o.lastIndex /\ p.lastCluster = o.lastCluster
         /\ o.dirty => p.dirty
         /\ p.size # o.size => p.dirty
<1>1. PICK n \in Sizes : n = (IF o.size >= end THEN o.size ELSE end)
  BY HandleHas
<1>2. Max({o.size, end}) = n
  BY <1>1, HandleHas, KnownAre, TwoNumbers
<1>3. PICK d \in BOOLEAN : d <=> (o.dirty \/ end > o.size)
  <2>1. CASE o.dirty \/ end > o.size
    <3>1. TRUE <=> (o.dirty \/ end > o.size)
      BY <2>1
    <3> QED BY <3>1
  <2>2. CASE ~(o.dirty \/ end > o.size)
    <3>1. FALSE <=> (o.dirty \/ end > o.size)
      BY <2>2
    <3> QED BY <3>1
  <2> QED BY <2>1, <2>2
<1>4. p = [o EXCEPT !.pos = end, !.size = n, !.dirty = d]
  BY <1>2, <1>3 DEF Filled
<1>5. /\ p \in KnownHandle /\ p.pos = end /\ p.size = n /\ p.dirty = d
      /\ p.file = o.file /\ p.write = o.write /\ p.first = o.first
      /\ p.lastIndex = o.lastIndex /\ p.lastCluster = o.lastCluster
  BY <1>4 DEF KnownHandle
<1>6. n # o.size => end > o.size
  BY <1>1, HandleHas, KnownAre
<1> QED BY <1>1, <1>3, <1>5, <1>6

LEMMA MovesIs ==
  ASSUME NEW o \in KnownHandle, NEW left \in Nat, o.pos + left <= MaxSize
  PROVE  LET d == Moves(o, left) IN
         /\ d \in Nat /\ d <= left /\ o.pos + d \in Sizes /\ d <= ClusterUnits - (o.pos % ClusterUnits)
         /\ left > 0 => d > 0
<1>1. PICK r \in Nat : r = o.pos % ClusterUnits /\ r < ClusterUnits
  BY HandleHas, KnownAre, Constants, Remainders
<1>2. PICK m \in Nat : m = ClusterUnits - r /\ m > 0
  BY <1>1, Constants
<1>3. PICK d \in Nat : d = (IF left <= m THEN left ELSE m)
  BY <1>2
<1>4. Moves(o, left) = d
  BY <1>1, <1>2, <1>3, TwoNumbers DEF Moves
<1>5. o.pos \in Nat
  BY HandleHas, KnownAre
<1>6. d <= left /\ d <= m /\ (left > 0 => d > 0)
  BY <1>2, <1>3
<1>7. o.pos + d \in Sizes
  BY <1>3, <1>5, <1>6, Constants DEF Sizes
<1> QED BY <1>1, <1>2, <1>4, <1>6, <1>7

LEMMA StoreIs ==
  ASSUME NEW w \in Writes, NEW h \in Handles, w.v.hs[h].pos + w.left <= MaxSize
  PROVE  LET u == Store(w, h)
             d == Moves(w.v.hs[h], w.left)
         IN  /\ Changing(w, u, h) /\ u.a = w.a /\ u.c = w.c /\ u.left = w.left - d
             /\ OnlyHandle(w.v, u.v, h, Filled(w.v.hs[h], w.v.hs[h].pos + d))
<1>1. PICK o \in KnownHandle : o = w.v.hs[h]
  BY WriteHas, VolHas
<1>2. w.left \in Nat /\ o.pos \in Nat
  BY WriteHas, HandleHas, KnownAre
<1>3. PICK d \in Nat : d = Moves(o, w.left) /\ d <= w.left /\ o.pos + d \in Sizes
  BY <1>1, <1>2, MovesIs
<1>4. PICK p \in KnownHandle : p = Filled(o, o.pos + d)
  BY <1>3, FilledIs
<1>5. PICK H : H = [w.v.hs EXCEPT ![h] = p]
  OBVIOUS
<1>6. PICK x : x = WithHandles(w.v, H)
  OBVIOUS
<1>7. OnlyHandle(w.v, x, h, p) /\ x \in Vols
  BY <1>5, <1>6, WriteHas, OnlyHandleIs DEF OnlyHandle
<1>8. PICK left \in Nat : left = w.left - d
  BY <1>2, <1>3
<1>9. PICK u : u = Store(w, h)
  OBVIOUS
<1>10. u = Writing(x, w.c, left, w.a)
  <2>1. w = Writing(w.v, w.c, w.left, w.a)
    BY WriteHas
  <2>2. (o.pos + d) - o.pos = d
    BY <1>2
  <2>3. u = [w EXCEPT !.v.hs[h] = p, !.left = left]
    BY ZenonT(60), <1>1, <1>3, <1>4, <1>8, <1>9, <2>2 DEF Store, Moves, Filled
  <2> QED BY <1>5, <1>6, <2>1, <2>3 DEF Writing, WithHandles
<1>11. u \in Writes /\ u.v = x /\ u.c = w.c /\ u.left = left /\ u.a = w.a
  BY <1>7, <1>8, <1>10, WriteHas, WritingIs
<1>12. p.file = o.file /\ p.write = o.write /\ p.pos = o.pos + d
  BY <1>3, <1>4, FilledIs
<1>13. p.pos + left = o.pos + w.left
  BY <1>2, <1>8, <1>12
<1>14. Changing(w, u, h)
  BY <1>1, <1>7, <1>11, <1>12, <1>13 DEF Changing, OnlyHandle
<1> QED BY <1>1, <1>3, <1>4, <1>7, <1>8, <1>9, <1>11, <1>14

(* The steps of a chunk in turn. *)
ChunkFirst(w, h) == IF w.a = "more" THEN FirstCluster(w, h, "full") ELSE w
KnownPlace(w, h, i) == w.v.hs[h].lastCluster # FREE /\ w.v.hs[h].lastIndex = i
ChunkFind(w, h, i) == IF w.a = "more" THEN IF KnownPlace(w, h, i) THEN w ELSE DataIo(w) ELSE w
ChunkGet(w, h, i) == IF w.a = "more" THEN GetCluster(w, h, i, "full") ELSE w
ChunkData(w) == IF w.a = "more" THEN DataIo(w) ELSE w
ChunkStore(w, h) == IF w.a = "more" THEN Store(w, h) ELSE w

LEMMA WriteChunkSteps ==
  ASSUME NEW w, NEW h
  PROVE  LET i == w.v.hs[h].pos \div ClusterUnits
             a == IF w.v.hs[h].first = FREE THEN ChunkFirst(DataIo(w), h) ELSE w
             b == ChunkFind(a, h, i)
             c == ChunkGet(b, h, i)
         IN  WriteChunk(w, h) = ChunkStore(ChunkData(c), h)
BY ZenonT(60) DEF WriteChunk, ChunkFirst, ChunkFind, KnownPlace, ChunkGet, ChunkData, ChunkStore, Then

LEMMA ChunkFirstIs ==
  ASSUME NEW w \in Writes, NEW h \in Handles, w.a = "more"
  PROVE  LET a == IF w.v.hs[h].first = FREE THEN ChunkFirst(DataIo(w), h) ELSE w IN
         Growing(w, a, h) /\ (a.a = "more" => a.v.hs[h].first \in Clusters)
<1>1. PICK o \in KnownHandle : o = w.v.hs[h]
  BY WriteHas, VolHas
<1>2. PICK e : e = DataIo(w)
  OBVIOUS
<1>3. Growing(w, e, h) /\ e \in Writes /\ e.v.hs[h] = o
  <2>1. Growing(w, e, h) /\ OnlyTable(w.v, e.v)
    BY <1>2, DataIoGrows, DataIoIs
  <2> QED BY <1>1, <2>1 DEF Growing, OnlyTable
<1>4. PICK a : a = IF o.first = FREE THEN ChunkFirst(e, h) ELSE w
  OBVIOUS
<1>5. CASE o.first = FREE /\ e.a = "more"
  <2>1. a = FirstCluster(e, h, "full")
    BY <1>4, <1>5 DEF ChunkFirst
  <2>2. "full" \in Shorts
    BY DEF Shorts
  <2>3. Growing(e, a, h) /\ (a.a = "more" => a.v.hs[h].first \in Clusters)
    BY <1>3, <1>5, <2>1, <2>2, FirstClusterIs
  <2> QED BY <1>1, <1>2, <1>3, <1>4, <2>3, GrowingMore
<1>6. CASE o.first = FREE /\ e.a # "more"
  <2>1. a = e
    BY <1>4, <1>6 DEF ChunkFirst
  <2> QED BY <1>1, <1>2, <1>3, <1>4, <1>6, <2>1
<1>7. CASE o.first # FREE
  <2>1. a = w /\ o.first \in Clusters
    BY <1>4, <1>7, HandleHas, KnownAre
  <2> QED BY <1>1, <1>2, <1>4, <2>1, GrowingNone
<1> QED BY <1>5, <1>6, <1>7

LEMMA ChunkFindIs ==
  ASSUME NEW w \in Writes, NEW h \in Handles, NEW i
  PROVE  LET b == ChunkFind(w, h, i) IN
         /\ Growing(w, b, h) /\ OnlyTable(w.v, b.v) /\ SameView(w.v, b.v) /\ b.a \in {w.a, "error"}
         /\ w.v.fat.fails = {} => b.a = w.a
<1>1. OnlyTable(w.v, w.v) /\ SameView(w.v, w.v) /\ Growing(w, w, h)
  BY WriteHas, GrowingNone DEF OnlyTable, SameView
<1> QED BY <1>1, DataIoIs, DataIoGrows DEF ChunkFind

LEMMA ChunkGetIs ==
  ASSUME NEW w \in Writes, NEW h \in Handles, NEW i \in Nat,
         w.a = "more" => w.v.hs[h].first \in Clusters
  PROVE  Growing(w, ChunkGet(w, h, i), h)
<1>1. "full" \in Shorts
  BY DEF Shorts
<1> QED BY <1>1, GetClusterIs, GrowingNone DEF ChunkGet

LEMMA ChunkDataIs ==
  ASSUME NEW w \in Writes, NEW h \in Handles
  PROVE  LET b == ChunkData(w) IN
         /\ Growing(w, b, h) /\ OnlyTable(w.v, b.v) /\ SameView(w.v, b.v) /\ b.a \in {w.a, "error"}
         /\ w.v.fat.fails = {} => b.a = w.a
<1>1. OnlyTable(w.v, w.v) /\ SameView(w.v, w.v) /\ Growing(w, w, h)
  BY WriteHas, GrowingNone DEF OnlyTable, SameView
<1> QED BY <1>1, DataIoIs, DataIoGrows DEF ChunkData

(* One cluster's worth, whichever transfers fail. *)
LEMMA WriteChunkIs ==
  ASSUME NEW w \in Writes, NEW h \in Handles, w.a = "more", w.v.hs[h].pos + w.left <= MaxSize
  PROVE  Changing(w, WriteChunk(w, h), h)
<1>1. PICK i \in Nat : i = w.v.hs[h].pos \div ClusterUnits
  BY WriteHas, VolHas, HandleHas, KnownAre, IndexIs
<1>2. PICK a : a = IF w.v.hs[h].first = FREE THEN ChunkFirst(DataIo(w), h) ELSE w
  OBVIOUS
<1>3. Growing(w, a, h) /\ (a.a = "more" => a.v.hs[h].first \in Clusters) /\ a \in Writes
  BY <1>2, ChunkFirstIs DEF Growing
<1>4. PICK b : b = ChunkFind(a, h, i)
  OBVIOUS
<1>5. /\ Growing(a, b, h) /\ b \in Writes
      /\ b.a = "more" => b.v.hs[h].first \in Clusters
  <2>1. Growing(a, b, h) /\ OnlyTable(a.v, b.v) /\ b.a \in {a.a, "error"}
    BY <1>3, <1>4, ChunkFindIs
  <2> QED BY <1>3, <2>1 DEF Growing, OnlyTable
<1>6. PICK c : c = ChunkGet(b, h, i)
  OBVIOUS
<1>7. Growing(b, c, h) /\ c \in Writes
  BY <1>5, <1>6, ChunkGetIs DEF Growing
<1>8. PICK d : d = ChunkData(c)
  OBVIOUS
<1>9. Growing(c, d, h) /\ d \in Writes
  BY <1>7, <1>8, ChunkDataIs DEF Growing
<1>10. Growing(w, d, h)
  BY <1>3, <1>5, <1>7, <1>9, GrowingMore
<1>11. PICK u : u = ChunkStore(d, h)
  OBVIOUS
<1>12. WriteChunk(w, h) = u
  BY ZenonT(60), <1>1, <1>2, <1>4, <1>6, <1>8, <1>11, WriteChunkSteps
<1>13. Changing(d, u, h)
  <2>1. d.v.hs[h].pos + d.left <= MaxSize
    BY <1>10 DEF Growing, Keeping
  <2>2. CASE d.a = "more"
    BY <1>9, <1>11, <2>1, <2>2, StoreIs DEF ChunkStore
  <2>3. CASE d.a # "more"
    BY <1>9, <1>11, <2>3 DEF ChunkStore, Changing
  <2> QED BY <2>2, <2>3
<1> QED BY <1>10, <1>12, <1>13, GrowingChanges, ChangingMore

-----------------------------------------------------------------------------
(* The loop of a write *)

WriteNext(w, h) == IF w.a = "more" /\ w.left > 0 THEN WriteChunk(w, h) ELSE w
WriteTurns(g, b, h, n) ==
    g = [k \in 0 .. n |-> IF k = 0 THEN b ELSE WriteNext(g[k - 1], h)]

LEMMA WriteNextIs ==
  ASSUME NEW w \in Writes, NEW h \in Handles, NEW u, Changing(w, u, h),
         w.v.hs[h].pos + w.left <= MaxSize
  PROVE  Changing(w, WriteNext(u, h), h)
<1>1. u \in Writes /\ u.v.hs[h].pos + u.left <= MaxSize
  BY DEF Changing
<1>2. CASE u.a = "more" /\ u.left > 0
  <2>1. Changing(u, WriteChunk(u, h), h)
    BY <1>1, <1>2, WriteChunkIs
  <2> QED BY <1>2, <2>1, ChangingMore DEF WriteNext
<1>3. CASE ~(u.a = "more" /\ u.left > 0)
  BY <1>3 DEF WriteNext
<1> QED BY <1>2, <1>3

LEMMA WriteTypes ==
  ASSUME NEW w \in Writes, NEW h \in Handles, w.v.hs[h].pos + w.left <= MaxSize, NEW b,
         Changing(w, b, h), NEW n \in Nat, NEW g, WriteTurns(g, b, h, n)
  PROVE  \A k \in 0 .. n : Changing(w, g[k], h)
<1> DEFINE I == {k \in 0 .. n : Changing(w, g[k], h)}
<1>1. 0 \in I
  <2>1. g[0] = b
    BY DEF WriteTurns
  <2> QED BY <2>1
<1>2. ASSUME NEW k \in 0 + 1 .. n, k - 1 \in I PROVE k \in I
  <2>1. k \in 0 .. n /\ k # 0 /\ k - 1 \in 0 .. n
    OBVIOUS
  <2>2. g[k] = WriteNext(g[k - 1], h)
    BY <2>1 DEF WriteTurns
  <2>3. Changing(w, g[k - 1], h)
    BY <1>2
  <2> QED BY <2>1, <2>2, <2>3, WriteNextIs
<1> HIDE DEF I
<1>3. \A k \in 0 .. n : k \in I
  BY <1>1, <1>2, Upwards
<1> QED BY <1>3 DEF I

LEMMA WriteTurnsExist ==
  ASSUME NEW w \in Writes, NEW h \in Handles, w.v.hs[h].pos + w.left <= MaxSize, NEW b,
         Changing(w, b, h), NEW n \in Nat
  PROVE  \E g : WriteTurns(g, b, h, n)
<1> DEFINE P == {p \in Writes : Changing(w, p, h)}
           X == (0 .. n) \X P
           S == [p \in P \X (1 .. n) |-> WriteNext(p[1], h)]
<1>1. <<0, b>> \in X
  BY DEF Changing
<1>2. ASSUME NEW k \in 0 + 1 .. n, NEW x, <<k - 1, x>> \in X
      PROVE  S[<<x, k>>] = WriteNext(x, h) /\ <<k, WriteNext(x, h)>> \in X
  <2>1. x \in P /\ k \in 0 .. n /\ k \in 1 .. n
    BY <1>2
  <2>2. Changing(w, WriteNext(x, h), h)
    BY <2>1, WriteNextIs
  <2>3. WriteNext(x, h) \in P
    BY <2>2 DEF Changing
  <2> QED BY <2>1, <2>3
<1> HIDE DEF X, S, P
<1>3. PICK g : Turns(g, X, 0, n, b, S)
  <2>1. \A k \in 0 + 1 .. n : \A x : <<k - 1, x>> \in X => <<k, S[<<x, k>>]>> \in X
    BY <1>2
  <2>2. 0 \in Nat /\ 0 <= n
    OBVIOUS
  <2> QED BY ONLY <1>1, <2>1, <2>2, n \in Nat, TurnsExist
<1>4. WriteTurns(g, b, h, n)
  <2>1. ASSUME NEW j \in 0 .. n, j # 0 PROVE g[j] = WriteNext(g[j - 1], h)
    <3>1. j \in 0 + 1 .. n /\ j - 1 \in 0 .. n
      BY <2>1
    <3>2. <<j - 1, g[j - 1]>> \in X /\ g[j] = S[<<g[j - 1], j>>]
      BY <1>3, <3>1 DEF Turns
    <3> QED BY <1>2, <3>1, <3>2
  <2>2. g = [j \in 0 .. n |-> g[j]] /\ g[0] = b
    BY <1>3 DEF Turns
  <2>3. g = [j \in 0 .. n |-> IF j = 0 THEN b ELSE WriteNext(g[j - 1], h)]
    BY <2>1, <2>2
  <2> QED BY <2>3 DEF WriteTurns
<1> QED BY <1>4

-----------------------------------------------------------------------------
(* The walk of a read *)

ReadNext(t) == IF t.ax \in Clusters THEN FatNext(t, t.ax) ELSE t
ReadTurns(g, f, i, s) ==
    g = [j \in s.index .. i |-> IF j = s.index THEN Answering(f, s.cluster) ELSE ReadNext(g[j - 1])]
ReadState(f, t) == Kept(f, t) /\ t.ax \in Entry

LEMMA ReadNextIs ==
  ASSUME NEW f \in Tables, NEW t, ReadState(f, t)
  PROVE  ReadState(f, ReadNext(t))
<1>1. CASE t.ax \in Clusters
  <2>1. t \in Tables
    BY DEF ReadState, Kept
  <2>2. Kept(t, FatNext(t, t.ax)) /\ FatNext(t, t.ax).ax \in Entry
    BY <1>1, <2>1, FatNextIs
  <2> QED BY <1>1, <2>2, KeptMore DEF ReadNext, ReadState
<1>2. CASE t.ax \notin Clusters
  BY <1>2 DEF ReadNext
<1> QED BY <1>1, <1>2

LEMMA ReadStartIs ==
  ASSUME NEW f \in Tables, NEW c \in Entry
  PROVE  ReadState(f, Answering(f, c)) /\ Answering(f, c).ax = c
BY AnsweringIs DEF ReadState, Kept, SameTable

LEMMA ReadTypes ==
  ASSUME NEW f \in Tables, NEW i \in Nat, NEW s, s.index \in Nat, s.index <= i, s.cluster \in Entry,
         NEW g, ReadTurns(g, f, i, s)
  PROVE  \A j \in s.index .. i : ReadState(f, g[j])
<1> DEFINE I == {j \in s.index .. i : ReadState(f, g[j])}
<1>0. PICK a \in Nat : a = s.index
  OBVIOUS
<1>1. a \in I
  <2>1. g[a] = Answering(f, s.cluster) /\ a \in s.index .. i
    BY <1>0 DEF ReadTurns
  <2> QED BY <1>0, <2>1, ReadStartIs
<1>2. ASSUME NEW k \in a + 1 .. i, k - 1 \in I PROVE k \in I
  <2>1. k \in s.index .. i /\ k # s.index /\ k - 1 \in s.index .. i
    BY <1>0
  <2>2. g[k] = ReadNext(g[k - 1])
    BY <2>1 DEF ReadTurns
  <2>3. ReadState(f, g[k - 1])
    BY <1>2
  <2> QED BY <2>1, <2>2, <2>3, ReadNextIs
<1> HIDE DEF I
<1>3. \A k \in a .. i : k \in I
  BY <1>1, <1>2, Upwards
<1> QED BY <1>0, <1>3 DEF I

LEMMA ReadTurnsExist ==
  ASSUME NEW f \in Tables, NEW i \in Nat, NEW s, s.index \in Nat, s.index <= i, s.cluster \in Entry
  PROVE  \E g : ReadTurns(g, f, i, s)
<1>0. PICK a \in Nat : a = s.index /\ a <= i
  OBVIOUS
<1>1. PICK b : b = Answering(f, s.cluster)
  OBVIOUS
<1> DEFINE P == {p \in Tables : ReadState(f, p)}
           X == (a .. i) \X P
           S == [p \in P \X (a + 1 .. i) |-> ReadNext(p[1])]
<1>2. <<a, b>> \in X
  <2>1. ReadState(f, b) /\ b \in Tables
    BY <1>1, ReadStartIs DEF ReadState, Kept
  <2> QED BY <1>0, <2>1
<1>3. ASSUME NEW k \in a + 1 .. i, NEW x, <<k - 1, x>> \in X
      PROVE  S[<<x, k>>] = ReadNext(x) /\ <<k, ReadNext(x)>> \in X
  <2>1. x \in P /\ k \in a .. i
    BY <1>3
  <2>2. ReadState(f, ReadNext(x))
    BY <2>1, ReadNextIs
  <2>3. ReadNext(x) \in P
    BY <2>2 DEF ReadState, Kept
  <2> QED BY <2>1, <2>3
<1> HIDE DEF X, S, P
<1>4. PICK g : Turns(g, X, a, i, b, S)
  <2>1. \A k \in a + 1 .. i : \A x : <<k - 1, x>> \in X => <<k, S[<<x, k>>]>> \in X
    BY <1>3
  <2> QED BY ONLY <1>0, <1>2, <2>1, i \in Nat, TurnsExist
<1>5. ReadTurns(g, f, i, s)
  <2>1. ASSUME NEW j \in a .. i, j # a PROVE g[j] = ReadNext(g[j - 1])
    <3>1. j \in a + 1 .. i /\ j - 1 \in a .. i
      BY <2>1
    <3>2. <<j - 1, g[j - 1]>> \in X /\ g[j] = S[<<g[j - 1], j>>]
      BY <1>4, <3>1 DEF Turns
    <3> QED BY <1>3, <3>1, <3>2
  <2>2. g = [j \in a .. i |-> g[j]] /\ g[a] = b
    BY <1>4 DEF Turns
  <2>3. g = [j \in a .. i |-> IF j = a THEN b ELSE ReadNext(g[j - 1])]
    BY <2>1, <2>2
  <2> QED BY <1>0, <1>1, <2>3 DEF ReadTurns
<1> QED BY <1>5

-----------------------------------------------------------------------------
(* The walk of a cut *)

CutNext(p) == IF p.c \notin Clusters THEN p
              ELSE [t |-> FatNext(p.t, p.c), c |-> FatNext(p.t, p.c).ax]
CutTurns(g, f, c, n) ==
    g = [k \in 0 .. n |-> IF k = 0 THEN [t |-> f, c |-> c] ELSE CutNext(g[k - 1])]
CutStates == [t : Tables, c : Entry]
CutState(f, p) == p \in CutStates /\ Kept(f, p.t)

LEMMA KeptSelf == ASSUME NEW f \in Tables PROVE Kept(f, f)
BY TableHas DEF Kept, Onwards

LEMMA CutStateIs ==
  ASSUME NEW f, NEW t, Kept(f, t), NEW c \in Entry, NEW p, p = [t |-> t, c |-> c]
  PROVE  CutState(f, p) /\ p.t = t /\ p.c = c
BY DEF CutState, CutStates, Kept

LEMMA CutNextIs ==
  ASSUME NEW f \in Tables, NEW p, CutState(f, p)
  PROVE  CutState(f, CutNext(p))
<1>1. CASE p.c \in Clusters
  <2>1. p.t \in Tables /\ Kept(f, p.t)
    BY DEF CutState, Kept
  <2>2. PICK t : t = FatNext(p.t, p.c)
    OBVIOUS
  <2>3. Kept(p.t, t) /\ t.ax \in Entry
    BY <1>1, <2>1, <2>2, FatNextIs
  <2>4. Kept(f, t)
    BY <2>1, <2>3, KeptMore
  <2>5. PICK q : q = [t |-> t, c |-> t.ax]
    OBVIOUS
  <2>6. CutNext(p) = q
    BY <1>1, <2>2, <2>5 DEF CutNext
  <2> QED BY <2>3, <2>4, <2>5, <2>6, CutStateIs
<1>2. CASE p.c \notin Clusters
  BY <1>2 DEF CutNext
<1> QED BY <1>1, <1>2

LEMMA CutTypes ==
  ASSUME NEW f \in Tables, NEW c \in Entry, NEW n \in Nat, NEW g, CutTurns(g, f, c, n)
  PROVE  \A k \in 0 .. n : CutState(f, g[k])
<1> DEFINE I == {k \in 0 .. n : CutState(f, g[k])}
<1>1. 0 \in I
  <2>1. g[0] = [t |-> f, c |-> c]
    BY DEF CutTurns
  <2> QED BY <2>1, KeptSelf, CutStateIs
<1>2. ASSUME NEW k \in 0 + 1 .. n, k - 1 \in I PROVE k \in I
  <2>1. k \in 0 .. n /\ k # 0 /\ k - 1 \in 0 .. n
    OBVIOUS
  <2>2. g[k] = CutNext(g[k - 1])
    BY <2>1 DEF CutTurns
  <2>3. CutState(f, g[k - 1])
    BY <1>2
  <2> QED BY <2>1, <2>2, <2>3, CutNextIs
<1> HIDE DEF I
<1>3. \A k \in 0 .. n : k \in I
  BY <1>1, <1>2, Upwards
<1> QED BY <1>3 DEF I

LEMMA CutTurnsExist ==
  ASSUME NEW f \in Tables, NEW c \in Entry, NEW n \in Nat
  PROVE  \E g : CutTurns(g, f, c, n)
<1>0. PICK b : b = [t |-> f, c |-> c]
  OBVIOUS
<1> DEFINE P == {p \in CutStates : CutState(f, p)}
           X == (0 .. n) \X P
           S == [p \in P \X (1 .. n) |-> CutNext(p[1])]
<1>1. <<0, b>> \in X
  <2>1. CutState(f, b)
    BY <1>0, KeptSelf, CutStateIs
  <2> QED BY <2>1 DEF CutState
<1>2. ASSUME NEW k \in 0 + 1 .. n, NEW x, <<k - 1, x>> \in X
      PROVE  S[<<x, k>>] = CutNext(x) /\ <<k, CutNext(x)>> \in X
  <2>1. x \in P /\ k \in 0 .. n /\ k \in 1 .. n
    BY <1>2
  <2>2. CutState(f, CutNext(x))
    BY <2>1, CutNextIs
  <2>3. CutNext(x) \in P
    BY <2>2 DEF CutState
  <2> QED BY <2>1, <2>3
<1> HIDE DEF X, S, P
<1>3. PICK g : Turns(g, X, 0, n, b, S)
  <2>1. \A k \in 0 + 1 .. n : \A x : <<k - 1, x>> \in X => <<k, S[<<x, k>>]>> \in X
    BY <1>2
  <2>2. 0 \in Nat /\ 0 <= n
    OBVIOUS
  <2> QED BY ONLY <1>1, <2>1, <2>2, n \in Nat, TurnsExist
<1>4. CutTurns(g, f, c, n)
  <2>1. ASSUME NEW j \in 0 .. n, j # 0 PROVE g[j] = CutNext(g[j - 1])
    <3>1. j \in 0 + 1 .. n /\ j - 1 \in 0 .. n
      BY <2>1
    <3>2. <<j - 1, g[j - 1]>> \in X /\ g[j] = S[<<g[j - 1], j>>]
      BY <1>3, <3>1 DEF Turns
    <3> QED BY <1>2, <3>1, <3>2
  <2>2. g = [j \in 0 .. n |-> g[j]] /\ g[0] = b
    BY <1>3 DEF Turns
  <2>3. g = [j \in 0 .. n |-> IF j = 0 THEN b ELSE CutNext(g[j - 1])]
    BY <2>1, <2>2
  <2> QED BY <1>0, <2>3 DEF CutTurns
<1> QED BY <1>4

(* What a cut does where its walk ends: p is the walk's last state.        *)
CutAt(v, p) ==
    IF p.c \notin Clusters THEN [v EXCEPT !.fat = p.t]
    ELSE IF FatNext(p.t, p.c).ax \notin Clusters THEN [v EXCEPT !.fat = FatNext(p.t, p.c)]
    ELSE Free([v EXCEPT !.fat = Unlink(FatNext(p.t, p.c), p.c)], FatNext(p.t, p.c).ax)
CutEnd(v, h) == IF v.hs[h].first \in Clusters THEN CacheStore(v, h, 0, v.hs[h].first) ELSE v

LEMMA CutChainTurns ==
  ASSUME NEW v \in Vols, NEW h \in Handles, NEW n, NEW k \in Nat, k = (n - 1) \div ClusterUnits
  PROVE  \E g : CutTurns(g, v.fat, v.hs[h].first, k)
                /\ CutChain(v, h, n) = IF v.hs[h].first \in Clusters
                                       THEN CacheStore(InvalidateAll(CutAt(v, g[k])), h, 0, v.hs[h].first)
                                       ELSE InvalidateAll(CutAt(v, g[k]))
<1>1. v.fat \in Tables /\ v.hs[h].first \in Entry
  BY VolHas, HandleHas, KnownAre
<1> DEFINE g == CHOOSE z : CutTurns(z, v.fat, v.hs[h].first, k)
<1>2. CutTurns(g, v.fat, v.hs[h].first, k)
  BY <1>1, CutTurnsExist
<1>3. CutChain(v, h, n) = IF v.hs[h].first \in Clusters
                          THEN CacheStore(InvalidateAll(CutAt(v, g[k])), h, 0, v.hs[h].first)
                          ELSE InvalidateAll(CutAt(v, g[k]))
  BY DEF CutChain, CutAt, CutTurns, CutNext
<1> QED BY <1>2, <1>3

(* The files that a cut leaves. *)
SameFiles(v, u) ==
    /\ u \in Vols /\ u.root = v.root /\ u.disk = v.disk
    /\ \A h \in Handles :
          /\ u.hs[h].file = v.hs[h].file /\ u.hs[h].write = v.hs[h].write
          /\ u.hs[h].first = v.hs[h].first /\ u.hs[h].size = v.hs[h].size
          /\ u.hs[h].pos = v.hs[h].pos /\ u.hs[h].dirty = v.hs[h].dirty

LEMMA ForgottenIs ==
  ASSUME NEW v \in Vols, NEW u, Forgotten(v, u)
  PROVE  SameFiles(v, u)
<1> SUFFICES ASSUME NEW h \in Handles
             PROVE  /\ u.hs[h].file = v.hs[h].file /\ u.hs[h].write = v.hs[h].write
                    /\ u.hs[h].first = v.hs[h].first /\ u.hs[h].size = v.hs[h].size
                    /\ u.hs[h].pos = v.hs[h].pos /\ u.hs[h].dirty = v.hs[h].dirty
  BY DEF SameFiles, Forgotten
<1>1. PICK o \in KnownHandle : o = v.hs[h]
  BY VolHas
<1>2. u.hs[h] = Located(o, 0, FREE)
  BY <1>1 DEF Forgotten, Unknown
<1> QED BY <1>1, <1>2, LocatedIs, KnownAre

LEMMA StoredFiles ==
  ASSUME NEW v \in Vols, NEW h \in Handles, NEW i \in Nat, NEW c \in Known, NEW u,
         StoredAt(v, u, h, i, c)
  PROVE  SameFiles(v, u)
<1>1. PICK o \in KnownHandle : o = v.hs[h]
  BY VolHas
<1>2. u.hs[h] = Located(o, i, c)
  BY <1>1 DEF StoredAt
<1>3. /\ u.hs[h].file = v.hs[h].file /\ u.hs[h].write = v.hs[h].write
      /\ u.hs[h].first = v.hs[h].first /\ u.hs[h].size = v.hs[h].size
      /\ u.hs[h].pos = v.hs[h].pos /\ u.hs[h].dirty = v.hs[h].dirty
  BY <1>1, <1>2, LocatedIs
<1> QED BY <1>3 DEF SameFiles, StoredAt

LEMMA SameFilesMore ==
  ASSUME NEW v, NEW u, NEW x, SameFiles(v, u), SameFiles(u, x)
  PROVE  SameFiles(v, x)
BY DEF SameFiles

LEMMA OtherTable ==
  ASSUME NEW v \in Vols, NEW t \in Tables
  PROVE  SameFiles(v, WithFat(v, t)) /\ WithFat(v, t) \in Vols
BY WithFatIs DEF SameFiles

LEMMA CutAtIs ==
  ASSUME NEW v \in Vols, NEW p, CutState(v.fat, p)
  PROVE  SameFiles(v, CutAt(v, p))
<1>1. p.t \in Tables /\ p.c \in Entry
  BY DEF CutState, CutStates
<1>2. CASE p.c \notin Clusters
  BY <1>1, <1>2, OtherTable DEF CutAt, WithFat
<1>3. CASE p.c \in Clusters
  <2>1. PICK t : t = FatNext(p.t, p.c)
    OBVIOUS
  <2>2. t \in Tables /\ t.ax \in Entry
    BY <1>1, <1>3, <2>1, FatNextIs DEF Kept
  <2>3. CASE t.ax \notin Clusters
    <3>1. CutAt(v, p) = WithFat(v, t)
      BY <1>3, <2>1, <2>3 DEF CutAt, WithFat
    <3> QED BY <2>2, <3>1, OtherTable
  <2>4. CASE t.ax \in Clusters
    <3>1. PICK y : y = Unlink(t, p.c)
      OBVIOUS
    <3>2. y \in Tables
      BY <1>3, <2>2, <3>1, FatSetIs, ClustersAre DEF Unlink, Stored
    <3>3. PICK x : x = WithFat(v, y)
      OBVIOUS
    <3>4. SameFiles(v, x) /\ x \in Vols
      BY <3>2, <3>3, OtherTable
    <3>5. Forgotten(x, Free(x, t.ax))
      BY <2>2, <3>4, FreeIs
    <3>6. CutAt(v, p) = Free(x, t.ax)
      BY <1>3, <2>1, <2>4, <3>1, <3>3 DEF CutAt, WithFat
    <3> QED BY <3>4, <3>5, <3>6, ForgottenIs, SameFilesMore
  <2> QED BY <2>3, <2>4
<1> QED BY <1>2, <1>3

(* cut_chain, whichever transfers fail. *)
LEMMA CutChainIs ==
  ASSUME NEW v \in Vols, NEW h \in Handles, NEW n \in Nat, n > 0
  PROVE  SameFiles(v, CutChain(v, h, n)) /\ CutChain(v, h, n) \in Vols
<1>1. PICK k \in Nat : k = (n - 1) \div ClusterUnits
  BY IndexIs
<1>2. PICK f \in Known : f = v.hs[h].first
  BY VolHas, HandleHas
<1>3. PICK g : CutTurns(g, v.fat, f, k)
               /\ CutChain(v, h, n) = IF f \in Clusters
                                      THEN CacheStore(InvalidateAll(CutAt(v, g[k])), h, 0, f)
                                      ELSE InvalidateAll(CutAt(v, g[k]))
  BY <1>1, <1>2, CutChainTurns
<1>4. CutState(v.fat, g[k])
  <2>1. v.fat \in Tables /\ f \in Entry /\ k \in 0 .. k
    BY VolHas, KnownAre
  <2> QED BY <1>3, <2>1, CutTypes
<1>5. PICK x : x = CutAt(v, g[k])
  OBVIOUS
<1>6. SameFiles(v, x) /\ x \in Vols
  BY <1>4, <1>5, CutAtIs DEF SameFiles
<1>7. PICK y : y = InvalidateAll(x)
  OBVIOUS
<1>8. SameFiles(v, y) /\ y \in Vols
  <2>1. Forgotten(x, y)
    BY <1>6, <1>7, InvalidateAllIs
  <2>2. SameFiles(v, y)
    BY <1>6, <2>1, ForgottenIs, SameFilesMore
  <2> QED BY <2>2 DEF SameFiles
<1>9. CASE f \in Clusters
  <2>1. PICK u : u = CacheStore(y, h, 0, f)
    OBVIOUS
  <2>2. StoredAt(y, u, h, 0, f)
    BY <1>8, <2>1, CacheStoreIs
  <2>3. SameFiles(v, u)
    BY <1>8, <2>2, StoredFiles, SameFilesMore
  <2> QED BY <1>3, <1>5, <1>7, <1>9, <2>1, <2>3 DEF SameFiles
<1>10. CASE f \notin Clusters
  BY <1>3, <1>5, <1>7, <1>8, <1>10
<1> QED BY <1>9, <1>10

-----------------------------------------------------------------------------
(* The directory and what a save writes *)

PutEntry(v, f, e) == [v EXCEPT !.root[f] = e]
OnlyRoot(v, u, f, e) ==
    /\ u \in Vols /\ u.fat = v.fat /\ u.slots = v.slots /\ u.hs = v.hs /\ u.disk = v.disk
    /\ u.root = [v.root EXCEPT ![f] = e] /\ u.root[f] = e
    /\ \A g \in Files : g # f => u.root[g] = v.root[g]

LEMMA PutEntryIs ==
  ASSUME NEW v \in Vols, NEW f \in Files, NEW e \in KnownEntry \cup {NONE}
  PROVE  OnlyRoot(v, PutEntry(v, f, e), f, e)
<1>1. v.root \in Entries
  BY VolHas
<1>2. PICK R : R = [v.root EXCEPT ![f] = e]
  OBVIOUS
<1>3. R \in Entries /\ R[f] = e /\ \A g \in Files : g # f => R[g] = v.root[g]
  BY <1>1, <1>2 DEF Entries
<1>4. PICK u : u = WithRoot(v, R)
  OBVIOUS
<1>5. /\ u \in Vols /\ u.root = R
      /\ u.fat = v.fat /\ u.slots = v.slots /\ u.hs = v.hs /\ u.disk = v.disk
  BY <1>3, <1>4, WithRootIs
<1>6. PutEntry(v, f, e) = u
  BY <1>2, <1>4 DEF PutEntry, WithRoot, Vols
<1> QED BY <1>2, <1>3, <1>5, <1>6 DEF OnlyRoot

LEMMA FlushDirIs ==
  ASSUME NEW v \in Vols
  PROVE  LET u == FlushDir(v) IN
         /\ u \in Vols /\ u.slots = v.slots /\ u.hs = v.hs /\ u.root = v.root
         /\ u.fat = Io(v.fat)
         /\ u.disk = IF u.fat.cf THEN v.disk ELSE v.root
<1>1. PICK t : t = Io(v.fat)
  OBVIOUS
<1>2. t \in Tables
  BY <1>1, VolHas, IoIs
<1>3. PICK D : D = IF t.cf THEN v.disk ELSE v.root
  OBVIOUS
<1>4. D \in Entries
  BY <1>3, VolHas
<1>5. PICK x : x = WithFat(v, t)
  OBVIOUS
<1>6. /\ x \in Vols /\ x.fat = t
      /\ x.slots = v.slots /\ x.hs = v.hs /\ x.root = v.root /\ x.disk = v.disk
  BY <1>2, <1>5, WithFatIs
<1>7. PICK u : u = WithDisk(x, D)
  OBVIOUS
<1>8. /\ u \in Vols /\ u.disk = D
      /\ u.fat = x.fat /\ u.slots = x.slots /\ u.hs = x.hs /\ u.root = x.root
  BY <1>4, <1>6, <1>7, WithDiskIs
<1>9. FlushDir(v) = u
  <2>1. v = [fat |-> v.fat, slots |-> v.slots, hs |-> v.hs, root |-> v.root, disk |-> v.disk]
    BY DEF Vols
  <2>2. PICK y : y = [v EXCEPT !.fat = t, !.disk = D]
    OBVIOUS
  <2>3. FlushDir(v) = y
    BY <1>1, <1>3, <2>2 DEF FlushDir
  <2>4. y = u
    BY <1>5, <1>7, <2>1, <2>2 DEF WithFat, WithDisk
  <2> QED BY <2>3, <2>4
<1> QED BY <1>1, <1>3, <1>6, <1>8, <1>9

LEMMA FlushTableIs ==
  ASSUME NEW v \in Vols
  PROVE  LET u == FlushTable(v) IN
         /\ u \in Vols /\ u.slots = v.slots /\ u.hs = v.hs /\ u.root = v.root /\ u.disk = v.disk
         /\ u.fat = FlushFat(v.fat)
<1>1. FlushFat(v.fat) \in Tables
  BY VolHas, FlushFatIs
<1>2. PICK u : u = WithFat(v, FlushFat(v.fat))
  OBVIOUS
<1>3. FlushTable(v) = u
  BY <1>2 DEF FlushTable, WithFat
<1> QED BY <1>1, <1>2, <1>3, WithFatIs

Cleaned(o) == [o EXCEPT !.dirty = FALSE]

LEMMA CleanedIs ==
  ASSUME NEW o \in KnownHandle, NEW p, p = Cleaned(o)
  PROVE  /\ p \in KnownHandle /\ ~p.dirty
         /\ p.file = o.file /\ p.write = o.write /\ p.first = o.first /\ p.size = o.size
         /\ p.pos = o.pos /\ p.lastIndex = o.lastIndex /\ p.lastCluster = o.lastCluster
BY DEF KnownHandle, Cleaned

SetClean(v, h) == [v EXCEPT !.hs[h].dirty = FALSE]

LEMMA SetCleanIs ==
  ASSUME NEW v \in Vols, NEW h \in Handles
  PROVE  OnlyHandle(v, SetClean(v, h), h, Cleaned(v.hs[h]))
<1>1. PICK p \in KnownHandle : p = Cleaned(v.hs[h])
  BY VolHas, CleanedIs
<1>2. PICK H : H = [v.hs EXCEPT ![h] = p]
  OBVIOUS
<1>3. SetClean(v, h) = WithHandles(v, H)
  <2>1. v.hs \in OpenHandles
    BY VolHas
  <2> QED BY <1>1, <1>2, <2>1 DEF SetClean, WithHandles, Cleaned, OpenHandles
<1> QED BY <1>1, <1>2, <1>3, OnlyHandleIs

EntryOf(o) == [first |-> o.first, size |-> o.size]

(* What a save may leave. *)
Saved(v, u, h) ==
    LET o == v.hs[h] IN
    /\ u \in Vols /\ u.slots = v.slots /\ View(u.fat) = View(v.fat) /\ u.fat.cf \in BOOLEAN
    /\ u.fat.fails = v.fat.fails
    /\ u.root = v.root \/ (o.dirty /\ u.root = [v.root EXCEPT ![o.file] = EntryOf(o)])
    /\ \A g \in Handles : g # h => u.hs[g] = v.hs[g]
    /\ u.hs[h] = o \/ (u.hs[h] = Cleaned(o) /\ (o.dirty => u.root = [v.root EXCEPT ![o.file] = EntryOf(o)]))
    /\ v.fat.fails = {} /\ ~v.fat.ioerr => ~u.fat.cf /\ ~u.fat.ioerr
    /\ ~u.fat.cf =>
          /\ u.hs[h] = Cleaned(o)
          /\ o.dirty => u.disk[o.file] = EntryOf(o)
          /\ \A i \in 1 .. knum_fats : u.fat.copies[i] = View(v.fat)

LEMMA EntryOfIs ==
  ASSUME NEW o \in KnownHandle
  PROVE  EntryOf(o) \in KnownEntry /\ EntryOf(o) \in KnownEntry \cup {NONE}
BY HandleHas DEF EntryOf, KnownEntry

LEMMA SaveSteps ==
  ASSUME NEW v, NEW h
  PROVE  LET d == WithFat(v, Io(v.fat))
             e == FlushDir(PutEntry(d, v.hs[h].file, EntryOf(v.hs[h])))
             s == IF v.hs[h].dirty THEN e ELSE d
         IN  Save(v, h) = IF d.fat.cf THEN d ELSE IF s.fat.cf THEN s ELSE FlushTable(SetClean(s, h))
BY DEF Save, WithFat, PutEntry, EntryOf, SetClean

LEMMA SaveIs ==
  ASSUME NEW v \in Vols, NEW h \in Handles, v.hs[h].file \in Files
  PROVE  Saved(v, Save(v, h), h)
<1>1. PICK o \in KnownHandle : o = v.hs[h]
  BY VolHas
<1>2. PICK f \in Files : f = o.file
  BY <1>1
<1>3. PICK t : t = Io(v.fat)
  OBVIOUS
<1>4. /\ t \in Tables /\ View(t) = View(v.fat) /\ t.ioerr = v.fat.ioerr /\ t.fails = v.fat.fails
      /\ (t.fails = {} => ~t.cf) /\ t.cf \in BOOLEAN
  BY <1>3, VolHas, IoIs, TableHas
<1>5. PICK d : d = WithFat(v, t)
  OBVIOUS
<1>6. /\ d \in Vols /\ d.fat = t
      /\ d.slots = v.slots /\ d.hs = v.hs /\ d.root = v.root /\ d.disk = v.disk
  BY <1>4, <1>5, WithFatIs
<1>7. PICK r : r = PutEntry(d, f, EntryOf(o))
  OBVIOUS
<1>8. OnlyRoot(d, r, f, EntryOf(o)) /\ r \in Vols
  BY <1>6, <1>7, EntryOfIs, PutEntryIs DEF OnlyRoot
<1>9. PICK e : e = FlushDir(r)
  OBVIOUS
<1>10. /\ e \in Vols /\ e.slots = v.slots /\ e.hs = v.hs /\ e.fat = Io(t)
       /\ e.root = [v.root EXCEPT ![f] = EntryOf(o)]
       /\ ~e.fat.cf => e.disk = e.root /\ e.disk[f] = EntryOf(o)
  <2>1. /\ e \in Vols /\ e.slots = r.slots /\ e.hs = r.hs /\ e.root = r.root
        /\ e.fat = Io(r.fat)
        /\ e.disk = IF e.fat.cf THEN r.disk ELSE r.root
    BY <1>8, <1>9, FlushDirIs
  <2> QED BY <1>6, <1>8, <2>1 DEF OnlyRoot
<1>11. PICK s : s = IF o.dirty THEN e ELSE d
  OBVIOUS
<1>12. /\ s \in Vols /\ s.slots = v.slots /\ s.hs = v.hs /\ View(s.fat) = View(v.fat)
       /\ s.fat.ioerr = v.fat.ioerr /\ s.fat.fails = v.fat.fails /\ s.fat.cf \in BOOLEAN
       /\ s.root = v.root \/ (o.dirty /\ s.root = [v.root EXCEPT ![f] = EntryOf(o)])
       /\ o.dirty => s.root = [v.root EXCEPT ![f] = EntryOf(o)]
       /\ o.dirty /\ ~s.fat.cf => s.disk[f] = EntryOf(o)
       /\ (v.fat.fails = {} /\ ~t.cf) => ~s.fat.cf
  <2>1. CASE o.dirty
    <3>1. s = e
      BY <1>11, <2>1
    <3>2. /\ View(e.fat) = View(v.fat) /\ e.fat.ioerr = v.fat.ioerr /\ e.fat.fails = v.fat.fails
          /\ e.fat.cf \in BOOLEAN /\ (t.fails = {} => ~e.fat.cf)
      BY <1>4, <1>10, IoIs, TableHas
    <3> QED BY <1>4, <1>10, <2>1, <3>1, <3>2
  <2>2. CASE ~o.dirty
    <3>1. s = d
      BY <1>11, <2>2
    <3> QED BY <1>4, <1>6, <2>2, <3>1
  <2> QED BY <2>1, <2>2
<1>13. PICK x : x = SetClean(s, h)
  OBVIOUS
<1>14. OnlyHandle(s, x, h, Cleaned(o)) /\ x \in Vols
  BY <1>1, <1>12, <1>13, SetCleanIs DEF OnlyHandle
<1>15. PICK y : y = FlushTable(x)
  OBVIOUS
<1>16. /\ y \in Vols /\ y.slots = x.slots /\ y.hs = x.hs /\ y.root = x.root /\ y.disk = x.disk
       /\ y.fat = FlushFat(x.fat)
  BY <1>14, <1>15, FlushTableIs
<1>17. Save(v, h) = IF t.cf THEN d ELSE IF s.fat.cf THEN s ELSE y
  BY <1>1, <1>2, <1>3, <1>5, <1>6, <1>7, <1>9, <1>11, <1>13, <1>15, SaveSteps
<1>18. CASE t.cf
  <2>1. Save(v, h) = d
    BY <1>17, <1>18
  <2> QED BY <1>1, <1>4, <1>6, <1>18, <2>1 DEF Saved
<1>19. CASE ~t.cf /\ s.fat.cf
  <2>1. Save(v, h) = s
    BY <1>17, <1>19
  <2> QED BY <1>1, <1>2, <1>4, <1>12, <1>19, <2>1 DEF Saved
<1>20. CASE ~t.cf /\ ~s.fat.cf
  <2>1. Save(v, h) = y
    BY <1>17, <1>20
  <2>2. PICK z \in Tables : z = s.fat /\ z = x.fat
    BY <1>12, <1>14, VolHas DEF OnlyHandle
  <2>3. /\ View(y.fat) = View(v.fat) /\ y.fat.cf \in BOOLEAN /\ ~y.fat.ioerr
        /\ y.fat.fails = v.fat.fails
        /\ ~y.fat.cf => \A i \in 1 .. knum_fats : y.fat.copies[i] = View(v.fat)
        /\ (z.fails = {} /\ ~z.ioerr) => ~y.fat.cf
    BY <1>12, <1>16, <2>2, FlushFatIs
  <2>4. /\ y.slots = v.slots /\ y.root = s.root /\ y.disk = s.disk
        /\ y.hs[h] = Cleaned(o) /\ \A g \in Handles : g # h => y.hs[g] = v.hs[g]
    BY <1>12, <1>14, <1>16 DEF OnlyHandle
  <2> QED BY <1>1, <1>2, <1>12, <1>16, <1>20, <2>1, <2>2, <2>3, <2>4 DEF Saved
<1> QED BY <1>4, <1>12, <1>18, <1>19, <1>20

-----------------------------------------------------------------------------
(* The volume between two calls *)

Here == [fat |-> fat, slots |-> slots, hs |-> hs, root |-> root, disk |-> disk]
Sitting == Here \in Vols /\ answer \in {"ok", "full", "error"}

LEMMA HereIs ==
  /\ Here.fat = fat /\ Here.slots = slots /\ Here.hs = hs /\ Here.root = root /\ Here.disk = disk
  /\ Here \in Vols <=> /\ fat \in Tables /\ slots \in Slots /\ hs \in OpenHandles
                       /\ root \in Entries /\ disk \in Entries
BY DEF Here, Vols

LEMMA BeginIs ==
  ASSUME NEW t \in Tables, NEW F \in SUBSET Nat
  PROVE  LET u == Begin(t, F) IN
         u \in Tables /\ SameTable(t, u) /\ View(u) = View(t) /\ u.ioerr = t.ioerr /\ u.fails = F
<1>1. PICK u : u = Registers(t, t.ax, t.cf, t.ios, t.ioerr, F)
  OBVIOUS
<1>2. /\ t \in Table /\ t.ax \in Entry /\ t.cf \in BOOLEAN /\ t.ios \in Nat /\ t.ioerr \in BOOLEAN
  BY TableHas
<1>3. Begin(t, F) = u
  BY <1>1, <1>2 DEF Begin, Registers, Table
<1> QED BY <1>1, <1>2, <1>3, RegistersKeep

LEMMA EndIs ==
  ASSUME NEW t \in Tables
  PROVE  LET u == End(t) IN
         u \in Tables /\ SameTable(t, u) /\ View(u) = View(t) /\ u.ioerr = t.ioerr
<1>1. PICK f \in BOOLEAN : f = FALSE
  OBVIOUS
<1>2. PICK F \in SUBSET Nat : F = {}
  OBVIOUS
<1>3. PICK n \in Nat : n = 0
  OBVIOUS
<1>4. PICK u : u = Registers(t, FREE, f, n, t.ioerr, F)
  OBVIOUS
<1>5. t \in Table /\ t.ioerr \in BOOLEAN /\ FREE \in Entry
  BY TableHas, ClustersAre
<1>6. End(t) = u
  <2>1. End(t) = [t EXCEPT !.ax = FREE, !.cf = f, !.ios = n, !.fails = F]
    BY <1>1, <1>2, <1>3 DEF End
  <2> QED BY <1>4, <1>5, <2>1 DEF Registers, Table
<1> QED BY <1>4, <1>5, <1>6, RegistersKeep

LEMMA FailSetsAre == \A F \in FailSets : F \in SUBSET Nat
BY Constants DEF FailSets

LEMMA StartIs ==
  ASSUME Sitting, NEW F \in SUBSET Nat
  PROVE  LET v == Start(F) IN
         /\ v \in Vols /\ v.slots = slots /\ v.hs = hs /\ v.root = root /\ v.disk = disk
         /\ v.fat = Begin(fat, F) /\ v.fat.fails = F /\ v.fat.ioerr = fat.ioerr
         /\ View(v.fat) = View(fat)
<1>1. /\ fat \in Tables /\ slots \in Slots /\ hs \in OpenHandles
      /\ root \in Entries /\ disk \in Entries
  BY HereIs DEF Sitting
<1>2. PICK t \in Tables : t = Begin(fat, F) /\ t.fails = F /\ t.ioerr = fat.ioerr /\ View(t) = View(fat)
  BY <1>1, BeginIs
<1>3. Start(F) = [fat |-> t, slots |-> slots, hs |-> hs, root |-> root, disk |-> disk]
  BY <1>2 DEF Start
<1> QED BY <1>1, <1>2, <1>3 DEF Vols

LEMMA FinishIs ==
  ASSUME NEW v \in Vols, NEW a \in {"ok", "full", "error"}, Finish(v, a)
  PROVE  /\ Sitting' /\ answer' = a
         /\ fat' = End(v.fat) /\ View(fat') = View(v.fat) /\ fat'.ioerr = v.fat.ioerr
         /\ fat'.copies = v.fat.copies
         /\ slots' = v.slots /\ hs' = v.hs /\ root' = v.root /\ disk' = v.disk
<1>1. PICK t \in Tables : t = End(v.fat) /\ SameTable(v.fat, t) /\ View(t) = View(v.fat)
                          /\ t.ioerr = v.fat.ioerr
  BY VolHas, EndIs
<1>2. /\ fat' = t /\ slots' = v.slots /\ hs' = v.hs /\ root' = v.root /\ disk' = v.disk
      /\ answer' = a
  BY <1>1 DEF Finish
<1>3. Here' \in Vols
  <2>1. Here' = [fat |-> t, slots |-> v.slots, hs |-> v.hs, root |-> v.root, disk |-> v.disk]
    BY <1>2 DEF Here
  <2>2. /\ v.slots \in Slots /\ v.hs \in OpenHandles /\ v.root \in Entries /\ v.disk \in Entries
    BY VolHas
  <2> QED BY <2>1, <2>2 DEF Vols
<1> QED BY <1>1, <1>2, <1>3 DEF Sitting, SameTable

-----------------------------------------------------------------------------
(* Every call, whichever transfers fail *)

NewHandle(f, write, first, size) ==
    [Closed EXCEPT !.file = f, !.write = write, !.first = first, !.size = size]
NewFile(f) == [Closed EXCEPT !.file = f, !.write = TRUE]

LEMMA NewHandleIs ==
  ASSUME NEW f \in Files, NEW write \in BOOLEAN, NEW first \in Known, NEW size \in Sizes, NEW o,
         o = NewHandle(f, write, first, size)
  PROVE  /\ o \in KnownHandle /\ o.file = f /\ o.write = write /\ o.first = first /\ o.size = size
         /\ o.pos = 0 /\ ~o.dirty /\ o.lastIndex = 0 /\ o.lastCluster = FREE
<1>1. 0 \in Sizes /\ FREE \in Known
  BY Constants, KnownAre DEF Sizes
<1> QED BY <1>1 DEF NewHandle, Closed, KnownHandle

LEMMA NewFileIs ==
  ASSUME NEW f \in Files, NEW o, o = NewFile(f)
  PROVE  /\ o \in KnownHandle /\ o.file = f /\ o.write /\ o.first = FREE /\ o.size = 0
         /\ o.pos = 0 /\ ~o.dirty /\ o.lastIndex = 0 /\ o.lastCluster = FREE
<1>1. 0 \in Sizes /\ FREE \in Known
  BY Constants, KnownAre DEF Sizes
<1> QED BY <1>1 DEF NewFile, Closed, KnownHandle

LEMMA ClosedIs == Closed \in KnownHandle
<1>1. 0 \in Sizes /\ FREE \in Known
  BY Constants, KnownAre DEF Sizes
<1> QED BY <1>1 DEF Closed, KnownHandle

PutHandle(v, h, o) == [v EXCEPT !.hs[h] = o]

LEMMA PutHandleIs ==
  ASSUME NEW v \in Vols, NEW h \in Handles, NEW o \in KnownHandle
  PROVE  OnlyHandle(v, PutHandle(v, h, o), h, o) /\ PutHandle(v, h, o) \in Vols
<1>1. PICK H : H = [v.hs EXCEPT ![h] = o]
  OBVIOUS
<1>2. PutHandle(v, h, o) = WithHandles(v, H)
  BY <1>1 DEF PutHandle, WithHandles
<1> QED BY <1>1, <1>2, OnlyHandleIs DEF OnlyHandle

LEMMA NoneIsNoEntry ==
  ASSUME Sitting, NEW f \in Files, root[f] # NONE
  PROVE  root[f] \in KnownEntry /\ root[f].first \in Known /\ root[f].first \in Entry
         /\ root[f].size \in Sizes
<1>1. root \in Entries
  BY HereIs DEF Sitting
<1>2. root[f] \in KnownEntry
  BY <1>1 DEF Entries
<1> QED BY <1>2, KnownAre DEF KnownEntry

LEMMA HandlesAre ==
  ASSUME Sitting
  PROVE  /\ \A h \in Handles : hs[h] \in KnownHandle
         /\ \A h \in Handles : hs[h].file # NONE => hs[h].file \in Files
<1>1. \A h \in Handles : hs[h] \in KnownHandle
  BY HereIs DEF Sitting, OpenHandles
<1> QED BY <1>1, HandleHas

BareEntry == [first |-> FREE, size |-> 0]
LEMMA BareEntryIs == BareEntry \in KnownEntry /\ BareEntry \in KnownEntry \cup {NONE}
<1>1. 0 \in Sizes /\ FREE \in Known
  BY Constants, KnownAre DEF Sizes
<1> QED BY <1>1 DEF BareEntry, KnownEntry

(* AH=3Ch *)
LEMMA CreateIs ==
  ASSUME Sitting, NEW f \in Files, NEW h \in Handles, NEW F \in FailSets, Create(f, h, F)
  PROVE  Sitting'
<1>1. PICK v \in Vols : v = Start(F)
  BY FailSetsAre, StartIs
<1>2. PICK a : a = IF root[f] = NONE THEN v ELSE FlushTable(Free(v, root[f].first))
  OBVIOUS
<1>3. a \in Vols
  <2>1. CASE root[f] = NONE
    BY <1>1, <1>2, <2>1
  <2>2. CASE root[f] # NONE
    <3>1. Free(v, root[f].first) \in Vols
      BY <1>1, <2>2, NoneIsNoEntry, FreeIs DEF Forgotten
    <3> QED BY <1>2, <2>2, <3>1, FlushTableIs
  <2> QED BY <2>1, <2>2
<1>4. PICK r \in Vols : r = PutEntry(a, f, BareEntry)
  BY <1>3, PutEntryIs, BareEntryIs DEF OnlyRoot
<1>5. PICK b \in Vols : b = FlushDir(r)
  BY <1>4, FlushDirIs
<1>6. PICK u \in Vols : u = PutHandle(b, h, NewFile(f))
  BY <1>5, NewFileIs, PutHandleIs
<1>7. \/ Finish(a, "error") \/ Finish(b, "error") \/ Finish(u, "ok")
  BY <1>1, <1>2, <1>4, <1>5, <1>6 DEF Create, PutEntry, BareEntry, PutHandle, NewFile
<1> QED BY <1>3, <1>5, <1>6, <1>7, FinishIs

(* AH=3Dh *)
LEMMA OpenIs ==
  ASSUME Sitting, NEW f \in Files, NEW h \in Handles, NEW write \in BOOLEAN, Open(f, h, write)
  PROVE  Sitting'
<1>1. PICK b \in Vols : b = Start({})
  BY StartIs
<1>2. root[f] # NONE
  BY DEF Open
<1>3. PICK e \in KnownEntry : e = root[f] /\ e.first \in Known /\ e.size \in Sizes
  BY <1>2, NoneIsNoEntry
<1>4. PICK o \in KnownHandle : o = NewHandle(f, write, e.first, e.size)
  BY <1>3, NewHandleIs
<1>5. PICK v \in Vols : v = PutHandle(b, h, o)
  BY <1>1, <1>4, PutHandleIs
<1>6. PICK u : u = IF e.first \in Clusters THEN CacheStore(v, h, 0, e.first) ELSE v
  OBVIOUS
<1>7. u \in Vols
  BY <1>3, <1>5, <1>6, CacheStoreIs DEF StoredAt
<1>8. Finish(u, "ok")
  BY <1>1, <1>3, <1>4, <1>5, <1>6 DEF Open, PutHandle, NewHandle
<1> QED BY <1>7, <1>8, FinishIs

(* AH=42h *)
Seeked(o, p) == [o EXCEPT !.pos = p]

LEMMA SeekedIs ==
  ASSUME NEW o \in KnownHandle, NEW n \in Sizes, NEW p, p = Seeked(o, n)
  PROVE  /\ p \in KnownHandle /\ p.pos = n
         /\ p.file = o.file /\ p.write = o.write /\ p.first = o.first /\ p.size = o.size
         /\ p.dirty = o.dirty /\ p.lastIndex = o.lastIndex /\ p.lastCluster = o.lastCluster
BY DEF KnownHandle, Seeked

SetPos(v, h, n) == [v EXCEPT !.hs[h].pos = n]

LEMMA SetPosIs ==
  ASSUME NEW v \in Vols, NEW h \in Handles, NEW n \in Sizes
  PROVE  LET u == SetPos(v, h, n) IN
         u \in Vols /\ OnlyHandle(v, u, h, Seeked(v.hs[h], n))
<1>1. PICK p \in KnownHandle : p = Seeked(v.hs[h], n)
  BY VolHas, SeekedIs
<1>2. PICK H : H = [v.hs EXCEPT ![h] = p]
  OBVIOUS
<1>3. PICK u : u = SetPos(v, h, n)
  OBVIOUS
<1>4. u = WithHandles(v, H)
  <2>1. v.hs \in OpenHandles
    BY VolHas
  <2> QED BY <1>1, <1>2, <1>3, <2>1 DEF SetPos, WithHandles, Seeked, OpenHandles
<1> QED BY <1>1, <1>2, <1>3, <1>4, OnlyHandleIs DEF OnlyHandle

LEMMA SeekIs ==
  ASSUME Sitting, NEW h \in Handles, NEW p \in Sizes, Seek(h, p)
  PROVE  Sitting'
<1>1. PICK b \in Vols : b = Start({})
  BY StartIs
<1>2. PICK v : v = SetPos(b, h, p)
  OBVIOUS
<1>3. v \in Vols
  BY <1>1, <1>2, SetPosIs
<1>4. Finish(v, "ok")
  BY <1>1, <1>2 DEF Seek, SetPos
<1> QED BY <1>3, <1>4, FinishIs

(* AH=3Fh: where it ends, after the walk has left the table t. *)
ReadEnds(v, h, i, t) ==
    LET u == CacheStore(WithFat(v, t), h, i, t.ax)
        d == WithFat(u, Io(u.fat))
    IN  IF t.ax = EOC THEN Finish(WithFat(v, t), "ok")
        ELSE IF t.ax = FREE THEN Finish(WithFat(v, t), "error")
        ELSE IF d.fat.cf THEN Finish(d, "error")
        ELSE Finish([d EXCEPT !.hs[h].pos = @ + 1], "ok")

LEMMA ReadTurnsOf ==
  ASSUME Sitting, NEW h \in Handles, NEW F \in FailSets, Read(h, F)
  PROVE  LET v == Start(F)
             i == hs[h].pos \div ClusterUnits
         IN  \E g : ReadTurns(g, v.fat, i, CacheLookup(v, h, i)) /\ ReadEnds(v, h, i, g[i])
<1> DEFINE v == Start(F)
           i == hs[h].pos \div ClusterUnits
           s == CacheLookup(v, h, i)
           g == CHOOSE z : ReadTurns(z, v.fat, i, s)
<1>1. v \in Vols /\ v.hs = hs
  BY FailSetsAre, StartIs
<1>2. i \in Nat
  BY HandlesAre, HandleHas, KnownAre, IndexIs
<1>3. s.index \in Nat /\ s.index <= i /\ s.cluster \in Entry /\ v.fat \in Tables
  <2> HIDE DEF v, i
  <2> QED BY <1>1, <1>2, CacheLookupIs, VolHas, KnownAre
<1>4. ReadTurns(g, v.fat, i, s)
  <2> HIDE DEF v, i, s
  <2> QED BY <1>2, <1>3, ReadTurnsExist
<1>5. ReadEnds(v, h, i, g[i])
  BY ZenonT(60) DEF Read, ReadEnds, ReadTurns, ReadNext, Answering, WithFat
<1> QED BY <1>4, <1>5

LEMMA ReadIs ==
  ASSUME Sitting, NEW h \in Handles, NEW F \in FailSets, Read(h, F)
  PROVE  Sitting'
<1>1. PICK v \in Vols : v = Start(F) /\ v.hs = hs
  BY FailSetsAre, StartIs
<1>2. PICK i \in Nat : i = hs[h].pos \div ClusterUnits
  BY HandlesAre, HandleHas, KnownAre, IndexIs
<1>3. PICK s : s = CacheLookup(v, h, i)
  OBVIOUS
<1>4. s.index \in Nat /\ s.index <= i /\ s.cluster \in Entry /\ v.fat \in Tables
  BY <1>3, CacheLookupIs, VolHas, KnownAre
<1>5. PICK g : ReadTurns(g, v.fat, i, s) /\ ReadEnds(v, h, i, g[i])
  BY <1>1, <1>2, <1>3, ReadTurnsOf
<1>6. PICK t \in Tables : t = g[i] /\ t.ax \in Entry
  <2>1. ReadState(v.fat, g[i])
    BY <1>4, <1>5, ReadTypes
  <2> QED BY <2>1 DEF ReadState, Kept
<1>7. PICK x \in Vols : x = WithFat(v, t) /\ x.hs = hs
  BY <1>1, WithFatIs
<1>8. CASE t.ax \notin Clusters
  <2>1. Finish(x, "ok") \/ Finish(x, "error")
    BY <1>5, <1>6, <1>7, <1>8, ClustersAre DEF ReadEnds
  <2> QED BY <1>7, <2>1, FinishIs
<1>9. CASE t.ax \in Clusters
  <2>1. PICK u : u = CacheStore(x, h, i, t.ax)
    OBVIOUS
  <2>2. u \in Vols /\ SameFiles(x, u)
    BY <1>7, <1>9, <2>1, KnownAre, CacheStoreIs, StoredFiles DEF StoredAt
  <2>3. Io(u.fat) \in Tables
    BY <2>2, VolHas, IoIs
  <2>4. PICK d \in Vols : d = WithFat(u, Io(u.fat)) /\ d.hs = u.hs
    BY <2>2, <2>3, WithFatIs
  <2>5. PICK y : y = [d EXCEPT !.hs[h].pos = @ + 1]
    OBVIOUS
  <2>6. Finish(d, "error") \/ Finish(y, "ok")
    BY <1>5, <1>6, <1>7, <1>9, <2>1, <2>4, <2>5, ClustersAre DEF ReadEnds
  <2>7. y \in Vols
    <3>1. d.hs[h].pos = hs[h].pos
      BY <1>7, <2>2, <2>4 DEF SameFiles
    <3>2. PICK n \in Sizes : n = d.hs[h].pos + 1
      <4>1. PICK o \in KnownHandle : o = hs[h]
        BY HandlesAre
      <4>2. o.pos < o.size
        BY ZenonT(60), <4>1 DEF Read
      <4>3. o.pos \in 0 .. MaxSize /\ o.size \in 0 .. MaxSize
        BY HandleHas DEF Sizes
      <4>4. o.pos + 1 \in 0 .. MaxSize
        BY <4>2, <4>3, Constants
      <4> QED BY <3>1, <4>1, <4>4 DEF Sizes
    <3>3. y = SetPos(d, h, n)
      BY <2>5, <3>2 DEF SetPos
    <3> QED BY <3>2, <3>3, SetPosIs
  <2> QED BY <2>4, <2>6, <2>7, FinishIs
<1> QED BY <1>8, <1>9

(* AH=40h of some units *)
WriteBegins(F, n) == [v |-> Start(F), c |-> FREE, left |-> n, a |-> "more"]
WriteStarts(b, h) == IF hs[h].pos > hs[h].size THEN GapFill(b, h) ELSE b
Answer(a) == IF a = "more" THEN "ok" ELSE a

LEMMA WriteBeginsIs ==
  ASSUME Sitting, NEW F \in FailSets, NEW n \in Nat
  PROVE  LET b == WriteBegins(F, n) IN
         b \in Writes /\ b.v = Start(F) /\ b.left = n /\ b.a = "more" /\ b.v.hs = hs
<1>1. PICK v \in Vols : v = Start(F) /\ v.hs = hs
  BY FailSetsAre, StartIs
<1>2. PICK b : b = Writing(v, FREE, n, "more")
  OBVIOUS
<1>3. b \in Writes /\ b.v = v /\ b.left = n /\ b.a = "more"
  BY <1>2, ClustersAre, WritingIs DEF Answers
<1>4. WriteBegins(F, n) = b
  BY <1>1, <1>2 DEF WriteBegins, Writing
<1> QED BY <1>1, <1>3, <1>4

LEMMA WriteStartsIs ==
  ASSUME Sitting, NEW b \in Writes, NEW h \in Handles, b.a = "more", b.v.hs = hs
  PROVE  Changing(b, WriteStarts(b, h), h)
<1>1. CASE hs[h].pos > hs[h].size
  BY <1>1, GapFillIs DEF WriteStarts
<1>2. CASE ~(hs[h].pos > hs[h].size)
  BY <1>2 DEF WriteStarts, Changing
<1> QED BY <1>1, <1>2

(* The write's chunks, as the code counts them. *)
LEMMA WriteSteps ==
  ASSUME NEW h, NEW n, NEW F, Write(h, n, F)
  PROVE  LET g == CHOOSE z : z = [k \in 0 .. n |->
                    IF k = 0
                    THEN IF hs[h].pos > hs[h].size THEN GapFill(WriteBegins(F, n), h)
                         ELSE WriteBegins(F, n)
                    ELSE IF z[k - 1].a = "more" /\ z[k - 1].left > 0
                         THEN WriteChunk(z[k - 1], h) ELSE z[k - 1]]
         IN  Finish(g[n].v, Answer(g[n].a))
BY ZenonT(60) DEF Write, WriteBegins, Answer

LEMMA WriteTurnsOf ==
  ASSUME Sitting, NEW h \in Handles, NEW n \in Nat, NEW F \in FailSets, Write(h, n, F)
  PROVE  LET b == WriteBegins(F, n) IN
         \E g : /\ WriteTurns(g, WriteStarts(b, h), h, n)
                /\ Finish(g[n].v, Answer(g[n].a))
<1>1. PICK b \in Writes : b = WriteBegins(F, n) /\ b.left = n /\ b.a = "more" /\ b.v.hs = hs
  BY WriteBeginsIs
<1>2. PICK x : x = WriteStarts(b, h)
  OBVIOUS
<1>3. Changing(b, x, h) /\ b.v.hs[h].pos + b.left <= MaxSize
  BY <1>1, <1>2, WriteStartsIs DEF Write
<1> DEFINE g == CHOOSE z : WriteTurns(z, x, h, n)
<1>4. WriteTurns(g, x, h, n)
  BY <1>3, WriteTurnsExist
<1>5. Finish(g[n].v, Answer(g[n].a))
  <2>1. g = CHOOSE z : z = [k \in 0 .. n |->
                IF k = 0 THEN IF hs[h].pos > hs[h].size THEN GapFill(b, h) ELSE b
                ELSE IF z[k - 1].a = "more" /\ z[k - 1].left > 0 THEN WriteChunk(z[k - 1], h)
                     ELSE z[k - 1]]
    BY <1>2 DEF WriteTurns, WriteNext, WriteStarts
  <2> HIDE DEF g
  <2> QED BY <1>1, <2>1, WriteSteps
<1> QED BY <1>1, <1>2, <1>4, <1>5

LEMMA AnswersAre == \A a \in Answers : Answer(a) \in {"ok", "full", "error"}
BY DEF Answers, Answer

LEMMA WriteIs ==
  ASSUME Sitting, NEW h \in Handles, NEW n \in Nat, NEW F \in FailSets, Write(h, n, F)
  PROVE  Sitting'
<1>1. PICK b \in Writes : b = WriteBegins(F, n) /\ b.left = n /\ b.a = "more" /\ b.v.hs = hs
  BY WriteBeginsIs
<1>2. PICK x : x = WriteStarts(b, h)
  OBVIOUS
<1>3. Changing(b, x, h) /\ b.v.hs[h].pos + b.left <= MaxSize
  BY <1>1, <1>2, WriteStartsIs DEF Write
<1>4. PICK g : WriteTurns(g, x, h, n) /\ Finish(g[n].v, Answer(g[n].a))
  BY <1>1, <1>2, WriteTurnsOf
<1>5. Changing(b, g[n], h)
  <2>1. n \in 0 .. n
    OBVIOUS
  <2> QED BY <1>3, <1>4, <2>1, WriteTypes
<1>6. g[n] \in Writes /\ g[n].v \in Vols /\ Answer(g[n].a) \in {"ok", "full", "error"}
  BY <1>5, WriteHas, AnswersAre DEF Changing
<1> QED BY <1>4, <1>6, FinishIs

(* AH=40h of no units *)
SetFirst(v, h, c) == [v EXCEPT !.hs[h].first = c]
FirstOf(o, c) == [o EXCEPT !.first = c]

LEMMA FirstOfIs ==
  ASSUME NEW o \in KnownHandle, NEW c \in Known, NEW p, p = FirstOf(o, c)
  PROVE  /\ p \in KnownHandle /\ p.first = c
         /\ p.file = o.file /\ p.write = o.write /\ p.size = o.size /\ p.pos = o.pos
         /\ p.dirty = o.dirty /\ p.lastIndex = o.lastIndex /\ p.lastCluster = o.lastCluster
BY DEF KnownHandle, FirstOf

LEMMA SetFirstIs ==
  ASSUME NEW v \in Vols, NEW h \in Handles, NEW c \in Known
  PROVE  OnlyHandle(v, SetFirst(v, h, c), h, FirstOf(v.hs[h], c))
<1>1. PICK p \in KnownHandle : p = FirstOf(v.hs[h], c)
  BY VolHas, FirstOfIs
<1>2. PICK H : H = [v.hs EXCEPT ![h] = p]
  OBVIOUS
<1>3. SetFirst(v, h, c) = WithHandles(v, H)
  <2>1. v.hs \in OpenHandles
    BY VolHas
  <2> QED BY <1>1, <1>2, <2>1 DEF SetFirst, WithHandles, FirstOf, OpenHandles
<1> QED BY <1>1, <1>2, <1>3, OnlyHandleIs

SizeTries(F, h) == ChunkData(WriteStarts(WriteBegins(F, 0), h))
SizeEnds(w, h) ==
    LET p == hs[h].pos
        v == SetSized(w.v, h, p)
    IN  IF w.a = "error" THEN Finish(w.v, "error")
        ELSE IF p >= hs[h].size THEN Finish(w.v, "ok")
        ELSE IF p = 0 THEN Finish(Free(SetFirst(v, h, FREE), hs[h].first), "ok")
        ELSE Finish(CutChain(v, h, p), "ok")

LEMMA SetSizeSteps ==
  ASSUME NEW h, NEW F, SetSize(h, F)
  PROVE  SizeEnds(SizeTries(F, h), h)
BY DEF SetSize, SizeEnds, SizeTries, ChunkData, WriteStarts, WriteBegins, SetSized, SetFirst, Then

LEMMA SizeTriesIs ==
  ASSUME Sitting, NEW h \in Handles, NEW F \in FailSets
  PROVE  LET b == WriteBegins(F, 0) IN Changing(b, SizeTries(F, h), h)
<1>1. PICK b \in Writes : b = WriteBegins(F, 0) /\ b.a = "more" /\ b.v.hs = hs
  BY WriteBeginsIs
<1>2. PICK x : x = WriteStarts(b, h)
  OBVIOUS
<1>3. Changing(b, x, h) /\ x \in Writes
  BY <1>1, <1>2, WriteStartsIs DEF Changing
<1>4. Changing(x, ChunkData(x), h)
  BY <1>3, ChunkDataIs, GrowingChanges
<1> QED BY <1>1, <1>2, <1>3, <1>4, ChangingMore DEF SizeTries

LEMMA SetSizeIs ==
  ASSUME Sitting, NEW h \in Handles, NEW F \in FailSets, SetSize(h, F)
  PROVE  Sitting'
<1>1. PICK w \in Writes : w = SizeTries(F, h) /\ w.v \in Vols
  BY SizeTriesIs, WriteHas DEF Changing
<1>2. SizeEnds(w, h)
  BY <1>1, SetSizeSteps
<1>3. PICK o \in KnownHandle : o = hs[h]
  BY HandlesAre
<1>4. PICK p \in Sizes : p = o.pos /\ p \in Nat
  BY HandleHas, KnownAre
<1>5. PICK v \in Vols : v = SetSized(w.v, h, p)
  BY <1>1, SetSizedIs DEF OnlyHandle
<1>6. PICK x : x = SetFirst(v, h, FREE)
  OBVIOUS
<1>7. Free(x, o.first) \in Vols
  <2>1. x \in Vols
    BY <1>5, <1>6, SetFirstIs, KnownAre DEF OnlyHandle
  <2>2. o.first \in Entry
    BY HandleHas, KnownAre
  <2> QED BY <2>1, <2>2, FreeIs DEF Forgotten
<1>8. p # 0 => CutChain(v, h, p) \in Vols
  BY <1>4, <1>5, CutChainIs
<1>9. \/ Finish(w.v, "error") \/ Finish(w.v, "ok") \/ Finish(Free(x, o.first), "ok")
      \/ p # 0 /\ Finish(CutChain(v, h, p), "ok")
  BY <1>2, <1>3, <1>4, <1>5, <1>6 DEF SizeEnds
<1> QED BY <1>1, <1>7, <1>8, <1>9, FinishIs

(* AH=68h *)
LEMMA CommitIs ==
  ASSUME Sitting, NEW h \in Handles, NEW F \in FailSets, Commit(h, F)
  PROVE  Sitting'
<1>1. PICK v \in Vols : v = Start(F) /\ v.hs = hs
  BY FailSetsAre, StartIs
<1>2. v.hs[h].file \in Files
  BY <1>1, HandlesAre DEF Commit
<1>3. PICK u \in Vols : u = Save(v, h)
  BY <1>2, SaveIs DEF Saved
<1>4. Finish(u, "ok") \/ Finish(u, "error")
  BY <1>1, <1>3 DEF Commit
<1> QED BY <1>3, <1>4, FinishIs

(* AH=3Eh *)
LEMMA CloseIs ==
  ASSUME Sitting, NEW h \in Handles, NEW F \in FailSets, Close(h, F)
  PROVE  Sitting'
<1>1. PICK v \in Vols : v = Start(F) /\ v.hs = hs
  BY FailSetsAre, StartIs
<1>2. v.hs[h].file \in Files
  BY <1>1, HandlesAre DEF Close
<1>3. PICK u \in Vols : u = IF hs[h].write THEN Save(v, h) ELSE v
  BY <1>2, SaveIs DEF Saved
<1>4. PICK x \in Vols : x = PutHandle(u, h, Closed)
  BY ClosedIs, PutHandleIs
<1>5. Finish(u, "error") \/ Finish(x, "ok")
  BY <1>1, <1>3, <1>4 DEF Close, PutHandle
<1> QED BY <1>3, <1>4, <1>5, FinishIs

(* AH=41h *)
LEMMA DeleteIs ==
  ASSUME Sitting, NEW f \in Files, NEW F \in FailSets, Delete(f, F)
  PROVE  Sitting'
<1>1. PICK v \in Vols : v = Start(F)
  BY FailSetsAre, StartIs
<1>2. PICK e \in KnownEntry : e = root[f] /\ e.first \in Entry
  BY NoneIsNoEntry DEF Delete
<1>3. PICK r \in Vols : r = PutEntry(v, f, NONE)
  BY PutEntryIs DEF OnlyRoot
<1>4. PICK a \in Vols : a = FlushDir(r)
  BY FlushDirIs
<1>5. PICK x \in Vols : x = Free(a, e.first)
  BY <1>2, FreeIs DEF Forgotten
<1>6. PICK b \in Vols : b = FlushTable(x)
  BY FlushTableIs
<1>7. Finish(a, "error") \/ Finish(b, "error") \/ Finish(b, "ok")
  BY <1>1, <1>2, <1>3, <1>4, <1>5, <1>6 DEF Delete, PutEntry
<1> QED BY <1>4, <1>6, <1>7, FinishIs

-----------------------------------------------------------------------------
(* The invariant *)

LEMMA SittingAtFirst == Init => Sitting
<1> SUFFICES ASSUME Init PROVE Sitting
  OBVIOUS
<1>1. fat \in Tables
  BY EmptyTableIs DEF Init
<1>2. slots \in Slots
  BY KnownAre DEF Init, Slots, SlotNumbers, EmptySlot, KnownSlot
<1>3. hs \in OpenHandles
  BY ClosedIs DEF Init, OpenHandles
<1>4. root \in Entries /\ disk \in Entries
  BY DEF Init, Entries
<1>5. answer = "ok"
  BY DEF Init
<1> QED BY <1>1, <1>2, <1>3, <1>4, <1>5, HereIs DEF Sitting

LEMMA StepSits == Sitting /\ [Next]_vars => Sitting'
<1> SUFFICES ASSUME Sitting, [Next]_vars PROVE Sitting'
  OBVIOUS
<1>1. ASSUME NEW f \in Files, NEW h \in Handles, NEW F \in FailSets, Create(f, h, F) PROVE Sitting'
  BY <1>1, CreateIs
<1>2. ASSUME NEW f \in Files, NEW h \in Handles, NEW write \in BOOLEAN, Open(f, h, write)
      PROVE  Sitting'
  BY <1>2, OpenIs
<1>3. ASSUME NEW f \in Files, NEW F \in FailSets, Delete(f, F) PROVE Sitting'
  BY <1>3, DeleteIs
<1>4. ASSUME NEW h \in Handles, NEW p \in Sizes, Seek(h, p) PROVE Sitting'
  BY <1>4, SeekIs
<1>5. ASSUME NEW h \in Handles, NEW n \in Sizes \ {0}, NEW F \in FailSets, Write(h, n, F)
      PROVE  Sitting'
  <2>1. n \in Nat
    BY KnownAre
  <2> QED BY <1>5, <2>1, WriteIs
<1>6. ASSUME NEW h \in Handles, NEW F \in FailSets, Read(h, F) PROVE Sitting'
  BY <1>6, ReadIs
<1>7. ASSUME NEW h \in Handles, NEW F \in FailSets, SetSize(h, F) PROVE Sitting'
  BY <1>7, SetSizeIs
<1>8. ASSUME NEW h \in Handles, NEW F \in FailSets, Commit(h, F) PROVE Sitting'
  BY <1>8, CommitIs
<1>9. ASSUME NEW h \in Handles, NEW F \in FailSets, Close(h, F) PROVE Sitting'
  BY <1>9, CloseIs
<1>10. CASE UNCHANGED vars
  BY <1>10 DEF vars, Sitting, Here
<1> QED BY <1>1, <1>2, <1>3, <1>4, <1>5, <1>6, <1>7, <1>8, <1>9, <1>10 DEF Next

(* Every call leaves the volume as the next one needs it, whichever        *)
(* transfers fail: the table sound, and every cluster a handle, an entry   *)
(* or a cached chain names a real one or none.                             *)
THEOREM Sits == Spec => []Sitting
<1> QED BY SittingAtFirst, StepSits, PTL DEF Spec

LEMMA SittingTypes == Sitting => TypeOK
<1> SUFFICES ASSUME Sitting PROVE TypeOK
  OBVIOUS
<1>1. /\ fat \in Tables /\ slots \in Slots /\ hs \in OpenHandles
      /\ root \in Entries /\ disk \in Entries
  BY HereIs DEF Sitting
<1>2. fat \in Table
  BY <1>1, TableHas
<1>3. KnownSlot \subseteq Slot
  BY KnownAre DEF KnownSlot, Slot
<1>4. KnownHandle \subseteq Handle
  BY KnownAre DEF KnownHandle, Handle
<1>5. KnownEntry \subseteq DirEntry
  BY KnownAre DEF KnownEntry, DirEntry
<1>6. slots \in [0 .. ChainSlots - 1 -> Slot]
  BY <1>1, <1>3 DEF Slots, SlotNumbers
<1>7. hs \in [Handles -> Handle]
  BY <1>1, <1>4 DEF OpenHandles
<1>8. root \in [Files -> DirEntry \cup {NONE}] /\ disk \in [Files -> DirEntry \cup {NONE}]
  BY <1>1, <1>5 DEF Entries
<1> QED BY <1>2, <1>6, <1>7, <1>8 DEF TypeOK, Sitting

(* Every part of the volume has its type, whichever transfers fail. *)
THEOREM VolumeTypes == Spec => []TypeOK
<1> QED BY Sits, SittingTypes, PTL

(* The window's rules are those of the copies. *)
LEMMA SittingMirrors == Sitting => MirrorsAgree
<1> SUFFICES ASSUME Sitting PROVE MirrorsAgree
  OBVIOUS
<1>1. fat \in Tables
  BY HereIs DEF Sitting
<1>2. Mirrored(fat) /\ DOMAIN fat.window = Loaded(fat)
  BY <1>1, TableHas
<1> QED BY <1>2 DEF Mirrored, MirrorsAgree

(* The copies of the table agree wherever the window holds nothing newer,  *)
(* whichever transfer of whichever call fails (window_flush, window_load). *)
THEOREM CopiesMirrored == Spec => []MirrorsAgree
<1> QED BY Sits, SittingMirrors, PTL

(* What Save has done when it says so. *)
LEMMA FlushedIsDurable ==
  ASSUME Sitting, NEW h \in Handles, NEW F \in FailSets, Commit(h, F) \/ Close(h, F),
         answer' = "ok", hs[h].write
  PROVE  /\ hs[h].dirty => disk'[hs[h].file] = [first |-> hs[h].first, size |-> hs[h].size]
         /\ \A i \in 1 .. knum_fats : fat'.copies[i] = View(fat)
<1>1. PICK v \in Vols : v = Start(F) /\ v.hs = hs /\ View(v.fat) = View(fat)
  BY FailSetsAre, StartIs
<1>2. PICK o \in KnownHandle : o = hs[h]
  BY HandlesAre
<1>3. o.file \in Files
  BY <1>2, HandlesAre DEF Commit, Close
<1>4. PICK u \in Vols : u = Save(v, h) /\ Saved(v, u, h)
  BY <1>1, <1>2, <1>3, SaveIs DEF Saved
<1>5. PICK x \in Vols : x = PutHandle(u, h, Closed)
  BY ClosedIs, PutHandleIs
<1>6. /\ ~u.fat.cf
      /\ Finish(u, "ok") \/ Finish(x, "ok")
  <2>1. CASE Commit(h, F)
    <3>1. Finish(u, IF u.fat.cf THEN "error" ELSE "ok")
      BY <1>1, <1>4, <2>1 DEF Commit
    <3>2. answer' = IF u.fat.cf THEN "error" ELSE "ok"
      BY <3>1 DEF Finish
    <3> QED BY <3>1, <3>2
  <2>2. CASE Close(h, F)
    <3>1. IF u.fat.cf THEN Finish(u, "error") ELSE Finish(x, "ok")
      BY <1>1, <1>4, <1>5, <2>2 DEF Close, PutHandle
    <3>2. u.fat.cf => answer' = "error"
      BY <3>1 DEF Finish
    <3> QED BY <3>1, <3>2
  <2> QED BY <2>1, <2>2
<1>7. fat'.copies = u.fat.copies /\ disk' = u.disk
  <2>1. x.fat = u.fat /\ x.disk = u.disk
    BY <1>5, ClosedIs, PutHandleIs DEF OnlyHandle
  <2> QED BY <1>5, <1>6, <2>1, FinishIs
<1>8. /\ o.dirty => u.disk[o.file] = EntryOf(o)
      /\ \A i \in 1 .. knum_fats : u.fat.copies[i] = View(v.fat)
  BY <1>1, <1>2, <1>4, <1>6 DEF Saved
<1> QED BY <1>1, <1>2, <1>7, <1>8 DEF EntryOf

(* A commit, or a close for writing, that answers success has put the      *)
(* handle's size and first cluster, and the whole table, on the disk.      *)
THEOREM CommitsLast == Spec => CommitsAreDurable
<1>1. ASSUME Sitting
      PROVE  [\A h \in Handles :
                 /\ answer' = "ok" /\ hs[h].write
                 /\ hs'[h] \in {Closed, [hs[h] EXCEPT !.dirty = FALSE]}
                 /\ \E fails \in FailSets : Commit(h, fails) \/ Close(h, fails)
                 => /\ hs[h].dirty => disk'[hs[h].file] = [first |-> hs[h].first, size |-> hs[h].size]
                    /\ \A i \in 1 .. knum_fats : fat'.copies[i] = View(fat)]_vars
  BY <1>1, FlushedIsDurable
<1> QED BY <1>1, Sits, PTL DEF CommitsAreDurable

-----------------------------------------------------------------------------
(* What the table says when no transfer fails                              *)

(* A layout: whose each cluster is and where in the file's chain, and what *)
(* each file has, in the words of Now.                                     *)
Owners == Files \cup {NONE}
Layouts == [own : [Clusters -> Owners], pos : [Clusters -> Nat],
            first : [Files -> Known], size : [Files -> Sizes]]
Clustering(own, pos, first, size) == [own |-> own, pos |-> pos, first |-> first, size |-> size]

LEMMA LayoutHas ==
  ASSUME NEW l \in Layouts
  PROVE  /\ l.own \in [Clusters -> Owners] /\ l.pos \in [Clusters -> Nat]
         /\ l.first \in [Files -> Known] /\ l.size \in [Files -> Sizes]
         /\ \A c \in Clusters : l.own[c] \in Owners /\ l.pos[c] \in Nat
         /\ \A c \in Clusters : l.own[c] # NONE => l.own[c] \in Files
         /\ \A f \in Files : l.first[f] \in Known /\ l.size[f] \in Sizes /\ f # NONE
<1>1. NONE \notin Files
  BY Constants
<1> QED BY <1>1 DEF Layouts, Owners

LEMMA LayoutIs ==
  ASSUME NEW own \in [Clusters -> Owners], NEW pos \in [Clusters -> Nat],
         NEW first \in [Files -> Known], NEW size \in [Files -> Sizes],
         NEW l, l = Clustering(own, pos, first, size)
  PROVE  l \in Layouts /\ l.own = own /\ l.pos = pos /\ l.first = first /\ l.size = size
BY DEF Layouts, Clustering

Linked(V, l) ==
    /\ \A c \in Clusters : V[c] = FREE <=> l.own[c] = NONE
    /\ \A c \in Clusters : V[c] \in Clusters =>
          l.own[V[c]] = l.own[c] /\ l.pos[V[c]] = l.pos[c] + 1
    /\ \A c, d \in Clusters : l.own[c] # NONE /\ l.own[c] = l.own[d] /\ l.pos[c] = l.pos[d] => c = d
    /\ \A c \in Clusters : l.own[c] # NONE /\ l.pos[c] > 0 =>
          \E d \in Clusters : l.own[d] = l.own[c] /\ l.pos[c] = l.pos[d] + 1 /\ V[d] = c
    /\ \A c \in Clusters : l.own[c] # NONE => l.first[l.own[c]] \in Clusters
    /\ \A f \in Files : l.first[f] \in Clusters =>
          l.own[l.first[f]] = f /\ l.pos[l.first[f]] = 0

Entire(V) == V \in [Clusters -> Entry]

(* A chain has a cluster at every place up to any that it has. *)
LEMMA NoGaps ==
  ASSUME NEW V, NEW l \in Layouts, Linked(V, l), NEW c \in Clusters, l.own[c] # NONE,
         NEW k \in 0 .. l.pos[c]
  PROVE  \E d \in Clusters : l.own[d] = l.own[c] /\ l.pos[d] = k
<1>1. PICK n \in Nat : n = l.pos[c]
  BY LayoutHas
<1> DEFINE I == {j \in 0 .. n : \E d \in Clusters : l.own[d] = l.own[c] /\ l.pos[d] = n - j}
<1>2. 0 \in I
  BY <1>1
<1>3. ASSUME NEW j \in 0 + 1 .. n, j - 1 \in I PROVE j \in I
  <2>1. PICK d \in Clusters : l.own[d] = l.own[c] /\ l.pos[d] = n - (j - 1)
    BY <1>3
  <2>2. l.pos[d] > 0 /\ l.pos[d] \in Nat
    BY <1>1, <2>1, LayoutHas
  <2>3. PICK e \in Clusters : l.own[e] = l.own[d] /\ l.pos[d] = l.pos[e] + 1
    BY <2>1, <2>2 DEF Linked
  <2>4. l.pos[e] \in Nat
    BY LayoutHas
  <2>5. l.pos[e] = n - j /\ l.own[e] = l.own[c] /\ j \in 0 .. n
    BY <1>1, <2>1, <2>3, <2>4
  <2> QED BY <2>5
<1> HIDE DEF I
<1>4. \A j \in 0 .. n : j \in I
  BY <1>2, <1>3, Upwards, Zenon
<1>5. n - k \in 0 .. n /\ n - (n - k) = k
  BY <1>1
<1>6. n - k \in I
  BY <1>4, <1>5
<1> QED BY <1>5, <1>6 DEF I

LEMMA LastOne ==
  ASSUME NEW V, NEW l \in Layouts, Linked(V, l), NEW c \in Clusters, NEW d \in Clusters,
         l.own[c] # NONE, l.own[c] = l.own[d], V[c] \notin Clusters
  PROVE  l.pos[d] <= l.pos[c]
<1> SUFFICES ASSUME l.pos[d] > l.pos[c] PROVE FALSE
  BY LayoutHas
<1>1. l.pos[c] \in Nat /\ l.pos[d] \in Nat
  BY LayoutHas
<1>2. PICK e \in Clusters : l.own[e] = l.own[d] /\ l.pos[e] = l.pos[c] + 1
  <2>1. l.pos[c] + 1 \in 0 .. l.pos[d]
    BY <1>1
  <2> QED BY <2>1, NoGaps
<1>3. PICK b \in Clusters : l.own[b] = l.own[e] /\ l.pos[e] = l.pos[b] + 1 /\ V[b] = e
  BY <1>1, <1>2 DEF Linked
<1>4. l.pos[b] = l.pos[c]
  BY <1>1, <1>2, <1>3, LayoutHas
<1>5. b = c
  BY <1>2, <1>3, <1>4 DEF Linked
<1> QED BY <1>3, <1>5

ClustersOf(l, f) == {c \in Clusters : l.own[c] = f}

(* A place in a chain is less than the number of its clusters. *)
LEMMA PosBound ==
  ASSUME NEW V, NEW l \in Layouts, Linked(V, l), NEW c \in Clusters, l.own[c] # NONE
  PROVE  /\ Cardinality(ClustersOf(l, l.own[c])) \in Nat
         /\ l.pos[c] + 1 <= Cardinality(ClustersOf(l, l.own[c]))
         /\ l.pos[c] < NClusters
<1>1. PICK n \in Nat : n = l.pos[c]
  BY LayoutHas
<1>2. PICK S : S = ClustersOf(l, l.own[c])
  OBVIOUS
<1>3. S \subseteq Clusters
  BY <1>2 DEF ClustersOf
<1>4. IsFiniteSet(S) /\ Cardinality(S) \in Nat /\ Cardinality(S) <= NClusters /\ NClusters \in Nat
  BY <1>3, ClustersFinite, FS_Subset, FS_CardinalityType DEF NClusters
<1> DEFINE g == [k \in 0 .. n |-> CHOOSE d \in S : l.pos[d] = k]
<1>5. \A k \in 0 .. n : g[k] \in S /\ l.pos[g[k]] = k
  <2> TAKE k \in 0 .. n
  <2>1. \E d \in S : l.pos[d] = k
    BY <1>1, <1>2, NoGaps DEF ClustersOf
  <2> QED BY <2>1
<1>6. g \in Injection(0 .. n, S)
  <2>1. g \in [0 .. n -> S]
    BY <1>5
  <2>2. \A i, j \in 0 .. n : g[i] = g[j] => i = j
    BY <1>5
  <2> HIDE DEF g
  <2> QED BY <2>1, <2>2 DEF Injection, IsInjective
<1> HIDE DEF g
<1>7. Cardinality(0 .. n) <= Cardinality(S)
  BY <1>4, <1>6, FS_Injection
<1>8. Cardinality(0 .. n) = n + 1
  BY FS_Interval
<1> QED BY <1>1, <1>2, <1>4, <1>7, <1>8

(* A cluster joins a file. *)
Joined(l, c, f, n) == Clustering([l.own EXCEPT ![c] = f], [l.pos EXCEPT ![c] = n], l.first, l.size)
FirstJoined(l, c, f) ==
    Clustering([l.own EXCEPT ![c] = f], [l.pos EXCEPT ![c] = 0], [l.first EXCEPT ![f] = c], l.size)

(* What was in a file stays where it is. *)
Extends(l, k) ==
    \A d \in Clusters : l.own[d] # NONE => k.own[d] = l.own[d] /\ k.pos[d] = l.pos[d]

LEMMA JoinedIs ==
  ASSUME NEW l \in Layouts, NEW c \in Clusters, NEW f \in Files, NEW n \in Nat,
         NEW k, k = Joined(l, c, f, n)
  PROVE  /\ k \in Layouts /\ k.first = l.first /\ k.size = l.size
         /\ \A d \in Clusters : k.own[d] = (IF d = c THEN f ELSE l.own[d])
                                /\ k.pos[d] = (IF d = c THEN n ELSE l.pos[d])
<1>1. PICK own \in [Clusters -> Owners] : own = [l.own EXCEPT ![c] = f]
  BY LayoutHas DEF Owners
<1>2. PICK pos \in [Clusters -> Nat] : pos = [l.pos EXCEPT ![c] = n]
  BY LayoutHas
<1>3. k = Clustering(own, pos, l.first, l.size)
  BY <1>1, <1>2 DEF Joined
<1>4. k \in Layouts /\ k.own = own /\ k.pos = pos /\ k.first = l.first /\ k.size = l.size
  BY <1>3, LayoutHas, LayoutIs
<1> QED BY <1>1, <1>2, <1>4, LayoutHas

LEMMA FirstJoinedIs ==
  ASSUME NEW l \in Layouts, NEW c \in Clusters, NEW f \in Files, NEW k, k = FirstJoined(l, c, f)
  PROVE  /\ k \in Layouts /\ k.size = l.size
         /\ \A d \in Clusters : k.own[d] = (IF d = c THEN f ELSE l.own[d])
                                /\ k.pos[d] = (IF d = c THEN 0 ELSE l.pos[d])
         /\ \A g \in Files : k.first[g] = IF g = f THEN c ELSE l.first[g]
<1>1. PICK own \in [Clusters -> Owners] : own = [l.own EXCEPT ![c] = f]
  BY LayoutHas DEF Owners
<1>2. PICK pos \in [Clusters -> Nat] : pos = [l.pos EXCEPT ![c] = 0]
  BY LayoutHas
<1>3. PICK first \in [Files -> Known] : first = [l.first EXCEPT ![f] = c]
  BY LayoutHas, KnownAre
<1>4. k = Clustering(own, pos, first, l.size)
  BY <1>1, <1>2, <1>3 DEF FirstJoined
<1>5. k \in Layouts /\ k.own = own /\ k.pos = pos /\ k.first = first /\ k.size = l.size
  BY <1>4, LayoutHas, LayoutIs
<1> QED BY <1>1, <1>2, <1>3, <1>5, LayoutHas

(* The cluster after the last, e, of a chain. *)
LEMMA JoinedLinked ==
  ASSUME NEW V, Entire(V), NEW l \in Layouts, Linked(V, l), NEW c \in Clusters, NEW e \in Clusters,
         NEW f \in Files, V[c] = FREE, V[e] = EOC, l.own[e] = f,
         NEW W, W = [[V EXCEPT ![c] = EOC] EXCEPT ![e] = c],
         NEW k, k = Joined(l, c, f, l.pos[e] + 1)
  PROVE  k \in Layouts /\ Entire(W) /\ Linked(W, k) /\ Extends(l, k) /\ k.own[c] = f
         /\ k.pos[c] = l.pos[e] + 1 /\ k.first = l.first /\ k.size = l.size
<1>1. PICK n \in Nat : n = l.pos[e]
  BY LayoutHas
<1>2. c # e /\ NONE # f
  BY ClustersAre, Constants
<1>3. Entire(W) /\ \A d \in Clusters : W[d] = IF d = e THEN c ELSE IF d = c THEN EOC ELSE V[d]
  BY <1>2, ClustersAre DEF Entire
<1>4. /\ k \in Layouts /\ k.first = l.first /\ k.size = l.size
      /\ \A d \in Clusters : k.own[d] = (IF d = c THEN f ELSE l.own[d])
                             /\ k.pos[d] = (IF d = c THEN n + 1 ELSE l.pos[d])
  <2>1. n + 1 \in Nat
    OBVIOUS
  <2> QED BY <1>1, <2>1, JoinedIs
<1>5. l.own[c] = NONE
  BY DEF Linked
<1>6. \A d \in Clusters : l.own[d] = f => l.pos[d] <= n
  BY <1>1, <1>2, ClustersAre, LastOne
<1>7. \A d \in Clusters : W[d] = FREE <=> k.own[d] = NONE
  <2> TAKE d \in Clusters
  <2>1. CASE d = e
    <3>1. W[d] = c /\ c # FREE
      BY <1>3, <2>1, ClustersAre
    <3>2. k.own[d] = f
      BY <1>2, <1>4, <2>1
    <3> QED BY <1>2, <3>1, <3>2
  <2>2. CASE d = c
    <3>1. W[d] = EOC /\ EOC # FREE
      BY <1>2, <1>3, <2>2, ClustersAre
    <3>2. k.own[d] = f
      BY <1>4, <2>2
    <3> QED BY <1>2, <3>1, <3>2
  <2>3. CASE d # e /\ d # c
    <3>1. W[d] = V[d] /\ k.own[d] = l.own[d]
      BY <1>3, <1>4, <2>3
    <3> QED BY <3>1 DEF Linked
  <2> QED BY <2>1, <2>2, <2>3
<1>8. \A d \in Clusters : W[d] \in Clusters => k.own[W[d]] = k.own[d] /\ k.pos[W[d]] = k.pos[d] + 1
  <2> SUFFICES ASSUME NEW d \in Clusters, W[d] \in Clusters
               PROVE  k.own[W[d]] = k.own[d] /\ k.pos[W[d]] = k.pos[d] + 1
    OBVIOUS
  <2>1. CASE d = e
    <3>1. W[d] = c
      BY <1>3, <2>1
    <3>2. k.own[c] = f /\ k.pos[c] = n + 1
      BY <1>4
    <3>3. k.own[d] = f /\ k.pos[d] = n
      BY <1>1, <1>2, <1>4, <2>1
    <3> QED BY <3>1, <3>2, <3>3
  <2>2. CASE d # e
    <3>1. W[d] = V[d] /\ d # c
      BY <1>3, <2>2, ClustersAre
    <3>2. l.own[V[d]] = l.own[d] /\ l.pos[V[d]] = l.pos[d] + 1
      BY <3>1 DEF Linked
    <3>3. V[d] # c
      BY <1>5, <3>1, <3>2, ClustersAre DEF Linked
    <3> QED BY <1>4, <3>1, <3>2, <3>3
  <2> QED BY <2>1, <2>2
<1>9. \A d, b \in Clusters : k.own[d] # NONE /\ k.own[d] = k.own[b] /\ k.pos[d] = k.pos[b] => d = b
  <2>1. \A d \in Clusters : d # c /\ k.own[d] = f => k.pos[d] <= n /\ k.pos[d] # n + 1
    BY <1>4, <1>6, LayoutHas
  <2> QED BY <1>4, <2>1 DEF Linked
<1>10. \A d \in Clusters : k.own[d] # NONE /\ k.pos[d] > 0 =>
          \E b \in Clusters : k.own[b] = k.own[d] /\ k.pos[d] = k.pos[b] + 1 /\ W[b] = d
  <2> SUFFICES ASSUME NEW d \in Clusters, k.own[d] # NONE, k.pos[d] > 0
               PROVE  \E b \in Clusters : k.own[b] = k.own[d] /\ k.pos[d] = k.pos[b] + 1 /\ W[b] = d
    OBVIOUS
  <2>1. CASE d = c
    BY <1>1, <1>2, <1>3, <1>4, <2>1
  <2>2. CASE d # c
    <3>1. PICK b \in Clusters : l.own[b] = l.own[d] /\ l.pos[d] = l.pos[b] + 1 /\ V[b] = d
      BY <1>4, <2>2 DEF Linked
    <3>2. b # e /\ b # c
      BY <3>1, ClustersAre
    <3> QED BY ZenonT(60), <1>3, <1>4, <2>2, <3>1, <3>2
  <2> QED BY <2>1, <2>2
<1>11. \A d \in Clusters : k.own[d] # NONE => k.first[k.own[d]] \in Clusters
  BY <1>2, <1>4 DEF Linked
<1>12. \A g \in Files : k.first[g] \in Clusters => k.own[k.first[g]] = g /\ k.pos[k.first[g]] = 0
  <2> SUFFICES ASSUME NEW g \in Files, k.first[g] \in Clusters
               PROVE  k.own[k.first[g]] = g /\ k.pos[k.first[g]] = 0
    OBVIOUS
  <2>1. l.own[l.first[g]] = g /\ l.pos[l.first[g]] = 0 /\ l.first[g] \in Clusters /\ g # NONE
    BY <1>4, LayoutHas DEF Linked
  <2> QED BY <1>4, <1>5, <2>1
<1>13. Linked(W, k)
  BY <1>7, <1>8, <1>9, <1>10, <1>11, <1>12 DEF Linked
<1>14. Extends(l, k)
  BY <1>4, <1>5 DEF Extends
<1> QED BY <1>1, <1>3, <1>4, <1>13, <1>14

(* The first cluster of a file that has none. *)
LEMMA FirstJoinedLinked ==
  ASSUME NEW V, Entire(V), NEW l \in Layouts, Linked(V, l), NEW c \in Clusters,
         NEW f \in Files, V[c] = FREE, l.first[f] \notin Clusters,
         NEW W, W = [V EXCEPT ![c] = EOC],
         NEW k, k = FirstJoined(l, c, f)
  PROVE  k \in Layouts /\ Entire(W) /\ Linked(W, k) /\ Extends(l, k) /\ k.own[c] = f
         /\ k.pos[c] = 0 /\ k.size = l.size
         /\ \A g \in Files : k.first[g] = IF g = f THEN c ELSE l.first[g]
<1>2. NONE # f
  BY Constants
<1>3. Entire(W) /\ \A d \in Clusters : W[d] = IF d = c THEN EOC ELSE V[d]
  BY ClustersAre DEF Entire
<1>4. /\ k \in Layouts /\ k.size = l.size
      /\ \A d \in Clusters : k.own[d] = (IF d = c THEN f ELSE l.own[d])
                             /\ k.pos[d] = (IF d = c THEN 0 ELSE l.pos[d])
      /\ \A g \in Files : k.first[g] = IF g = f THEN c ELSE l.first[g]
  BY FirstJoinedIs
<1>5. l.own[c] = NONE
  BY DEF Linked
<1>6. \A d \in Clusters : l.own[d] # f
  BY <1>2 DEF Linked
<1>7. \A d \in Clusters : W[d] = FREE <=> k.own[d] = NONE
  BY <1>2, <1>3, <1>4, ClustersAre DEF Linked
<1>8. \A d \in Clusters : W[d] \in Clusters => k.own[W[d]] = k.own[d] /\ k.pos[W[d]] = k.pos[d] + 1
  <2> SUFFICES ASSUME NEW d \in Clusters, W[d] \in Clusters
               PROVE  k.own[W[d]] = k.own[d] /\ k.pos[W[d]] = k.pos[d] + 1
    OBVIOUS
  <2>1. W[d] = V[d] /\ d # c
    BY <1>3, ClustersAre
  <2>2. l.own[V[d]] = l.own[d] /\ l.pos[V[d]] = l.pos[d] + 1
    BY <2>1 DEF Linked
  <2>3. V[d] # c
    BY <1>5, <2>1, <2>2, ClustersAre DEF Linked
  <2> QED BY <1>4, <2>1, <2>2, <2>3
<1>9. \A d, b \in Clusters : k.own[d] # NONE /\ k.own[d] = k.own[b] /\ k.pos[d] = k.pos[b] => d = b
  BY <1>4, <1>6 DEF Linked
<1>10. \A d \in Clusters : k.own[d] # NONE /\ k.pos[d] > 0 =>
          \E b \in Clusters : k.own[b] = k.own[d] /\ k.pos[d] = k.pos[b] + 1 /\ W[b] = d
  <2> SUFFICES ASSUME NEW d \in Clusters, k.own[d] # NONE, k.pos[d] > 0
               PROVE  \E b \in Clusters : k.own[b] = k.own[d] /\ k.pos[d] = k.pos[b] + 1 /\ W[b] = d
    OBVIOUS
  <2>1. d # c
    BY <1>4
  <2>2. PICK b \in Clusters : l.own[b] = l.own[d] /\ l.pos[d] = l.pos[b] + 1 /\ V[b] = d
    BY <1>4, <2>1 DEF Linked
  <2>3. b # c
    BY <2>2, ClustersAre
  <2> QED BY <1>3, <1>4, <2>1, <2>2, <2>3
<1>11. \A d \in Clusters : k.own[d] # NONE => k.first[k.own[d]] \in Clusters
  <2> SUFFICES ASSUME NEW d \in Clusters, k.own[d] # NONE
               PROVE  k.first[k.own[d]] \in Clusters
    OBVIOUS
  <2>1. CASE d = c
    BY <1>4, <2>1
  <2>2. CASE d # c
    <3>1. l.own[d] \in Files /\ l.own[d] # f /\ l.first[l.own[d]] \in Clusters /\ k.own[d] = l.own[d]
      BY <1>4, <1>6, <2>2, LayoutHas DEF Linked
    <3> QED BY <1>4, <3>1
  <2> QED BY <2>1, <2>2
<1>12. \A g \in Files : k.first[g] \in Clusters => k.own[k.first[g]] = g /\ k.pos[k.first[g]] = 0
  <2> SUFFICES ASSUME NEW g \in Files, k.first[g] \in Clusters
               PROVE  k.own[k.first[g]] = g /\ k.pos[k.first[g]] = 0
    OBVIOUS
  <2>1. CASE g = f
    BY <1>4, <2>1
  <2>2. CASE g # f
    <3>1. l.own[l.first[g]] = g /\ l.pos[l.first[g]] = 0 /\ l.first[g] \in Clusters /\ g # NONE
      BY <1>4, <2>2, LayoutHas DEF Linked
    <3> QED BY <1>4, <1>5, <2>2, <3>1
  <2> QED BY <2>1, <2>2
<1>13. Linked(W, k)
  BY <1>7, <1>8, <1>9, <1>10, <1>11, <1>12 DEF Linked
<1>14. Extends(l, k)
  BY <1>4, <1>5 DEF Extends
<1> QED BY <1>3, <1>4, <1>13, <1>14

(* The clusters of f from place s on, which are to be freed, are linked    *)
(* one to the next.                                                        *)
Tail(V, l, f, s) ==
    \A d \in Clusters : l.own[d] = f /\ l.pos[d] >= s =>
        IF V[d] \in Clusters THEN l.own[V[d]] = f /\ l.pos[V[d]] = l.pos[d] + 1
        ELSE \A e \in Clusters : l.own[e] = f => l.pos[e] <= l.pos[d]
FreedTo(V, l, f, s, n) ==
    [d \in Clusters |-> IF l.own[d] = f /\ l.pos[d] >= s /\ l.pos[d] < n THEN FREE ELSE V[d]]
FreedFrom(V, l, f, s) ==
    [d \in Clusters |-> IF l.own[d] = f /\ l.pos[d] >= s THEN FREE ELSE V[d]]

(* Where the chain goes on from place n. *)
GoesOn(l, f, n, c) ==
    IF c \in Clusters THEN l.own[c] = f /\ l.pos[c] = n
    ELSE \A e \in Clusters : l.own[e] = f => l.pos[e] < n
FreeingAt(t, u, l, f, s, n) ==
    /\ SameBounds(t, u) /\ u.ioerr = t.ioerr
    /\ View(u) = FreedTo(View(t), l, f, s, n)
    /\ GoesOn(l, f, n, u.ax)
PlacesDiffer(l) ==
    \A c, d \in Clusters : l.own[c] # NONE /\ l.own[c] = l.own[d] /\ l.pos[c] = l.pos[d] => c = d

LEMMA FreeingNext ==
  ASSUME NEW t \in Tables, t.fails = {}, NEW l \in Layouts, PlacesDiffer(l), NEW f \in Files,
         NEW s \in Nat, NEW n \in Nat, n >= s, Tail(View(t), l, f, s),
         NEW u, FreeingAt(t, u, l, f, s, n)
  PROVE  FreeingAt(t, FreeNext(u), l, f, s, n + 1)
<1>1. u \in Tables /\ u.fails = {}
  BY DEF FreeingAt, SameBounds
<1>2. PICK v : v = FreeNext(u)
  OBVIOUS
<1>3. SameBounds(t, v)
  BY <1>1, <1>2, FreeNextIs DEF FreeingAt, SameBounds
<1>4. PICK V : V = View(t) /\ Tail(V, l, f, s) /\ View(u) = FreedTo(V, l, f, s, n)
  BY DEF FreeingAt
<1>5. \A d \in Clusters : l.pos[d] \in Nat
  BY LayoutHas
<1>6. CASE u.ax \notin Clusters
  <2>1. v = u
    BY <1>1, <1>2, <1>6, FreeNextIs
  <2>2. \A e \in Clusters : l.own[e] = f => l.pos[e] < n
    BY <1>6 DEF FreeingAt, GoesOn
  <2>3. FreedTo(V, l, f, s, n + 1) = FreedTo(V, l, f, s, n)
    <3>1. \A d \in Clusters : l.own[d] = f => (l.pos[d] < n + 1 <=> l.pos[d] < n)
      BY <1>5, <2>2
    <3> QED BY <3>1 DEF FreedTo
  <2>4. GoesOn(l, f, n + 1, v.ax)
    BY <1>5, <1>6, <2>1, <2>2 DEF GoesOn
  <2> QED BY <1>2, <1>3, <1>4, <2>1, <2>3, <2>4 DEF FreeingAt
<1>7. CASE u.ax \in Clusters
  <2>1. PICK a \in Clusters : a = u.ax
    BY <1>7
  <2>2. /\ View(v) = [View(u) EXCEPT ![a] = FREE]
        /\ v.ax = View(u)[a]
        /\ v.ioerr = u.ioerr
    BY <1>1, <1>2, <2>1, FreeNextIs
  <2>3. l.own[a] = f /\ l.pos[a] = n
    BY <2>1 DEF FreeingAt, GoesOn
  <2>4. \A d \in Clusters : l.own[d] = f /\ l.pos[d] = n => d = a
    <3>1. f # NONE
      BY Constants
    <3> QED BY <2>3, <3>1 DEF PlacesDiffer
  <2>5. View(v) = FreedTo(V, l, f, s, n + 1)
    <3>1. View(u) = [d \in Clusters |-> IF l.own[d] = f /\ l.pos[d] >= s /\ l.pos[d] < n THEN FREE ELSE V[d]]
      BY <1>4 DEF FreedTo
    <3>2. View(v) = [d \in Clusters |-> IF d = a THEN FREE ELSE View(u)[d]]
      BY <2>2, <3>1
    <3>3. \A d \in Clusters : l.own[d] = f /\ l.pos[d] >= s /\ l.pos[d] < n + 1
                              <=> d = a \/ (l.own[d] = f /\ l.pos[d] >= s /\ l.pos[d] < n)
      BY <1>5, <2>3, <2>4
    <3>4. \A d \in Clusters : View(v)[d] =
             IF l.own[d] = f /\ l.pos[d] >= s /\ l.pos[d] < n + 1 THEN FREE ELSE V[d]
      BY <3>1, <3>2, <3>3
    <3> QED BY <3>2, <3>4 DEF FreedTo
  <2>6. v.ax = V[a]
    BY <1>4, <2>2, <2>3 DEF FreedTo
  <2>7. GoesOn(l, f, n + 1, v.ax)
    <3>1. CASE V[a] \in Clusters
      BY <1>4, <2>3, <2>6, <3>1 DEF Tail, GoesOn
    <3>2. CASE V[a] \notin Clusters
      <4>1. \A e \in Clusters : l.own[e] = f => l.pos[e] <= n
        BY <1>4, <2>3, <3>2 DEF Tail
      <4>2. \A e \in Clusters : l.own[e] = f => l.pos[e] < n + 1
        BY <1>5, <4>1
      <4> QED BY <2>6, <3>2, <4>2 DEF GoesOn
    <3> QED BY <3>1, <3>2
  <2>8. v.ioerr = t.ioerr
    BY <2>2 DEF FreeingAt
  <2> QED BY <1>2, <1>3, <1>4, <2>5, <2>7, <2>8 DEF FreeingAt
<1> QED BY <1>6, <1>7

LEMMA FreeingTurns ==
  ASSUME NEW t \in Tables, t.fails = {}, NEW l \in Layouts, PlacesDiffer(l), NEW f \in Files,
         NEW s \in Nat, Tail(View(t), l, f, s), NEW c \in Entry, GoesOn(l, f, s, c),
         NEW g, FreeTurns(g, t, c)
  PROVE  \A k \in 0 .. NClusters : FreeingAt(t, g[k], l, f, s, s + k)
<1> DEFINE I == {k \in 0 .. NClusters : FreeingAt(t, g[k], l, f, s, s + k)}
<1>1. NClusters \in Nat
  BY ClustersFinite
<1>2. 0 \in I
  <2>1. g[0] = [t EXCEPT !.ax = c]
    BY <1>1 DEF FreeTurns
  <2>2. PICK u : u = Answering(t, c) /\ u = g[0]
    BY <2>1 DEF Answering
  <2>3. u \in Tables /\ SameTable(t, u) /\ View(u) = View(t) /\ u.ioerr = t.ioerr /\ u.fails = t.fails
        /\ u.ax = c
    <3>1. LET x == Answering(t, c) IN
          /\ x \in Tables /\ SameTable(t, x) /\ View(x) = View(t)
          /\ x.cf = t.cf /\ x.ioerr = t.ioerr /\ x.fails = t.fails /\ x.ax = c
      BY AnsweringIs
    <3> QED BY <2>2, <3>1, Zenon
  <2>4. FreedTo(View(t), l, f, s, s) = View(t)
    <3>1. \A d \in Clusters : l.pos[d] \in Nat
      BY LayoutHas
    <3>2. View(t) = [d \in Clusters |-> View(t)[d]]
      BY ViewIs
    <3> QED BY <3>1, <3>2 DEF FreedTo
  <2>5. s + 0 = s
    OBVIOUS
  <2>6. FreeingAt(t, u, l, f, s, s + 0)
    BY <2>3, <2>4, <2>5 DEF FreeingAt, SameBounds, SameTable
  <2> QED BY <1>1, <2>2, <2>6
<1>3. ASSUME NEW k \in 0 + 1 .. NClusters, k - 1 \in I PROVE k \in I
  <2>1. g[k] = FreeNext(g[k - 1])
    <3>1. k \in 0 .. NClusters /\ k # 0
      BY <1>1
    <3> QED BY <3>1 DEF FreeTurns
  <2>2. PICK n \in Nat : n = s + (k - 1) /\ n >= s /\ n + 1 = s + k
    BY <1>1
  <2>3. FreeingAt(t, g[k - 1], l, f, s, n)
    BY <1>3, <2>2
  <2>4. FreeingAt(t, g[k], l, f, s, n + 1)
    BY <2>1, <2>2, <2>3, FreeingNext
  <2>5. k \in 0 .. NClusters
    BY <1>1
  <2> QED BY <2>2, <2>4, <2>5
<1> HIDE DEF I
<1>4. \A k \in 0 .. NClusters : k \in I
  BY <1>1, <1>2, <1>3, Upwards, Zenon
<1> QED BY <1>4 DEF I

(* free_chain, when no transfer fails. *)
LEMMA FreeChainFrees ==
  ASSUME NEW t \in Tables, t.fails = {}, NEW l \in Layouts, PlacesDiffer(l), NEW f \in Files,
         NEW s \in Nat, Tail(View(t), l, f, s), NEW c \in Entry, GoesOn(l, f, s, c),
         \A d \in Clusters : l.own[d] = f => l.pos[d] < NClusters
  PROVE  LET u == FreeChain(t, c) IN
         u \in Tables /\ u.fails = {} /\ u.ioerr = t.ioerr /\ View(u) = FreedFrom(View(t), l, f, s)
<1>1. NClusters \in Nat
  BY ClustersFinite
<1>2. PICK g : FreeTurns(g, t, c) /\ FreeChain(t, c) = g[NClusters]
  BY FreeTurnsExist
<1>3. FreeingAt(t, g[NClusters], l, f, s, s + NClusters)
  <2>1. NClusters \in 0 .. NClusters
    BY <1>1
  <2> QED BY <1>2, <2>1, FreeingTurns
<1>4. FreedTo(View(t), l, f, s, s + NClusters) = FreedFrom(View(t), l, f, s)
  <2>1. \A d \in Clusters : l.own[d] = f => l.pos[d] < s + NClusters
    BY <1>1, LayoutHas
  <2> QED BY <2>1 DEF FreedTo, FreedFrom
<1> QED BY <1>2, <1>3, <1>4 DEF FreeingAt, SameBounds

(* A file that loses its chain, or what comes after a place of it; and one *)
(* of another size.                                                        *)
Emptied(l, f) ==
    Clustering([c \in Clusters |-> IF l.own[c] = f THEN NONE ELSE l.own[c]], l.pos,
               [l.first EXCEPT ![f] = FREE], l.size)
Shortened(l, f, s) ==
    Clustering([c \in Clusters |-> IF l.own[c] = f /\ l.pos[c] >= s THEN NONE ELSE l.own[c]], l.pos,
               l.first, l.size)
Resized(l, f, n) == Clustering(l.own, l.pos, l.first, [l.size EXCEPT ![f] = n])

LEMMA EmptiedIs ==
  ASSUME NEW l \in Layouts, NEW f \in Files, NEW k, k = Emptied(l, f)
  PROVE  /\ k \in Layouts /\ k.pos = l.pos /\ k.size = l.size
         /\ \A c \in Clusters : k.own[c] = IF l.own[c] = f THEN NONE ELSE l.own[c]
         /\ \A g \in Files : k.first[g] = IF g = f THEN FREE ELSE l.first[g]
<1>1. PICK own \in [Clusters -> Owners] :
         own = [c \in Clusters |-> IF l.own[c] = f THEN NONE ELSE l.own[c]]
  BY LayoutHas DEF Owners
<1>2. PICK first \in [Files -> Known] : first = [l.first EXCEPT ![f] = FREE]
  BY LayoutHas, KnownAre
<1>3. k = Clustering(own, l.pos, first, l.size)
  BY <1>1, <1>2 DEF Emptied
<1>4. k \in Layouts /\ k.own = own /\ k.pos = l.pos /\ k.first = first /\ k.size = l.size
  BY <1>3, LayoutHas, LayoutIs
<1> QED BY <1>1, <1>2, <1>4, LayoutHas

LEMMA ShortenedIs ==
  ASSUME NEW l \in Layouts, NEW f \in Files, NEW s \in Nat, NEW k, k = Shortened(l, f, s)
  PROVE  /\ k \in Layouts /\ k.pos = l.pos /\ k.size = l.size /\ k.first = l.first
         /\ \A c \in Clusters :
               k.own[c] = IF l.own[c] = f /\ l.pos[c] >= s THEN NONE ELSE l.own[c]
<1>1. PICK own \in [Clusters -> Owners] :
         own = [c \in Clusters |-> IF l.own[c] = f /\ l.pos[c] >= s THEN NONE ELSE l.own[c]]
  BY LayoutHas DEF Owners
<1>2. k = Clustering(own, l.pos, l.first, l.size)
  BY <1>1 DEF Shortened
<1>3. k \in Layouts /\ k.own = own /\ k.pos = l.pos /\ k.first = l.first /\ k.size = l.size
  BY <1>2, LayoutHas, LayoutIs
<1> QED BY <1>1, <1>3

LEMMA ResizedIs ==
  ASSUME NEW l \in Layouts, NEW f \in Files, NEW n \in Sizes, NEW k, k = Resized(l, f, n)
  PROVE  /\ k \in Layouts /\ k.own = l.own /\ k.pos = l.pos /\ k.first = l.first
         /\ \A g \in Files : k.size[g] = IF g = f THEN n ELSE l.size[g]
<1>1. PICK size \in [Files -> Sizes] : size = [l.size EXCEPT ![f] = n]
  BY LayoutHas
<1>2. k = Clustering(l.own, l.pos, l.first, size)
  BY <1>1 DEF Resized
<1>3. k \in Layouts /\ k.own = l.own /\ k.pos = l.pos /\ k.first = l.first /\ k.size = size
  BY <1>2, LayoutHas, LayoutIs
<1> QED BY <1>1, <1>3, LayoutHas

LEMMA ResizedLinked ==
  ASSUME NEW V, NEW l, NEW k, k.own = l.own, k.pos = l.pos, k.first = l.first
  PROVE  Linked(V, l) <=> Linked(V, k)
BY DEF Linked

LEMMA LinkedDiffer == ASSUME NEW V, NEW l, Linked(V, l) PROVE PlacesDiffer(l)
BY DEF Linked, PlacesDiffer

(* The whole chain of a file may be freed, from its first cluster on. *)
LEMMA WholeTail ==
  ASSUME NEW V, NEW l \in Layouts, Linked(V, l), NEW f \in Files
  PROVE  /\ Tail(V, l, f, 0) /\ GoesOn(l, f, 0, l.first[f])
         /\ \A d \in Clusters : l.own[d] = f => l.pos[d] < NClusters
<1>1. f # NONE
  BY Constants
<1>2. Tail(V, l, f, 0)
  <2> SUFFICES ASSUME NEW d \in Clusters, l.own[d] = f
               PROVE  IF V[d] \in Clusters THEN l.own[V[d]] = f /\ l.pos[V[d]] = l.pos[d] + 1
                      ELSE \A e \in Clusters : l.own[e] = f => l.pos[e] <= l.pos[d]
    BY DEF Tail
  <2>1. V[d] \in Clusters => l.own[V[d]] = f /\ l.pos[V[d]] = l.pos[d] + 1
    BY DEF Linked
  <2>2. V[d] \notin Clusters => \A e \in Clusters : l.own[e] = f => l.pos[e] <= l.pos[d]
    BY <1>1, LastOne
  <2> QED BY <2>1, <2>2
<1>3. GoesOn(l, f, 0, l.first[f])
  BY <1>1 DEF Linked, GoesOn
<1>4. \A d \in Clusters : l.own[d] = f => l.pos[d] < NClusters
  BY <1>1, PosBound
<1> QED BY <1>2, <1>3, <1>4

LEMMA EmptiedLinked ==
  ASSUME NEW V, NEW l \in Layouts, Linked(V, l), NEW f \in Files,
         NEW W, W = FreedFrom(V, l, f, 0), NEW k, k = Emptied(l, f)
  PROVE  Linked(W, k)
<1>1. f # NONE
  BY Constants
<1>2. \A d \in Clusters : W[d] = IF l.own[d] = f THEN FREE ELSE V[d]
  BY LayoutHas DEF FreedFrom
<1>3. /\ k \in Layouts /\ k.pos = l.pos
      /\ \A c \in Clusters : k.own[c] = IF l.own[c] = f THEN NONE ELSE l.own[c]
      /\ \A g \in Files : k.first[g] = IF g = f THEN FREE ELSE l.first[g]
  BY EmptiedIs
<1>4. \A d \in Clusters : W[d] = FREE <=> k.own[d] = NONE
  BY <1>2, <1>3 DEF Linked
<1>5. \A d \in Clusters : W[d] \in Clusters => k.own[W[d]] = k.own[d] /\ k.pos[W[d]] = k.pos[d] + 1
  <2> SUFFICES ASSUME NEW d \in Clusters, W[d] \in Clusters
               PROVE  k.own[W[d]] = k.own[d] /\ k.pos[W[d]] = k.pos[d] + 1
    OBVIOUS
  <2>1. W[d] = V[d] /\ l.own[d] # f
    BY <1>2, ClustersAre
  <2>2. l.own[V[d]] = l.own[d] /\ l.pos[V[d]] = l.pos[d] + 1
    BY <2>1 DEF Linked
  <2> QED BY <1>3, <2>1, <2>2
<1>6. \A d, b \in Clusters : k.own[d] # NONE /\ k.own[d] = k.own[b] /\ k.pos[d] = k.pos[b] => d = b
  BY <1>3 DEF Linked
<1>7. \A d \in Clusters : k.own[d] # NONE /\ k.pos[d] > 0 =>
          \E b \in Clusters : k.own[b] = k.own[d] /\ k.pos[d] = k.pos[b] + 1 /\ W[b] = d
  <2> SUFFICES ASSUME NEW d \in Clusters, k.own[d] # NONE, k.pos[d] > 0
               PROVE  \E b \in Clusters : k.own[b] = k.own[d] /\ k.pos[d] = k.pos[b] + 1 /\ W[b] = d
    OBVIOUS
  <2>1. l.own[d] # NONE /\ l.own[d] # f /\ k.own[d] = l.own[d] /\ l.pos[d] > 0
    BY <1>3
  <2>2. PICK b \in Clusters : l.own[b] = l.own[d] /\ l.pos[d] = l.pos[b] + 1 /\ V[b] = d
    BY <2>1 DEF Linked
  <2> QED BY <1>2, <1>3, <2>1, <2>2
<1>8. \A d \in Clusters : k.own[d] # NONE => k.first[k.own[d]] \in Clusters
  <2> SUFFICES ASSUME NEW d \in Clusters, k.own[d] # NONE
               PROVE  k.first[k.own[d]] \in Clusters
    OBVIOUS
  <2>1. l.own[d] # NONE /\ l.own[d] # f /\ k.own[d] = l.own[d] /\ l.own[d] \in Files
    BY <1>3, LayoutHas
  <2>2. l.first[l.own[d]] \in Clusters
    BY <2>1 DEF Linked
  <2> QED BY <1>3, <2>1, <2>2
<1>9. \A g \in Files : k.first[g] \in Clusters => k.own[k.first[g]] = g /\ k.pos[k.first[g]] = 0
  <2> SUFFICES ASSUME NEW g \in Files, k.first[g] \in Clusters
               PROVE  k.own[k.first[g]] = g /\ k.pos[k.first[g]] = 0
    OBVIOUS
  <2>1. g # f /\ k.first[g] = l.first[g]
    BY <1>3, ClustersAre
  <2>2. l.own[l.first[g]] = g /\ l.pos[l.first[g]] = 0
    BY <2>1 DEF Linked
  <2> QED BY <1>3, <2>1, <2>2
<1> QED BY <1>4, <1>5, <1>6, <1>7, <1>8, <1>9 DEF Linked

(* So may what comes after the cluster e of a file, once e is the last. *)
LEMMA RestTail ==
  ASSUME NEW V, Entire(V), NEW l \in Layouts, Linked(V, l), NEW f \in Files, NEW e \in Clusters,
         l.own[e] = f, NEW s \in Nat, s = l.pos[e] + 1, NEW U, U = [V EXCEPT ![e] = EOC]
  PROVE  /\ Tail(U, l, f, s) /\ GoesOn(l, f, s, V[e])
         /\ \A d \in Clusters : l.own[d] = f => l.pos[d] < NClusters
<1>1. f # NONE
  BY Constants
<1>2. \A d \in Clusters : d # e => U[d] = V[d]
  BY DEF Entire
<1>3. Tail(U, l, f, s)
  <2> SUFFICES ASSUME NEW d \in Clusters, l.own[d] = f, l.pos[d] >= s
               PROVE  IF U[d] \in Clusters THEN l.own[U[d]] = f /\ l.pos[U[d]] = l.pos[d] + 1
                      ELSE \A b \in Clusters : l.own[b] = f => l.pos[b] <= l.pos[d]
    BY DEF Tail
  <2>1. d # e
    BY LayoutHas
  <2>2. U[d] = V[d]
    BY <1>2, <2>1
  <2>3. V[d] \in Clusters => l.own[V[d]] = f /\ l.pos[V[d]] = l.pos[d] + 1
    BY DEF Linked
  <2>4. V[d] \notin Clusters => \A b \in Clusters : l.own[b] = f => l.pos[b] <= l.pos[d]
    BY <1>1, LastOne
  <2> QED BY <2>2, <2>3, <2>4
<1>4. GoesOn(l, f, s, V[e])
  <2>1. CASE V[e] \in Clusters
    BY <2>1 DEF Linked, GoesOn
  <2>2. CASE V[e] \notin Clusters
    <3>1. \A d \in Clusters : l.own[d] = f => l.pos[d] <= l.pos[e]
      BY <1>1, <2>2, LastOne
    <3>2. \A d \in Clusters : l.own[d] = f => l.pos[d] < s
      BY <3>1, LayoutHas
    <3> QED BY <2>2, <3>2 DEF GoesOn
  <2> QED BY <2>1, <2>2
<1>5. \A d \in Clusters : l.own[d] = f => l.pos[d] < NClusters
  BY <1>1, PosBound
<1> QED BY <1>3, <1>4, <1>5

LEMMA ShortenedLinked ==
  ASSUME NEW V, Entire(V), NEW l \in Layouts, Linked(V, l), NEW f \in Files, NEW e \in Clusters,
         l.own[e] = f, NEW s \in Nat, s = l.pos[e] + 1, NEW U, U = [V EXCEPT ![e] = EOC],
         NEW W, W = FreedFrom(U, l, f, s), NEW k, k = Shortened(l, f, s)
  PROVE  Linked(W, k)
<1>1. f # NONE
  BY Constants
<1>2. \A d \in Clusters : W[d] = IF l.own[d] = f /\ l.pos[d] >= s THEN FREE
                                 ELSE IF d = e THEN EOC ELSE V[d]
  BY DEF FreedFrom, Entire
<1>3. /\ k \in Layouts /\ k.pos = l.pos /\ k.first = l.first
      /\ \A c \in Clusters : k.own[c] = IF l.own[c] = f /\ l.pos[c] >= s THEN NONE ELSE l.own[c]
  BY ShortenedIs
<1>4. \A d \in Clusters : l.pos[d] \in Nat
  BY LayoutHas
<1>5. \A d \in Clusters : l.own[d] = f /\ ~(l.pos[d] >= s) => l.pos[d] <= l.pos[e]
  BY <1>4
<1>6. \A d \in Clusters : W[d] = FREE <=> k.own[d] = NONE
  <2> TAKE d \in Clusters
  <2>1. CASE l.own[d] = f /\ l.pos[d] >= s
    <3>1. W[d] = FREE
      BY <1>2, <2>1, Zenon
    <3>2. k.own[d] = NONE
      BY <1>3, <2>1, Zenon
    <3> QED BY <3>1, <3>2
  <2>2. CASE ~(l.own[d] = f /\ l.pos[d] >= s)
    <3>1. W[d] = IF d = e THEN EOC ELSE V[d]
      BY <1>2, <2>2, Zenon
    <3>2. k.own[d] = l.own[d]
      BY <1>3, <2>2, Zenon
    <3>3. V[d] = FREE <=> l.own[d] = NONE
      BY DEF Linked
    <3> QED BY <1>1, <3>1, <3>2, <3>3, ClustersAre
  <2> QED BY <2>1, <2>2
<1>7. \A d \in Clusters : W[d] \in Clusters => k.own[W[d]] = k.own[d] /\ k.pos[W[d]] = k.pos[d] + 1
  <2> SUFFICES ASSUME NEW d \in Clusters, W[d] \in Clusters
               PROVE  k.own[W[d]] = k.own[d] /\ k.pos[W[d]] = k.pos[d] + 1
    OBVIOUS
  <2>1. W[d] = V[d] /\ d # e /\ ~(l.own[d] = f /\ l.pos[d] >= s)
    BY <1>2, ClustersAre
  <2>2. l.own[V[d]] = l.own[d] /\ l.pos[V[d]] = l.pos[d] + 1
    BY <2>1 DEF Linked
  <2>3. CASE l.own[d] # f
    BY <1>3, <2>1, <2>2, <2>3
  <2>4. CASE l.own[d] = f
    <3>1. l.pos[d] # l.pos[e]
      BY <1>1, <2>1, <2>4 DEF Linked
    <3>2. l.pos[V[d]] < s
      BY <1>4, <1>5, <2>1, <2>2, <2>4, <3>1
    <3>3. k.own[V[d]] = f /\ k.own[d] = f
      BY <1>3, <1>4, <2>1, <2>2, <2>4, <3>2
    <3> QED BY <1>3, <2>1, <2>2, <3>3
  <2> QED BY <2>3, <2>4
<1>8. \A d, b \in Clusters : k.own[d] # NONE /\ k.own[d] = k.own[b] /\ k.pos[d] = k.pos[b] => d = b
  BY <1>3 DEF Linked
<1>9. \A d \in Clusters : k.own[d] # NONE /\ k.pos[d] > 0 =>
          \E b \in Clusters : k.own[b] = k.own[d] /\ k.pos[d] = k.pos[b] + 1 /\ W[b] = d
  <2> SUFFICES ASSUME NEW d \in Clusters, k.own[d] # NONE, k.pos[d] > 0
               PROVE  \E b \in Clusters : k.own[b] = k.own[d] /\ k.pos[d] = k.pos[b] + 1 /\ W[b] = d
    OBVIOUS
  <2>1. l.own[d] # NONE /\ k.own[d] = l.own[d] /\ l.pos[d] > 0 /\ ~(l.own[d] = f /\ l.pos[d] >= s)
    BY <1>3
  <2>2. PICK b \in Clusters : l.own[b] = l.own[d] /\ l.pos[d] = l.pos[b] + 1 /\ V[b] = d
    BY <2>1 DEF Linked
  <2>3. ~(l.own[b] = f /\ l.pos[b] >= s)
    BY <1>4, <2>1, <2>2
  <2>4. b # e
    BY <1>4, <2>1, <2>2
  <2>5. W[b] = d /\ k.own[b] = l.own[b]
    BY <1>2, <1>3, <2>2, <2>3, <2>4
  <2> QED BY <1>3, <2>1, <2>2, <2>5
<1>10. \A d \in Clusters : k.own[d] # NONE => k.first[k.own[d]] \in Clusters
  BY <1>3 DEF Linked
<1>11. \A g \in Files : k.first[g] \in Clusters => k.own[k.first[g]] = g /\ k.pos[k.first[g]] = 0
  <2> SUFFICES ASSUME NEW g \in Files, k.first[g] \in Clusters
               PROVE  k.own[k.first[g]] = g /\ k.pos[k.first[g]] = 0
    OBVIOUS
  <2>1. l.own[l.first[g]] = g /\ l.pos[l.first[g]] = 0 /\ l.first[g] = k.first[g]
    BY <1>3 DEF Linked
  <2>2. s > 0
    BY <1>4
  <2> QED BY <1>3, <2>1, <2>2
<1> QED BY <1>6, <1>7, <1>8, <1>9, <1>10, <1>11 DEF Linked

(* The chains, as the properties name them *)
ChainNext(V, c) == IF c \in Clusters THEN V[c] ELSE EOC
ChainTurns(g, V, first, n) ==
    g = [k \in 0 .. n |-> IF k = 0 THEN first ELSE ChainNext(V, g[k - 1])]

LEMMA ChainTurnsExist ==
  ASSUME NEW t \in Tables, NEW first \in Entry, NEW n \in Nat
  PROVE  \E g : ChainTurns(g, View(t), first, n) /\ ChainAt(t, first, n) = g[n]
<1>1. PICK V : V = View(t) /\ V \in [Clusters -> Entry]
  BY ViewTypes
<1> DEFINE X == (0 .. n) \X Entry
           S == [p \in Entry \X (1 .. n) |-> ChainNext(V, p[1])]
<1>2. <<0, first>> \in X
  OBVIOUS
<1>3. ASSUME NEW k \in 0 + 1 .. n, NEW x, <<k - 1, x>> \in X
      PROVE  S[<<x, k>>] = ChainNext(V, x) /\ <<k, ChainNext(V, x)>> \in X
  <2>1. x \in Entry /\ k \in 1 .. n /\ k \in 0 .. n
    BY <1>3
  <2>2. ChainNext(V, x) \in Entry
    BY <1>1, <2>1, ClustersAre DEF ChainNext
  <2> QED BY <2>1, <2>2
<1> HIDE DEF X, S
<1>4. PICK g : Turns(g, X, 0, n, first, S)
  <2>1. \A k \in 0 + 1 .. n : \A x : <<k - 1, x>> \in X => <<k, S[<<x, k>>]>> \in X
    BY <1>3
  <2>2. 0 \in Nat /\ n \in Nat /\ 0 <= n
    OBVIOUS
  <2> QED BY ONLY <1>2, <2>1, <2>2, TurnsExist
<1>5. ChainTurns(g, V, first, n)
  <2>1. ASSUME NEW i \in 0 .. n, i # 0 PROVE g[i] = ChainNext(V, g[i - 1])
    <3>1. i \in 0 + 1 .. n /\ i - 1 \in 0 .. n
      BY <2>1
    <3>2. <<i - 1, g[i - 1]>> \in X /\ g[i] = S[<<g[i - 1], i>>]
      BY <1>4, <3>1 DEF Turns
    <3> QED BY <1>3, <3>1, <3>2
  <2>2. g = [i \in 0 .. n |-> g[i]] /\ g[0] = first
    BY <1>4 DEF Turns
  <2>3. g = [i \in 0 .. n |-> IF i = 0 THEN first ELSE ChainNext(V, g[i - 1])]
    BY <2>1, <2>2
  <2> QED BY <2>3 DEF ChainTurns
<1> DEFINE h == CHOOSE z : ChainTurns(z, View(t), first, n)
<1>6. ChainTurns(h, View(t), first, n)
  BY <1>1, <1>5
<1>7. ChainAt(t, first, n) = h[n]
  BY DEF ChainAt, ChainTurns, ChainNext
<1> QED BY <1>6, <1>7

LEMMA ChainGoesOn ==
  ASSUME NEW t \in Tables, NEW l \in Layouts, Linked(View(t), l), NEW f \in Files,
         NEW first \in Entry, GoesOn(l, f, 0, first), NEW n \in Nat
  PROVE  GoesOn(l, f, n, ChainAt(t, first, n))
<1>1. PICK V : V = View(t) /\ Linked(V, l)
  OBVIOUS
<1>2. PICK g : ChainTurns(g, V, first, n) /\ ChainAt(t, first, n) = g[n]
  BY <1>1, ChainTurnsExist
<1> DEFINE I == {k \in 0 .. n : GoesOn(l, f, k, g[k])}
<1>3. 0 \in I
  <2>1. g[0] = first
    BY <1>2 DEF ChainTurns
  <2> QED BY <2>1
<1>4. ASSUME NEW k \in 0 + 1 .. n, k - 1 \in I PROVE k \in I
  <2>1. g[k] = ChainNext(V, g[k - 1])
    <3>1. k \in 0 .. n /\ k # 0
      OBVIOUS
    <3> QED BY <1>2, <3>1 DEF ChainTurns
  <2>2. PICK c : c = g[k - 1] /\ GoesOn(l, f, k - 1, c)
    BY <1>4
  <2>3. CASE c \notin Clusters
    <3>1. g[k] = EOC
      BY <2>1, <2>2, <2>3 DEF ChainNext
    <3>2. \A e \in Clusters : l.own[e] = f => l.pos[e] < k
      BY <2>2, <2>3, LayoutHas DEF GoesOn
    <3>3. GoesOn(l, f, k, EOC)
      BY <3>2, ClustersAre DEF GoesOn
    <3> QED BY <3>1, <3>3
  <2>4. CASE c \in Clusters
    <3>1. g[k] = V[c] /\ l.own[c] = f /\ l.pos[c] = k - 1 /\ f # NONE
      BY <2>1, <2>2, <2>4, Constants DEF ChainNext, GoesOn
    <3>2. CASE V[c] \in Clusters
      <4>1. l.own[V[c]] = f /\ l.pos[V[c]] = (k - 1) + 1
        BY <1>1, <2>4, <3>1, <3>2 DEF Linked
      <4>2. GoesOn(l, f, k, V[c])
        BY <3>2, <4>1 DEF GoesOn
      <4> QED BY <3>1, <4>2
    <3>3. CASE V[c] \notin Clusters
      <4>1. \A e \in Clusters : l.own[e] = f => l.pos[e] <= k - 1
        BY <1>1, <2>4, <3>1, <3>3, LastOne
      <4>2. \A e \in Clusters : l.own[e] = f => l.pos[e] < k
        BY <4>1, LayoutHas
      <4>3. GoesOn(l, f, k, V[c])
        BY <3>3, <4>2 DEF GoesOn
      <4> QED BY <3>1, <4>3
    <3> QED BY <3>2, <3>3
  <2> QED BY <2>3, <2>4
<1> HIDE DEF I
<1>5. \A k \in 0 .. n : k \in I
  <2>1. 0 \in Nat /\ n \in Nat
    OBVIOUS
  <2> QED BY ONLY <1>3, <1>4, <2>1, Upwards, Zenon
<1>6. n \in I
  BY <1>5
<1> QED BY <1>2, <1>6 DEF I

(* A cluster is found at its place. *)
LEMMA ChainHas ==
  ASSUME NEW t \in Tables, NEW l \in Layouts, Linked(View(t), l), NEW first \in Clusters,
         l.own[first] # NONE, l.pos[first] = 0, NEW c \in Clusters, l.own[c] = l.own[first]
  PROVE  ChainAt(t, first, l.pos[c]) = c
<1>1. PICK f \in Files : f = l.own[first]
  BY LayoutHas
<1>2. GoesOn(l, f, 0, first)
  BY <1>1 DEF GoesOn
<1>3. PICK n \in Nat : n = l.pos[c]
  BY LayoutHas
<1>4. PICK d : d = ChainAt(t, first, n)
  OBVIOUS
<1>5. GoesOn(l, f, n, d)
  BY <1>2, <1>4, ClustersAre, ChainGoesOn
<1>6. d \in Clusters /\ l.own[d] = f /\ l.pos[d] = n
  BY <1>1, <1>3, <1>5 DEF GoesOn
<1>7. d = c
  BY <1>1, <1>3, <1>6 DEF Linked
<1> QED BY <1>3, <1>4, <1>7

LEMMA ChainIs ==
  ASSUME NEW t \in Tables, NEW l \in Layouts, Linked(View(t), l), NEW f \in Files
  PROVE  Chain(t, l.first[f]) = ClustersOf(l, f)
<1>1. PICK first \in Entry : first = l.first[f]
  BY LayoutHas, KnownAre
<1>2. GoesOn(l, f, 0, first)
  BY <1>1, WholeTail
<1>3. f # NONE /\ NClusters \in Nat
  BY Constants, ClustersFinite
<1>4. ASSUME NEW c \in Clusters, l.own[c] = f
      PROVE  \E n \in 0 .. NClusters - 1 : ChainAt(t, first, n) = c
  <2>1. l.own[first] = f /\ l.pos[first] = 0 /\ first \in Clusters
    BY <1>1, <1>3, <1>4 DEF Linked
  <2>2. ChainAt(t, first, l.pos[c]) = c
    BY <1>3, <1>4, <2>1, ChainHas
  <2>3. l.pos[c] \in Nat /\ l.pos[c] < NClusters
    BY <1>3, <1>4, LayoutHas, PosBound
  <2>4. l.pos[c] \in 0 .. NClusters - 1
    BY <1>3, <2>3
  <2> QED BY <2>2, <2>4
<1>5. ASSUME NEW n \in 0 .. NClusters - 1, ChainAt(t, first, n) \in Clusters
      PROVE  l.own[ChainAt(t, first, n)] = f
  <2>1. n \in Nat
    BY <1>3
  <2>2. GoesOn(l, f, n, ChainAt(t, first, n))
    BY <1>2, <2>1, ChainGoesOn
  <2> QED BY <1>5, <2>2 DEF GoesOn
<1>6. Chain(t, first) = {ChainAt(t, first, n) : n \in 0 .. NClusters - 1} \cap Clusters
  BY DEF Chain, NClusters
<1>7. \A c : c \in Chain(t, first) <=> c \in ClustersOf(l, f)
  BY <1>4, <1>5, <1>6 DEF ClustersOf
<1> QED BY <1>1, <1>7

-----------------------------------------------------------------------------
(* Volumes that are laid out                                               *)

Positioned(l, first, i, c) ==
    /\ first \in Clusters /\ l.own[first] # NONE /\ l.pos[first] = 0
    /\ c \in Clusters /\ l.own[c] = l.own[first] /\ l.pos[c] = i
SlotRight(l, s) == s.cluster \in Clusters => Positioned(l, s.first, s.index, s.cluster)
HandleRight(l, o) == o.lastCluster \in Clusters => Positioned(l, o.first, o.lastIndex, o.lastCluster)
HandleAgrees(l, r, o) ==
    IF o.file = NONE THEN o.lastCluster = FREE /\ ~o.dirty
    ELSE /\ r[o.file] # NONE /\ o.first = l.first[o.file] /\ o.size = l.size[o.file]
         /\ o.dirty => o.write
         /\ HandleRight(l, o)
Exclusive(H) ==
    \A h, g \in Handles : H[h].file # NONE /\ H[h].file = H[g].file /\ H[h].write => h = g
EntryAgrees(l, f, e) ==
    IF e = NONE THEN l.first[f] = FREE /\ l.size[f] = 0
    ELSE l.first[f] = e.first /\ l.size[f] = e.size
Unsaved(H, f) == \E h \in Handles : H[h].file = f /\ H[h].dirty
Backed(l, f) ==
    l.size[f] = 0 \/ \E c \in Clusters : l.own[c] = f /\ l.pos[c] = (l.size[f] - 1) \div ClusterUnits
Laid(v, l) ==
    /\ Linked(View(v.fat), l)
    /\ \A n \in SlotNumbers : SlotRight(l, v.slots[n])
    /\ \A h \in Handles : HandleAgrees(l, v.root, v.hs[h])
    /\ Exclusive(v.hs)
    /\ \A f \in Files : Unsaved(v.hs, f) \/ EntryAgrees(l, f, v.root[f])
    /\ \A f \in Files : Backed(l, f)
Fine(v, l) == v \in Vols /\ l \in Layouts /\ v.fat.fails = {} /\ ~v.fat.ioerr /\ Laid(v, l)

LEMMA FineHas ==
  ASSUME NEW v, NEW l, Fine(v, l)
  PROVE  /\ v \in Vols /\ l \in Layouts /\ v.fat \in Tables /\ v.fat.fails = {} /\ ~v.fat.ioerr
         /\ Linked(View(v.fat), l) /\ Entire(View(v.fat))
         /\ \A h \in Handles : v.hs[h] \in KnownHandle /\ HandleAgrees(l, v.root, v.hs[h])
         /\ Exclusive(v.hs)
BY VolHas, ViewTypes DEF Fine, Laid, Entire

LEMMA PositionsStay ==
  ASSUME NEW l, NEW k, Extends(l, k), NEW first, NEW i, NEW c, Positioned(l, first, i, c)
  PROVE  Positioned(k, first, i, c)
BY DEF Extends, Positioned

(* Another table that says the same. *)
LEMMA SameViewFine ==
  ASSUME NEW v, NEW l, Fine(v, l), NEW u, OnlyTable(v, u), SameView(v, u)
  PROVE  Fine(u, l)
BY DEF Fine, Laid, OnlyTable, SameView

(* A lookup is remembered. *)
LEMMA StoredFine ==
  ASSUME NEW v, NEW l, Fine(v, l), NEW h \in Handles, v.hs[h].file # NONE, NEW i \in Nat,
         NEW c \in Clusters, Positioned(l, v.hs[h].first, i, c), NEW u, StoredAt(v, u, h, i, c)
  PROVE  Fine(u, l)
<1>1. v \in Vols /\ u \in Vols /\ l \in Layouts
  BY DEF Fine, StoredAt
<1>2. PICK o \in KnownHandle : o = v.hs[h]
  BY <1>1, VolHas
<1>3. PICK p \in KnownHandle : p = Located(o, i, c)
  BY <1>2, KnownAre, LocatedIs
<1>4. /\ p.lastIndex = i /\ p.lastCluster = c
      /\ p.file = o.file /\ p.write = o.write /\ p.first = o.first /\ p.size = o.size
      /\ p.pos = o.pos /\ p.dirty = o.dirty
  BY <1>3, KnownAre, LocatedIs
<1>5. u.hs[h] = p /\ \A g \in Handles : g # h => u.hs[g] = v.hs[g]
  BY <1>2, <1>3 DEF StoredAt
<1>6. \A n \in SlotNumbers : SlotRight(l, u.slots[n])
  <2> TAKE n \in SlotNumbers
  <2>1. CASE u.slots[n] = v.slots[n]
    BY <2>1 DEF Fine, Laid
  <2>2. CASE u.slots[n] = CachedAt(v.hs[h], i, c)
    BY <2>2 DEF CachedAt, SlotRight
  <2> QED BY <2>1, <2>2 DEF StoredAt
<1>7. \A g \in Handles : HandleAgrees(l, u.root, u.hs[g])
  <2> TAKE g \in Handles
  <2>1. HandleAgrees(l, v.root, v.hs[g]) /\ u.root = v.root
    BY DEF Fine, Laid, StoredAt
  <2>2. CASE g # h
    BY <1>5, <2>1, <2>2
  <2>3. CASE g = h
    <3>1. HandleRight(l, p)
      BY <1>2, <1>4 DEF HandleRight
    <3> QED BY <1>2, <1>4, <1>5, <2>1, <2>3, <3>1 DEF HandleAgrees
  <2> QED BY <2>2, <2>3
<1>8. \A g \in Handles : u.hs[g].file = v.hs[g].file /\ u.hs[g].write = v.hs[g].write
                         /\ u.hs[g].dirty = v.hs[g].dirty
  BY <1>2, <1>4, <1>5
<1>9. Exclusive(u.hs)
  BY <1>8 DEF Fine, Laid, Exclusive
<1>10. \A f \in Files : Unsaved(u.hs, f) \/ EntryAgrees(l, f, u.root[f])
  <2>1. u.root = v.root
    BY DEF StoredAt
  <2> QED BY <1>8, <2>1 DEF Fine, Laid, Unsaved
<1>11. u.fat = v.fat
  BY DEF StoredAt
<1> QED BY <1>1, <1>6, <1>7, <1>9, <1>10, <1>11 DEF Fine, Laid

(* A cluster is added to a file's chain. *)
LEMMA JoinedFine ==
  ASSUME NEW v, NEW l, Fine(v, l), NEW f \in Files, NEW e \in Clusters, NEW c \in Clusters,
         l.own[e] = f, NEW u, OnlyTable(v, u), u.fat.ioerr = v.fat.ioerr,
         View(v.fat)[e] = EOC, View(v.fat)[c] = FREE,
         View(u.fat) = [[View(v.fat) EXCEPT ![c] = EOC] EXCEPT ![e] = c]
  PROVE  \E k : Fine(u, k) /\ Extends(l, k) /\ k.own[c] = f /\ k.pos[c] = l.pos[e] + 1
<1>1. PICK V : V = View(v.fat) /\ Entire(V) /\ Linked(V, l) /\ l \in Layouts
  BY FineHas
<1>2. PICK k : k = Joined(l, c, f, l.pos[e] + 1)
  OBVIOUS
<1>3. k \in Layouts /\ Linked(View(u.fat), k) /\ Extends(l, k) /\ k.own[c] = f
      /\ k.pos[c] = l.pos[e] + 1 /\ k.first = l.first /\ k.size = l.size
  BY <1>1, <1>2, JoinedLinked
<1>4. \A n \in SlotNumbers : SlotRight(k, u.slots[n])
  BY <1>3, PositionsStay DEF Fine, Laid, OnlyTable, SlotRight
<1>5. \A h \in Handles : HandleAgrees(k, u.root, u.hs[h])
  <2> TAKE h \in Handles
  <2>1. HandleAgrees(l, v.root, v.hs[h]) /\ u.root = v.root /\ u.hs = v.hs
    BY DEF Fine, Laid, OnlyTable
  <2>2. HandleRight(l, v.hs[h]) => HandleRight(k, v.hs[h])
    BY <1>3, PositionsStay DEF HandleRight
  <2> QED BY <1>3, <2>1, <2>2 DEF HandleAgrees
<1>6. Exclusive(u.hs)
  BY DEF Fine, Laid, OnlyTable
<1>7. \A g \in Files : Unsaved(u.hs, g) \/ EntryAgrees(k, g, u.root[g])
  BY <1>3 DEF Fine, Laid, OnlyTable, EntryAgrees
<1>8. \A g \in Files : Backed(k, g)
  <2> TAKE g \in Files
  <2>1. Backed(l, g) /\ g # NONE
    BY Constants DEF Fine, Laid
  <2> QED BY <1>3, <2>1 DEF Backed, Extends
<1>9. Fine(u, k)
  BY <1>3, <1>4, <1>5, <1>6, <1>7, <1>8 DEF Fine, Laid, OnlyTable
<1> QED BY <1>3, <1>9

-----------------------------------------------------------------------------
(* What a writer changes                                                   *)

LEMMA OpenHandle ==
  ASSUME NEW v, NEW l, Fine(v, l), NEW h \in Handles, v.hs[h].file # NONE
  PROVE  /\ v.hs[h].file \in Files /\ v.hs[h] \in KnownHandle /\ v.root[v.hs[h].file] # NONE
         /\ v.hs[h].first = l.first[v.hs[h].file] /\ v.hs[h].size = l.size[v.hs[h].file]
         /\ v.hs[h].dirty => v.hs[h].write
         /\ HandleRight(l, v.hs[h])
<1>1. v.hs[h] \in KnownHandle /\ HandleAgrees(l, v.root, v.hs[h])
  BY FineHas
<1>2. v.hs[h].file \in Files
  BY <1>1, HandleHas
<1> QED BY <1>1, <1>2 DEF HandleAgrees

(* Handles that are the same but for what they remember of their place. *)
Alike(o, p) ==
    /\ p.file = o.file /\ p.write = o.write /\ p.first = o.first /\ p.size = o.size
    /\ p.dirty = o.dirty
    /\ o.lastCluster = FREE => p.lastCluster = FREE

LEMMA AlikeAgrees ==
  ASSUME NEW l, NEW k, NEW r, NEW o, NEW p, HandleAgrees(l, r, o), Alike(o, p), HandleRight(k, p),
         o.file # NONE => k.first[o.file] = l.first[o.file] /\ k.size[o.file] = l.size[o.file]
  PROVE  HandleAgrees(k, r, p)
BY DEF HandleAgrees, Alike

(* The writer h of a file changes its chain or its size. *)
LEMMA WriterFine ==
  ASSUME NEW v, NEW l, Fine(v, l), NEW h \in Handles, v.hs[h].file # NONE, v.hs[h].write,
         NEW u \in Vols, u.fat.fails = {}, ~u.fat.ioerr, u.root = v.root,
         NEW k \in Layouts, Linked(View(u.fat), k),
         \A n \in SlotNumbers : SlotRight(k, u.slots[n]),
         \A g \in Handles : HandleRight(k, u.hs[g]),
         \A g \in Handles : g # h => Alike(v.hs[g], u.hs[g]),
         u.hs[h].file = v.hs[h].file, u.hs[h].write,
         u.hs[h].first = k.first[v.hs[h].file], u.hs[h].size = k.size[v.hs[h].file],
         \A f \in Files : f # v.hs[h].file => k.first[f] = l.first[f] /\ k.size[f] = l.size[f],
         u.hs[h].dirty \/ (~v.hs[h].dirty /\ k.first[v.hs[h].file] = l.first[v.hs[h].file]
                                          /\ k.size[v.hs[h].file] = l.size[v.hs[h].file]),
         \A f \in Files : Backed(k, f)
  PROVE  Fine(u, k)
<1>1. PICK f \in Files : f = v.hs[h].file
  BY OpenHandle
<1>2. \A g \in Handles : v.hs[g].file = f => g = h
  BY <1>1 DEF Fine, Laid, Exclusive
<1>3. \A g \in Handles : HandleAgrees(k, u.root, u.hs[g])
  <2> TAKE g \in Handles
  <2>1. CASE g = h
    <3>1. v.root[f] # NONE
      BY <1>1, OpenHandle
    <3> QED BY <1>1, <2>1, <3>1 DEF HandleAgrees
  <2>2. CASE g # h
    <3>1. HandleAgrees(l, v.root, v.hs[g])
      BY FineHas
    <3>2. v.hs[g].file # f
      BY <1>2, <2>2
    <3>3. v.hs[g].file # NONE => v.hs[g].file \in Files
      BY FineHas, HandleHas
    <3>4. v.hs[g].file # NONE => /\ k.first[v.hs[g].file] = l.first[v.hs[g].file]
                                 /\ k.size[v.hs[g].file] = l.size[v.hs[g].file]
      BY <1>1, <3>2, <3>3
    <3> QED BY <2>2, <3>1, <3>4, AlikeAgrees
  <2> QED BY <2>1, <2>2
<1>4. Exclusive(u.hs)
  <2>1. \A g \in Handles : u.hs[g].file = v.hs[g].file /\ (u.hs[g].write <=> v.hs[g].write)
    BY DEF Alike
  <2> QED BY <2>1 DEF Fine, Laid, Exclusive
<1>5. \A g \in Files : Unsaved(u.hs, g) \/ EntryAgrees(k, g, u.root[g])
  <2> TAKE g \in Files
  <2>1. Unsaved(v.hs, g) \/ EntryAgrees(l, g, v.root[g])
    BY DEF Fine, Laid
  <2>2. CASE g # f
    <3>1. Unsaved(v.hs, g) => Unsaved(u.hs, g)
      BY <1>1, <2>2 DEF Unsaved, Alike
    <3> QED BY <1>1, <2>1, <2>2, <3>1 DEF EntryAgrees
  <2>3. CASE g = f
    <3>1. CASE u.hs[h].dirty
      BY <1>1, <2>3, <3>1 DEF Unsaved
    <3>2. CASE ~u.hs[h].dirty
      <4>1. ~Unsaved(v.hs, f)
        BY <1>1, <1>2, <3>2 DEF Unsaved
      <4> QED BY <1>1, <2>1, <2>3, <3>2, <4>1 DEF EntryAgrees
    <3> QED BY <3>1, <3>2
  <2> QED BY <2>2, <2>3
<1> QED BY <1>3, <1>4, <1>5 DEF Fine, Laid

(* A layout that extends another: nothing known of a position is wrong. *)
LEMMA ExtendsRight ==
  ASSUME NEW v, NEW l, Fine(v, l), NEW k, Extends(l, k)
  PROVE  /\ \A n \in SlotNumbers : SlotRight(k, v.slots[n])
         /\ \A h \in Handles : HandleRight(k, v.hs[h])
         /\ \A f \in Files : k.size[f] = l.size[f] => Backed(k, f)
<1>1. \A n \in SlotNumbers : SlotRight(k, v.slots[n])
  BY PositionsStay DEF Fine, Laid, SlotRight
<1>2. \A h \in Handles : HandleRight(k, v.hs[h])
  <2> TAKE h \in Handles
  <2>1. HandleRight(l, v.hs[h])
    <3>1. HandleAgrees(l, v.root, v.hs[h])
      BY FineHas
    <3> QED BY <3>1, ClustersAre DEF HandleAgrees, HandleRight
  <2> QED BY <2>1, PositionsStay DEF HandleRight
<1>3. \A f \in Files : k.size[f] = l.size[f] => Backed(k, f)
  <2> SUFFICES ASSUME NEW f \in Files, k.size[f] = l.size[f] PROVE Backed(k, f)
    OBVIOUS
  <2>1. Backed(l, f) /\ f # NONE
    BY Constants DEF Fine, Laid
  <2> QED BY <2>1 DEF Backed, Extends
<1> QED BY <1>1, <1>2, <1>3

(* A file's first cluster. *)
LEMMA FirstJoinedFine ==
  ASSUME NEW v, NEW l, Fine(v, l), NEW h \in Handles, v.hs[h].file # NONE, v.hs[h].write,
         v.hs[h].first = FREE,
         NEW c \in Clusters, View(v.fat)[c] = FREE,
         NEW u \in Vols, u.fat.fails = {}, ~u.fat.ioerr, View(u.fat) = [View(v.fat) EXCEPT ![c] = EOC],
         u.slots = v.slots, u.root = v.root, u.hs[h] = Started(v.hs[h], c),
         \A g \in Handles : g # h => u.hs[g] = v.hs[g]
  PROVE  \E k : /\ Fine(u, k) /\ Extends(l, k) /\ k.own[c] = v.hs[h].file /\ k.pos[c] = 0
<1>1. PICK V : V = View(v.fat) /\ Entire(V) /\ Linked(V, l) /\ l \in Layouts
  BY FineHas
<1>2. PICK f \in Files : f = v.hs[h].file
  BY OpenHandle
<1>3. l.first[f] = FREE
  BY <1>2, OpenHandle
<1>4. PICK k : k = FirstJoined(l, c, f)
  OBVIOUS
<1>5. k \in Layouts /\ Linked(View(u.fat), k) /\ Extends(l, k) /\ k.own[c] = f
      /\ k.pos[c] = 0 /\ k.size = l.size
      /\ \A g \in Files : k.first[g] = IF g = f THEN c ELSE l.first[g]
  BY <1>1, <1>3, <1>4, ClustersAre, FirstJoinedLinked
<1>6. PICK p \in KnownHandle : p = u.hs[h]
  BY VolHas
<1>7. /\ p.first = c /\ p.dirty
      /\ p.file = f /\ p.write /\ p.size = v.hs[h].size
      /\ p.lastIndex = v.hs[h].lastIndex /\ p.lastCluster = v.hs[h].lastCluster
  BY <1>2, <1>6, FineHas, KnownAre, StartedIs
<1>8. \A n \in SlotNumbers : SlotRight(k, u.slots[n])
  BY <1>5, ExtendsRight
<1>9. v.hs[h].lastCluster \notin Clusters
  <2>1. HandleRight(l, v.hs[h])
    BY OpenHandle
  <2> QED BY <2>1, ClustersAre DEF HandleRight, Positioned
<1>10. \A g \in Handles : HandleRight(k, u.hs[g])
  <2> TAKE g \in Handles
  <2>1. CASE g = h
    BY <1>6, <1>7, <1>9, <2>1 DEF HandleRight
  <2>2. CASE g # h
    BY <1>5, <2>2, ExtendsRight
  <2> QED BY <2>1, <2>2
<1>11. \A g \in Handles : g # h => Alike(v.hs[g], u.hs[g])
  BY DEF Alike
<1>12. u.hs[h].size = k.size[f]
  BY <1>2, <1>5, <1>6, <1>7, OpenHandle
<1>13. \A g \in Files : Backed(k, g)
  BY <1>5, ExtendsRight
<1>14. Fine(u, k)
  BY <1>2, <1>5, <1>6, <1>7, <1>8, <1>10, <1>11, <1>12, <1>13, WriterFine
<1> QED BY <1>2, <1>5, <1>14

(* Another size, which the chain backs. *)
LEMMA ResizedFine ==
  ASSUME NEW v, NEW l, Fine(v, l), NEW h \in Handles, v.hs[h].file # NONE, v.hs[h].write,
         NEW p \in KnownHandle, NEW u, OnlyHandle(v, u, h, p),
         p.file = v.hs[h].file, p.write, p.first = v.hs[h].first,
         p.lastIndex = v.hs[h].lastIndex, p.lastCluster = v.hs[h].lastCluster,
         p.dirty \/ (~v.hs[h].dirty /\ p.size = v.hs[h].size),
         Backed(Resized(l, p.file, p.size), p.file)
  PROVE  \E k : /\ Fine(u, k) /\ k.own = l.own /\ k.pos = l.pos /\ k.first = l.first
                /\ k = Resized(l, p.file, p.size)
<1>1. PICK f \in Files : f = v.hs[h].file
  BY OpenHandle
<1>2. PICK n \in Sizes : n = p.size
  BY HandleHas
<1>3. PICK k : k = Resized(l, f, n)
  OBVIOUS
<1>4. l \in Layouts
  BY FineHas
<1>5. k \in Layouts /\ k.own = l.own /\ k.pos = l.pos /\ k.first = l.first
  BY <1>3, <1>4, ResizedIs
<1>6. \A g \in Files : k.size[g] = IF g = f THEN n ELSE l.size[g]
  BY <1>3, <1>4, ResizedIs
<1>7. Extends(l, k)
  BY <1>5 DEF Extends
<1>8. u \in Vols /\ u.fat = v.fat /\ u.slots = v.slots /\ u.root = v.root /\ u.hs[h] = p
      /\ \A g \in Handles : g # h => u.hs[g] = v.hs[g]
  BY DEF OnlyHandle
<1>9. Linked(View(u.fat), k) /\ u.fat.fails = {} /\ ~u.fat.ioerr
  BY <1>5, <1>8, FineHas, ResizedLinked
<1>10. \A m \in SlotNumbers : SlotRight(k, u.slots[m])
  BY <1>7, <1>8, ExtendsRight
<1>11. \A g \in Handles : HandleRight(k, u.hs[g])
  <2> TAKE g \in Handles
  <2>1. HandleRight(k, v.hs[g])
    BY <1>7, ExtendsRight
  <2> QED BY <1>8, <2>1 DEF HandleRight
<1>12. \A g \in Handles : g # h => Alike(v.hs[g], u.hs[g])
  BY <1>8 DEF Alike
<1>13. \A g \in Files : Backed(k, g)
  BY <1>1, <1>2, <1>3, <1>6, <1>7, ExtendsRight
<1>14. v.hs[h].first = l.first[f] /\ v.hs[h].size = l.size[f]
  BY <1>1, OpenHandle
<1>15. Fine(u, k)
  BY <1>1, <1>2, <1>5, <1>6, <1>8, <1>9, <1>10, <1>11, <1>12, <1>13, <1>14, WriterFine
<1> QED BY <1>1, <1>2, <1>3, <1>5, <1>15

-----------------------------------------------------------------------------
(* A walk along a chain                                                    *)

Full(v) == \A c \in Clusters : View(v.fat)[c] # FREE

LEMMA LookupFine ==
  ASSUME NEW v, NEW l, Fine(v, l), NEW h \in Handles, v.hs[h].file # NONE,
         v.hs[h].first \in Clusters, NEW i \in Nat, NEW e, e = CacheLookup(v, h, i)
  PROVE  /\ Positioned(l, v.hs[h].first, e.index, e.cluster)
         /\ l.own[e.cluster] = v.hs[h].file /\ l.own[v.hs[h].first] = v.hs[h].file
         /\ e.index \in Nat /\ e.index <= i /\ e.cluster \in Clusters
<1>1. v \in Vols /\ l \in Layouts /\ Linked(View(v.fat), l)
  BY FineHas
<1>2. PICK f \in Files : f = v.hs[h].file
  BY OpenHandle
<1>3. PICK first \in Clusters : first = v.hs[h].first
  OBVIOUS
<1>4. first = l.first[f] /\ HandleRight(l, v.hs[h]) /\ f # NONE
  BY <1>2, <1>3, OpenHandle, Constants
<1>5. l.own[first] = f /\ l.pos[first] = 0
  BY <1>1, <1>4 DEF Linked
<1>6. StartsAt(v, h, e) /\ e.index \in Nat /\ e.index <= i /\ e.cluster \in Clusters
  BY <1>1, CacheLookupIs
<1>7. Positioned(l, first, e.index, e.cluster)
  <2>1. CASE e = Beginning(v.hs[h])
    BY <1>3, <1>4, <1>5, <2>1 DEF Beginning, Positioned
  <2>2. CASE e = OwnPosition(v.hs[h]) /\ v.hs[h].lastCluster \in Clusters
    BY <1>3, <1>4, <2>2 DEF OwnPosition, HandleRight
  <2>3. CASE \E n \in SlotNumbers :
                /\ e = SlotPosition(v.slots[n]) /\ v.slots[n].cluster \in Clusters
                /\ v.slots[n].first = v.hs[h].first
    <3>1. PICK n \in SlotNumbers : /\ e = SlotPosition(v.slots[n]) /\ v.slots[n].cluster \in Clusters
                                   /\ v.slots[n].first = first
      BY <1>3, <2>3
    <3>2. SlotRight(l, v.slots[n])
      BY DEF Fine, Laid
    <3> QED BY <3>1, <3>2 DEF SlotRight, SlotPosition
  <2> QED BY <1>6, <2>1, <2>2, <2>3 DEF StartsAt
<1>8. l.own[e.cluster] = f
  BY <1>5, <1>7 DEF Positioned
<1> QED BY <1>2, <1>3, <1>5, <1>6, <1>7, <1>8

(* The walk has come to place j of the file f's chain, or found no room.   *)
Came(l, q, f, j, short) ==
    IF q.a = "more" THEN q.c \in Clusters /\ l.own[q.c] = f /\ l.pos[q.c] = j
    ELSE q.a = short /\ Full(q.v)
WalkFine(q, f, j, short) == \E l : Fine(q.v, l) /\ Came(l, q, f, j, short)

LEMMA WalkNextFine ==
  ASSUME NEW p \in Writes, NEW f \in Files, NEW j \in Nat, NEW short \in Shorts,
         WalkFine(p, f, j, short)
  PROVE  WalkFine(GetNext(p, short), f, j + 1, short)
<1>1. PICK l : Fine(p.v, l) /\ Came(l, p, f, j, short)
  BY DEF WalkFine
<1>2. CASE p.a # "more"
  <2>1. GetNext(p, short) = p
    BY <1>2 DEF GetNext
  <2>2. Came(l, p, f, j + 1, short)
    BY <1>1, <1>2 DEF Came
  <2> QED BY <1>1, <2>1, <2>2 DEF WalkFine
<1>3. CASE p.a = "more"
  <2>1. p.c \in Clusters /\ l.own[p.c] = f /\ l.pos[p.c] = j
    BY <1>1, <1>3 DEF Came
  <2>2. PICK q : q = GetNext(p, short)
    OBVIOUS
  <2>3. PICK V : V = View(p.v.fat) /\ Entire(V) /\ Linked(V, l) /\ l \in Layouts /\ p.v.fat.fails = {}
                 /\ ~p.v.fat.ioerr
    BY <1>1, FineHas
  <2>4. Walking(p, q) /\ q.a \in {"more", short} /\ Reaches(p, q, short)
    BY <1>3, <2>1, <2>2, <2>3, GetNextIs
  <2>5. OnlyTable(p.v, q.v) /\ q.v.fat.ioerr = p.v.fat.ioerr
    BY <2>4 DEF Walking, Reaches
  <2>6. V[p.c] \in Clusters \/ V[p.c] = EOC
    <3>1. V[p.c] # FREE
      BY <2>1, <2>3, Constants DEF Linked
    <3>2. V[p.c] \in Entry
      BY <2>1, <2>3 DEF Entire
    <3> QED BY <3>1, <3>2, ClustersAre
  <2>7. CASE V[p.c] \in Clusters
    <3>1. q.a = "more" /\ q.c = V[p.c] /\ View(q.v.fat) = V
      BY <2>3, <2>4, <2>7 DEF Reaches
    <3>2. Fine(q.v, l)
      BY <1>1, <2>3, <2>5, <3>1, SameViewFine DEF SameView
    <3>3. l.own[V[p.c]] = f /\ l.pos[V[p.c]] = j + 1
      BY <2>1, <2>3, <2>7 DEF Linked
    <3> QED BY <2>2, <2>7, <3>1, <3>2, <3>3 DEF WalkFine, Came
  <2>8. CASE V[p.c] = EOC /\ q.a = short /\ View(q.v.fat) = V /\ \A c \in Clusters : V[c] # FREE
    <3>1. Fine(q.v, l)
      BY <1>1, <2>3, <2>5, <2>8, SameViewFine DEF SameView
    <3>2. Full(q.v) /\ q.a # "more"
      BY <2>8 DEF Full, Shorts
    <3> QED BY <2>2, <2>8, <3>1, <3>2 DEF WalkFine, Came
  <2>9. CASE /\ V[p.c] = EOC /\ q.a = "more" /\ q.c \in Clusters /\ V[q.c] = FREE
             /\ View(q.v.fat) = [[V EXCEPT ![q.c] = EOC] EXCEPT ![p.c] = q.c]
    <3>1. PICK k : Fine(q.v, k) /\ k.own[q.c] = f /\ k.pos[q.c] = l.pos[p.c] + 1
      <4>1. Fine(p.v, l)
        BY <1>1
      <4>2. /\ View(p.v.fat)[p.c] = EOC /\ View(p.v.fat)[q.c] = FREE
            /\ View(q.v.fat) = [[View(p.v.fat) EXCEPT ![q.c] = EOC] EXCEPT ![p.c] = q.c]
        BY <2>3, <2>9
      <4>3. p.c \in Clusters /\ q.c \in Clusters /\ l.own[p.c] = f
        BY <2>1, <2>9
      <4>4. \E k : /\ Fine(q.v, k) /\ Extends(l, k) /\ k.own[q.c] = f
                   /\ k.pos[q.c] = l.pos[p.c] + 1
        BY <2>5, <4>1, <4>2, <4>3, JoinedFine
      <4> QED BY <4>4
    <3> QED BY <2>1, <2>2, <2>9, <3>1 DEF WalkFine, Came
  <2> QED BY <2>3, <2>4, <2>6, <2>7, <2>8, <2>9 DEF Reaches
<1> QED BY <1>2, <1>3

LEMMA WalkTurnsFine ==
  ASSUME NEW w \in Writes, w.a = "more", NEW l, Fine(w.v, l), NEW f \in Files, NEW short \in Shorts,
         NEW i \in Nat, NEW s, s.index \in Nat, s.index <= i, s.cluster \in Clusters,
         l.own[s.cluster] = f, l.pos[s.cluster] = s.index, NEW g, WalkTurns(g, w, i, short, s)
  PROVE  WalkFine(g[i], f, i, short)
<1> DEFINE I == {j \in s.index .. i : WalkFine(g[j], f, j, short)}
<1>1. s.index \in I
  <2>1. g[s.index] = Arrived(w, s)
    BY DEF WalkTurns
  <2>2. Arrived(w, s).v = w.v /\ Arrived(w, s).c = s.cluster /\ Arrived(w, s).a = w.a
    BY ArrivedIs
  <2> QED BY <2>1, <2>2 DEF WalkFine, Came
<1>2. ASSUME NEW j \in s.index + 1 .. i, j - 1 \in I PROVE j \in I
  <2>1. j \in s.index .. i /\ j # s.index /\ j - 1 \in s.index .. i /\ j - 1 \in Nat
    OBVIOUS
  <2>2. g[j] = GetNext(g[j - 1], short)
    BY <2>1 DEF WalkTurns
  <2>3. Walking(w, g[j - 1])
    BY <2>1, WalkTypes
  <2>4. g[j - 1] \in Writes
    BY <2>3 DEF Walking
  <2>5. WalkFine(g[j - 1], f, j - 1, short)
    BY <1>2
  <2>6. WalkFine(g[j], f, (j - 1) + 1, short)
    BY <2>1, <2>2, <2>4, <2>5, WalkNextFine
  <2>7. (j - 1) + 1 = j
    BY <2>1
  <2> QED BY <2>1, <2>6, <2>7
<1> HIDE DEF I
<1>3. \A j \in s.index .. i : j \in I
  BY <1>1, <1>2, Upwards, Zenon
<1>4. i \in I
  BY <1>3
<1> QED BY <1>4 DEF I

(* wf_get_cluster: the cluster is the one at place i, or there is no room. *)
LEMMA GetClusterFine ==
  ASSUME NEW w \in Writes, w.a = "more", NEW l, Fine(w.v, l), NEW h \in Handles,
         w.v.hs[h].file # NONE, w.v.hs[h].first \in Clusters, NEW i \in Nat, NEW short \in Shorts
  PROVE  WalkFine(GetCluster(w, h, i, short), w.v.hs[h].file, i, short)
<1>1. PICK f \in Files : f = w.v.hs[h].file
  BY OpenHandle
<1>2. PICK s : s = CacheLookup(w.v, h, i)
  OBVIOUS
<1>3. Positioned(l, w.v.hs[h].first, s.index, s.cluster) /\ l.own[s.cluster] = f
      /\ l.own[w.v.hs[h].first] = f /\ s.index \in Nat /\ s.index <= i /\ s.cluster \in Clusters
  BY <1>1, <1>2, LookupFine
<1>4. PICK g : WalkTurns(g, w, i, short, s) /\ GetCluster(w, h, i, short) = GetLast(g[i], h, i)
  BY <1>2, GetClusterTurns
<1>5. WalkFine(g[i], f, i, short)
  BY <1>3, <1>4, WalkTurnsFine DEF Positioned
<1>6. i \in s.index .. i
  BY <1>3
<1>7. Walking(w, g[i])
  BY <1>3, <1>4, <1>6, WalkTypes
<1>8. PICK p \in Writes : p = g[i]
  BY <1>7 DEF Walking
<1>9. PICK u : u = GetLast(p, h, i)
  OBVIOUS
<1>10. PICK k : Fine(p.v, k) /\ Came(k, p, f, i, short)
  BY <1>5, <1>8 DEF WalkFine
<1>11. u.a = p.a /\ u.c = p.c /\ (p.a = "more" => StoredAt(p.v, u.v, h, i, p.c))
       /\ (p.a # "more" => u = p)
  BY <1>7, <1>8, <1>9, GetLastIs
<1>12. CASE p.a # "more"
  BY <1>1, <1>4, <1>8, <1>9, <1>10, <1>11, <1>12 DEF WalkFine
<1>13. CASE p.a = "more"
  <2>1. p.c \in Clusters /\ k.own[p.c] = f /\ k.pos[p.c] = i
    BY <1>10, <1>13 DEF Came
  <2>2. p.v.hs = w.v.hs
    BY <1>7, <1>8 DEF Walking, OnlyTable
  <2>3. k.first[f] = w.v.hs[h].first
    BY <1>1, <1>10, <2>2, OpenHandle
  <2>4. Positioned(k, p.v.hs[h].first, i, p.c)
    BY <1>1, <1>10, <2>1, <2>2, <2>3, Constants, FineHas DEF Positioned, Linked
  <2>5. Fine(u.v, k)
    BY <1>1, <1>10, <1>11, <1>13, <2>1, <2>2, <2>4, StoredFine
  <2>6. Came(k, u, f, i, short)
    BY <1>11, <1>13, <2>1 DEF Came
  <2> QED BY <1>1, <1>4, <1>8, <1>9, <2>5, <2>6 DEF WalkFine
<1> QED BY <1>12, <1>13

-----------------------------------------------------------------------------
(* A write, when no transfer fails                                         *)

(* What is written at a position ends in the cluster that holds it. *)
LEMMA SameCluster ==
  ASSUME NEW p \in Nat, NEW d \in Nat, d > 0, d <= ClusterUnits - (p % ClusterUnits)
  PROVE  (p + d - 1) \div ClusterUnits = p \div ClusterUnits
<1>1. PICK m \in Nat : m = ClusterUnits /\ m > 0
  BY Constants
<1>2. p = m * (p \div m) + (p % m) /\ p \div m \in Nat /\ p % m \in 0 .. m - 1
  BY <1>1
<1>3. PICK x \in Nat : x = p + d - 1
  OBVIOUS
<1>4. x = m * (x \div m) + (x % m) /\ x \div m \in Nat /\ x % m \in 0 .. m - 1
  BY <1>1
<1>5. d <= m - (p % m)
  BY <1>1
<1>6. PICK q \in Nat, r \in 0 .. m - 1 : q = p \div m /\ r = p % m
  BY <1>2
<1>7. PICK a \in Nat, b \in 0 .. m - 1 : a = x \div m /\ b = x % m
  BY <1>4
<1>8. m * a + b = m * q + r + d - 1 /\ r + d - 1 < m /\ r + d - 1 >= 0
  BY <1>2, <1>3, <1>4, <1>5, <1>6, <1>7
<1>9. a = q
  <2>1. CASE a > q
    <3>1. PICK z \in Nat : a = q + 1 + z
      <4>1. a - q - 1 \in Nat /\ a = q + 1 + (a - q - 1)
        BY <2>1
      <4> QED BY <4>1
    <3>2. m * a = m * q + m + m * z /\ m * z >= 0
      BY <3>1
    <3> QED BY <1>8, <3>2
  <2>2. CASE a < q
    <3>1. PICK z \in Nat : q = a + 1 + z
      <4>1. q - a - 1 \in Nat /\ q = a + 1 + (q - a - 1)
        BY <2>2
      <4> QED BY <4>1
    <3>2. m * q = m * a + m + m * z /\ m * z >= 0
      BY <3>1
    <3> QED BY <1>8, <3>2
  <2> QED BY <2>1, <2>2
<1> QED BY <1>1, <1>3, <1>6, <1>7, <1>9

LEMMA SteadyFine ==
  ASSUME NEW v, NEW l, Fine(v, l), NEW u, OnlyTable(v, u), SameView(v, u)
  PROVE  Fine(u, l) /\ (Full(v) => Full(u))
BY SameViewFine DEF SameView, Full

(* A step of a write by h goes on, or has found no room. *)
Stops(u, short) == u.a = "more" \/ (u.a = short /\ Full(u.v))
Owned(w, h) == w.v.hs[h].file # NONE /\ w.v.hs[h].write

LEMMA FirstClusterFine ==
  ASSUME NEW w \in Writes, w.a = "more", NEW l, Fine(w.v, l), NEW h \in Handles, Owned(w, h),
         w.v.hs[h].first = FREE, NEW short \in Shorts
  PROVE  LET u == FirstCluster(w, h, short) IN
         Stops(u, short) /\ \E k : Fine(u.v, k)
<1>1. PICK u : u = FirstCluster(w, h, short)
  OBVIOUS
<1>2. PICK t : t = FatAlloc(w.v.fat)
  OBVIOUS
<1>3. IF t.cf THEN u.a = short /\ u.v = WithFat(w.v, t) ELSE u.a = "more" /\ Begins(w, u, h, t)
  BY <1>1, <1>2, FirstClusterIs
<1>4. w.v \in Vols /\ w.v.fat \in Tables /\ w.v.fat.fails = {} /\ ~w.v.fat.ioerr
  BY FineHas
<1>5. Allocates(w.v.fat, t)
  BY <1>2, <1>4, FatAllocIs
<1>6. t \in Tables /\ t.fails = {} /\ ~t.ioerr
  BY <1>4, <1>5 DEF Allocates
<1>7. CASE t.cf
  <2>1. u.a = short /\ u.v = WithFat(w.v, t)
    BY <1>3, <1>7
  <2>2. OnlyTable(w.v, u.v) /\ u.v.fat = t
    BY <1>4, <1>6, <2>1, TableAlone
  <2>3. View(t) = View(w.v.fat) /\ t.ioerr = w.v.fat.ioerr /\ \A c \in Clusters : View(w.v.fat)[c] # FREE
    BY <1>4, <1>5, <1>7 DEF Allocates
  <2>4. Fine(u.v, l)
    BY <2>2, <2>3, SameViewFine DEF SameView
  <2>5. Full(u.v)
    BY <2>2, <2>3 DEF Full
  <2> QED BY <1>1, <2>1, <2>4, <2>5 DEF Stops
<1>8. CASE ~t.cf
  <2>1. u.a = "more" /\ Begins(w, u, h, t)
    BY <1>3, <1>8
  <2>2. PICK c \in Clusters : c = t.ax
    BY <1>5, <1>8 DEF Allocates
  <2>3. View(w.v.fat)[c] = FREE /\ View(t) = [View(w.v.fat) EXCEPT ![c] = EOC]
    BY <1>4, <1>5, <1>8, <2>2 DEF Allocates
  <2>4. PICK x : /\ x \in Vols /\ x.fat = t /\ x.slots = w.v.slots /\ x.root = w.v.root
                 /\ x.hs[h] = Started(w.v.hs[h], c)
                 /\ \A g \in Handles : g # h => x.hs[g] = w.v.hs[g]
                 /\ StoredAt(x, u.v, h, 0, c)
    BY <2>1, <2>2 DEF Begins
  <2>5. PICK k : Fine(x, k) /\ k.own[c] = w.v.hs[h].file /\ k.pos[c] = 0
    <3>1. x.fat.fails = {} /\ ~x.fat.ioerr /\ View(x.fat) = [View(w.v.fat) EXCEPT ![c] = EOC]
      BY <1>6, <2>3, <2>4
    <3>2. w.v.hs[h].file # NONE /\ w.v.hs[h].write
      BY DEF Owned
    <3>3. \E k : Fine(x, k) /\ Extends(l, k) /\ k.own[c] = w.v.hs[h].file /\ k.pos[c] = 0
      BY <2>3, <2>4, <3>1, <3>2, FirstJoinedFine
    <3> QED BY <3>3
  <2>6. x.hs[h].file = w.v.hs[h].file /\ x.hs[h].first = c
    BY <1>4, <2>4, VolHas, KnownAre, StartedIs
  <2>7. Positioned(k, x.hs[h].first, 0, c)
    BY <2>5, <2>6 DEF Positioned, Owned
  <2>8. Fine(u.v, k)
    BY <2>4, <2>5, <2>6, <2>7, StoredFine DEF Owned
  <2> QED BY <1>1, <2>1, <2>8 DEF Stops
<1> QED BY <1>7, <1>8

LEMMA DataIoFine ==
  ASSUME NEW w \in Writes, NEW l, Fine(w.v, l)
  PROVE  LET u == DataIo(w) IN
         /\ u \in Writes /\ Fine(u.v, l) /\ u.a = w.a /\ u.c = w.c /\ u.left = w.left
         /\ u.v.hs = w.v.hs
         /\ Full(w.v) => Full(u.v)
<1>1. PICK u : u = DataIo(w)
  OBVIOUS
<1>2. w.v.fat.fails = {}
  BY FineHas
<1>3. u \in Writes /\ OnlyTable(w.v, u.v) /\ SameView(w.v, u.v) /\ u.a = w.a /\ u.c = w.c /\ u.left = w.left
  BY <1>1, <1>2, DataIoIs
<1> QED BY <1>1, <1>3, SteadyFine DEF OnlyTable

LEMMA StartedKeeps ==
  ASSUME NEW w, NEW u, NEW h, Growing(w, u, h)
  PROVE  /\ Owned(w, h) => Owned(u, h)
         /\ u.v.hs[h].file = w.v.hs[h].file /\ u.v.hs[h].pos = w.v.hs[h].pos
         /\ u.v.hs[h].size = w.v.hs[h].size /\ u.left = w.left /\ u \in Writes
BY DEF Growing, Keeping, Owned

(* wf_gap_fill: the size is the position, and a cluster holds its last     *)
(* unit; or there is no room.                                              *)
LEMMA GapFillFine ==
  ASSUME NEW w \in Writes, w.a = "more", NEW l, Fine(w.v, l), NEW h \in Handles, Owned(w, h),
         w.v.hs[h].pos > w.v.hs[h].size
  PROVE  LET u == GapFill(w, h) IN
         /\ Stops(u, "error") /\ \E k : Fine(u.v, k)
         /\ u.a = "more" => u.v.hs[h].pos = u.v.hs[h].size
<1>1. PICK o \in KnownHandle : o = w.v.hs[h]
  BY WriteHas, VolHas
<1>2. PICK i \in Nat : i = GapIndex(o) /\ i = (o.pos - 1) \div ClusterUnits
  <2>1. o.pos \in Nat /\ o.size \in Nat
    BY HandleHas, KnownAre
  <2>2. o.pos - 1 \in Nat
    BY <1>1, <2>1
  <2> QED BY <2>2, IndexIs DEF GapIndex
<1>3. PICK a : a = DataIo(w)
  OBVIOUS
<1>4. a \in Writes /\ Fine(a.v, l) /\ a.a = "more" /\ a.v.hs = w.v.hs
  BY <1>3, DataIoFine
<1>5. PICK b : b = IF o.first = FREE THEN GapFirst(a, h) ELSE a
  OBVIOUS
<1>6. Growing(a, b, h) /\ Stops(b, "error") /\ (\E k : Fine(b.v, k))
      /\ (b.a = "more" => b.v.hs[h].first \in Clusters)
  <2>1. CASE o.first = FREE
    <3>1. b = FirstCluster(a, h, "error")
      BY <1>4, <1>5, <2>1 DEF GapFirst
    <3>2. "error" \in Shorts
      BY DEF Shorts
    <3>3. a.v.hs[h].first = FREE /\ Owned(a, h)
      BY <1>1, <1>4, <2>1 DEF Owned
    <3>4. Growing(a, b, h) /\ (b.a = "more" => b.v.hs[h].first \in Clusters)
      BY <1>4, <3>1, <3>2, <3>3, FirstClusterIs
    <3>5. Stops(b, "error") /\ (\E k : Fine(b.v, k))
      BY <1>4, <3>1, <3>2, <3>3, FirstClusterFine
    <3> QED BY <3>4, <3>5
  <2>2. CASE o.first # FREE
    <3>1. o.first \in Clusters
      BY <2>2, HandleHas, KnownAre
    <3>2. b = a
      BY <1>5, <2>2
    <3> QED BY <1>1, <1>4, <3>1, <3>2, GrowingNone DEF Stops
  <2> QED BY <2>1, <2>2
<1>7. PICK c : c = GapGet(b, h, i)
  OBVIOUS
<1>8. PICK f \in Files : f = w.v.hs[h].file
  BY OpenHandle DEF Owned
<1>9. b \in Writes /\ Owned(b, h) /\ b.v.hs[h].file = f /\ b.v.hs[h].pos = o.pos
  BY <1>1, <1>4, <1>6, <1>8, StartedKeeps DEF Owned
<1>10. GapFill(w, h) = GapSize(c, h, o.pos)
  BY <1>1, <1>2, <1>3, <1>5, <1>7, GapFillSteps
<1>11. CASE b.a # "more"
  <2>1. c = b
    BY <1>7, <1>11 DEF GapGet
  <2>2. GapSize(c, h, o.pos) = b
    BY <1>11, <2>1 DEF GapSize
  <2> QED BY <1>6, <1>10, <1>11, <2>2
<1>12. CASE b.a = "more"
  <2>1. c = GetCluster(b, h, i, "error") /\ "error" \in Shorts
    BY <1>7, <1>12 DEF GapGet, Shorts
  <2>2. WalkFine(c, f, i, "error")
    BY <1>6, <1>9, <1>12, <2>1, GetClusterFine DEF Owned
  <2>3. PICK k : Fine(c.v, k) /\ Came(k, c, f, i, "error")
    BY <2>2 DEF WalkFine
  <2>4. Growing(b, c, h)
    BY <1>6, <1>9, <1>12, <2>1, GetClusterIs
  <2>5. c \in Writes /\ Owned(c, h) /\ c.v.hs[h].file = f /\ c.v.hs[h].pos = o.pos
    BY <1>9, <2>4, StartedKeeps
  <2>6. PICK u : u = GapSize(c, h, o.pos)
    OBVIOUS
  <2>7. o.pos \in Sizes
    BY HandleHas
  <2>8. u.a = c.a /\ (c.a = "more" => OnlyHandle(c.v, u.v, h, Sized(c.v.hs[h], o.pos)))
        /\ (c.a # "more" => u = c)
    BY <2>5, <2>6, <2>7, GapSizeIs
  <2>9. CASE c.a # "more"
    BY <1>10, <2>3, <2>6, <2>8, <2>9 DEF Came, Stops
  <2>10. CASE c.a = "more"
    <3>1. c.c \in Clusters /\ k.own[c.c] = f /\ k.pos[c.c] = i
      BY <2>3, <2>10 DEF Came
    <3>2. PICK q \in KnownHandle : q = c.v.hs[h]
      BY <2>5, WriteHas, VolHas
    <3>3. PICK p \in KnownHandle : p = Sized(q, o.pos)
      BY <2>7, SizedIs
    <3>4. /\ p.size = o.pos /\ p.dirty
          /\ p.file = q.file /\ p.write = q.write /\ p.first = q.first /\ p.pos = q.pos
          /\ p.lastIndex = q.lastIndex /\ p.lastCluster = q.lastCluster
      BY <2>7, <3>3, SizedIs
    <3>5. Backed(Resized(k, f, o.pos), f)
      <4>1. PICK z : z = Resized(k, f, o.pos)
        OBVIOUS
      <4>2. z.own = k.own /\ z.pos = k.pos /\ z.size[f] = o.pos
        BY <2>3, <2>7, <4>1, FineHas, ResizedIs
      <4> QED BY <1>2, <3>1, <4>1, <4>2 DEF Backed
    <3>6. OnlyHandle(c.v, u.v, h, p)
      BY <2>8, <2>10, <3>2, <3>3
    <3>7. p.file = f /\ p.write
      BY <2>5, <3>2, <3>4 DEF Owned
    <3>8. Backed(Resized(k, p.file, p.size), p.file)
      BY <3>4, <3>5, <3>7
    <3>9. \E z : Fine(u.v, z)
      BY <2>3, <2>5, <3>2, <3>4, <3>6, <3>7, <3>8, ResizedFine DEF Owned
    <3>10. u.v.hs[h] = p
      BY <3>6 DEF OnlyHandle
    <3>11. p.pos = o.pos
      BY <2>5, <3>2, <3>4
    <3> QED BY <1>10, <2>6, <2>8, <2>10, <3>4, <3>9, <3>10, <3>11 DEF Stops
  <2> QED BY <2>9, <2>10
<1> QED BY <1>11, <1>12

(* One cluster's worth. *)
LEMMA ChunkGetFine ==
  ASSUME NEW w \in Writes, w.a = "more", NEW l, Fine(w.v, l), NEW h \in Handles, Owned(w, h),
         NEW i \in Nat
  PROVE  LET a == IF w.v.hs[h].first = FREE THEN ChunkFirst(DataIo(w), h) ELSE w
             c == ChunkGet(ChunkFind(a, h, i), h, i)
         IN  Growing(w, c, h) /\ WalkFine(c, w.v.hs[h].file, i, "full")
<1>1. PICK a : a = IF w.v.hs[h].first = FREE THEN ChunkFirst(DataIo(w), h) ELSE w
  OBVIOUS
<1>2. "full" \in Shorts /\ "full" # "more" /\ "error" # "more"
  BY DEF Shorts
<1>3. Growing(w, a, h) /\ (a.a = "more" => a.v.hs[h].first \in Clusters)
  BY <1>1, ChunkFirstIs
<1>4. a \in Writes /\ Owned(a, h) /\ a.v.hs[h].file = w.v.hs[h].file
  BY <1>3, StartedKeeps
<1>5. Stops(a, "full") /\ \E k : Fine(a.v, k)
  <2>1. CASE w.v.hs[h].first = FREE
    <3>1. PICK d : d = DataIo(w)
      OBVIOUS
    <3>2. d \in Writes /\ Fine(d.v, l) /\ d.a = "more" /\ d.v.hs = w.v.hs
      BY <3>1, DataIoFine
    <3>3. a = FirstCluster(d, h, "full")
      BY <1>1, <2>1, <3>1, <3>2 DEF ChunkFirst
    <3>4. Owned(d, h) /\ d.v.hs[h].first = FREE
      BY <2>1, <3>2 DEF Owned
    <3> QED BY <1>2, <3>2, <3>3, <3>4, FirstClusterFine
  <2>2. CASE w.v.hs[h].first # FREE
    BY <1>1, <2>2 DEF Stops
  <2> QED BY <2>1, <2>2
<1>6. PICK b : b = ChunkFind(a, h, i)
  OBVIOUS
<1>7. PICK k : Fine(a.v, k)
  BY <1>5
<1>8. Growing(a, b, h) /\ OnlyTable(a.v, b.v) /\ SameView(a.v, b.v) /\ b.a = a.a
  <2>1. a.v.fat.fails = {}
    BY <1>7, FineHas
  <2> QED BY <1>4, <1>6, <2>1, ChunkFindIs
<1>9. Fine(b.v, k) /\ (Full(a.v) => Full(b.v))
  BY <1>7, <1>8, SteadyFine
<1>10. b \in Writes /\ Owned(b, h) /\ b.v.hs[h].file = w.v.hs[h].file
       /\ (b.a = "more" => b.v.hs[h].first \in Clusters) /\ Stops(b, "full")
  <2>1. b.v.hs = a.v.hs
    BY <1>8 DEF OnlyTable
  <2> QED BY <1>3, <1>4, <1>5, <1>8, <1>9, <2>1, StartedKeeps DEF Stops
<1>11. PICK c : c = ChunkGet(b, h, i)
  OBVIOUS
<1>12. Growing(w, c, h)
  <2>1. Growing(b, c, h)
    BY <1>10, <1>11, ChunkGetIs
  <2>2. Growing(w, b, h)
    BY <1>3, <1>8, GrowingMore
  <2> QED BY <2>1, <2>2, GrowingMore
<1>13. WalkFine(c, w.v.hs[h].file, i, "full")
  <2>1. CASE b.a = "more"
    <3>1. c = GetCluster(b, h, i, "full")
      BY <1>11, <2>1 DEF ChunkGet
    <3> QED BY <1>2, <1>9, <1>10, <2>1, <3>1, GetClusterFine DEF Owned
  <2>2. CASE b.a # "more"
    <3>1. c = b
      BY <1>11, <2>2 DEF ChunkGet
    <3>2. Came(k, c, w.v.hs[h].file, i, "full")
      BY <1>10, <2>2, <3>1 DEF Came, Stops
    <3> QED BY <1>9, <3>1, <3>2 DEF WalkFine
  <2> QED BY <2>1, <2>2
<1> QED BY <1>1, <1>6, <1>11, <1>12, <1>13

LEMMA StoreFine ==
  ASSUME NEW w \in Writes, w.a = "more", w.left > 0, NEW l, Fine(w.v, l), NEW h \in Handles,
         Owned(w, h), w.v.hs[h].pos + w.left <= MaxSize, w.v.hs[h].pos <= w.v.hs[h].size,
         NEW c \in Clusters, l.own[c] = w.v.hs[h].file,
         l.pos[c] = w.v.hs[h].pos \div ClusterUnits
  PROVE  LET u == Store(w, h) IN
         /\ u.a = "more" /\ \E k : Fine(u.v, k)
         /\ u.v.hs[h].pos <= u.v.hs[h].size
<1>1. PICK o \in KnownHandle : o = w.v.hs[h]
  BY WriteHas, VolHas
<1>2. o.pos \in Nat /\ o.size \in Nat /\ w.left \in Nat
  BY HandleHas, KnownAre, WriteHas
<1>3. PICK d \in Nat : /\ d = Moves(o, w.left) /\ d > 0 /\ o.pos + d \in Sizes
                       /\ d <= ClusterUnits - (o.pos % ClusterUnits)
  BY <1>1, <1>2, MovesIs
<1>4. PICK u : u = Store(w, h)
  OBVIOUS
<1>5. PICK end \in Sizes : end = o.pos + d /\ end \in Nat
  BY <1>2, <1>3
<1>6. PICK p \in KnownHandle : p = Filled(o, end)
  BY FilledIs
<1>7. /\ p.pos = end /\ p.size = (IF o.size >= end THEN o.size ELSE end)
      /\ p.file = o.file /\ p.write = o.write /\ p.first = o.first
      /\ p.lastIndex = o.lastIndex /\ p.lastCluster = o.lastCluster
      /\ o.dirty => p.dirty
      /\ p.size # o.size => p.dirty
  BY <1>6, FilledIs
<1>8. u.a = "more" /\ OnlyHandle(w.v, u.v, h, p)
  BY <1>1, <1>3, <1>4, <1>5, <1>6, StoreIs
<1>9. PICK f \in Files : f = o.file
  BY <1>1, OpenHandle DEF Owned
<1>10. l \in Layouts
  BY FineHas
<1>11. PICK n \in Sizes : n = p.size
  BY HandleHas
<1>12. PICK z : z = Resized(l, f, n)
  OBVIOUS
<1>13. z.own = l.own /\ z.pos = l.pos /\ z.size[f] = n
  BY <1>10, <1>12, ResizedIs
<1>14. Backed(z, f)
  <2>1. CASE o.size >= end
    <3>1. n = o.size
      BY <1>7, <1>11, <2>1
    <3>2. l.size[f] = o.size
      BY <1>1, <1>9, OpenHandle DEF Owned
    <3>3. Backed(l, f)
      BY DEF Fine, Laid
    <3> QED BY <1>13, <3>1, <3>2, <3>3 DEF Backed
  <2>2. CASE ~(o.size >= end)
    <3>1. n = end
      BY <1>7, <1>11, <2>2
    <3>2. (end - 1) \div ClusterUnits = o.pos \div ClusterUnits
      BY <1>2, <1>3, <1>5, SameCluster
    <3>3. l.own[c] = f /\ l.pos[c] = (end - 1) \div ClusterUnits
      BY <1>1, <1>9, <3>2
    <3> QED BY <1>13, <3>1, <3>3 DEF Backed
  <2> QED BY <2>1, <2>2
<1>15. Backed(Resized(l, p.file, p.size), p.file)
  BY <1>7, <1>9, <1>11, <1>12, <1>14
<1>16. p.file = w.v.hs[h].file /\ p.write /\ p.first = w.v.hs[h].first
       /\ p.lastIndex = w.v.hs[h].lastIndex /\ p.lastCluster = w.v.hs[h].lastCluster
       /\ (p.dirty \/ (~w.v.hs[h].dirty /\ p.size = w.v.hs[h].size))
  BY <1>1, <1>7 DEF Owned
<1>17. \E k : Fine(u.v, k)
  <2>1. w.v.hs[h].file # NONE /\ w.v.hs[h].write
    BY DEF Owned
  <2> QED BY <1>8, <1>15, <1>16, <2>1, ResizedFine
<1>18. u.v.hs[h] = p
  BY <1>8 DEF OnlyHandle
<1>19. p.pos <= p.size
  BY <1>2, <1>5, <1>7
<1> QED BY <1>4, <1>8, <1>17, <1>18, <1>19

(* A write that goes on has its position in the file, or just after it. *)
Wrote(u, h) ==
    /\ Stops(u, "full") /\ \E k : Fine(u.v, k)
    /\ u.a = "more" => u.v.hs[h].pos <= u.v.hs[h].size

LEMMA WriteChunkFine ==
  ASSUME NEW w \in Writes, w.a = "more", w.left > 0, NEW l, Fine(w.v, l), NEW h \in Handles,
         Owned(w, h), w.v.hs[h].pos + w.left <= MaxSize, w.v.hs[h].pos <= w.v.hs[h].size
  PROVE  Wrote(WriteChunk(w, h), h)
<1>1. PICK o \in KnownHandle : o = w.v.hs[h]
  BY WriteHas, VolHas
<1>2. PICK i \in Nat : i = o.pos \div ClusterUnits
  BY HandleHas, KnownAre, IndexIs
<1>3. PICK c : c = LET a == IF w.v.hs[h].first = FREE THEN ChunkFirst(DataIo(w), h) ELSE w
                   IN  ChunkGet(ChunkFind(a, h, i), h, i)
  OBVIOUS
<1>4. Growing(w, c, h) /\ WalkFine(c, o.file, i, "full")
  BY <1>1, <1>3, ChunkGetFine
<1>5. WriteChunk(w, h) = ChunkStore(ChunkData(c), h)
  BY <1>1, <1>2, <1>3, WriteChunkSteps
<1>6. c \in Writes /\ Owned(c, h) /\ c.left = w.left /\ c.v.hs[h].file = o.file
      /\ c.v.hs[h].pos = o.pos /\ c.v.hs[h].size = o.size
  BY <1>1, <1>4, StartedKeeps
<1>7. PICK k : Fine(c.v, k) /\ Came(k, c, o.file, i, "full")
  BY <1>4 DEF WalkFine
<1>8. CASE c.a # "more"
  <2>1. WriteChunk(w, h) = c
    BY <1>5, <1>8 DEF ChunkData, ChunkStore
  <2> QED BY <1>7, <1>8, <2>1 DEF Came, Wrote, Stops
<1>9. CASE c.a = "more"
  <2>1. PICK d : d = DataIo(c)
    OBVIOUS
  <2>2. d \in Writes /\ Fine(d.v, k) /\ d.a = "more" /\ d.left = c.left /\ d.v.hs = c.v.hs
    BY <1>6, <1>7, <1>9, <2>1, DataIoFine
  <2>3. WriteChunk(w, h) = Store(d, h)
    BY <1>5, <1>9, <2>1, <2>2 DEF ChunkData, ChunkStore
  <2>4. c.c \in Clusters /\ k.own[c.c] = o.file /\ k.pos[c.c] = i
    BY <1>7, <1>9 DEF Came
  <2>5. Owned(d, h) /\ d.left > 0 /\ d.v.hs[h].pos + d.left <= MaxSize
        /\ d.v.hs[h].pos <= d.v.hs[h].size
    BY <1>1, <1>6, <2>2 DEF Owned
  <2>6. k.own[c.c] = d.v.hs[h].file /\ k.pos[c.c] = d.v.hs[h].pos \div ClusterUnits
    BY <1>2, <1>6, <2>2, <2>4
  <2> QED BY <2>2, <2>3, <2>4, <2>5, <2>6, StoreFine DEF Wrote, Stops
<1> QED BY <1>8, <1>9

(* The loop of a write. *)
LEMMA WriteTurnsFine ==
  ASSUME NEW w \in Writes, NEW h \in Handles, Owned(w, h), w.v.hs[h].pos + w.left <= MaxSize,
         NEW b, Changing(w, b, h), Wrote(b, h), NEW n \in Nat, NEW g, WriteTurns(g, b, h, n)
  PROVE  Wrote(g[n], h)
<1> DEFINE I == {j \in 0 .. n : Wrote(g[j], h)}
<1>1. 0 \in I
  BY DEF WriteTurns
<1>2. ASSUME NEW j \in 0 + 1 .. n, j - 1 \in I PROVE j \in I
  <2>1. j \in 0 .. n /\ j # 0 /\ j - 1 \in 0 .. n
    OBVIOUS
  <2>2. PICK x : x = g[j - 1]
    OBVIOUS
  <2>3. g[j] = WriteNext(x, h)
    BY <2>1, <2>2 DEF WriteTurns
  <2>4. Changing(w, x, h)
    BY <2>1, <2>2, WriteTypes
  <2>5. Wrote(x, h)
    BY <1>2, <2>2
  <2>6. CASE x.a = "more" /\ x.left > 0
    <3>1. PICK l : Fine(x.v, l)
      BY <2>5 DEF Wrote
    <3>2. x \in Writes /\ Owned(x, h) /\ x.v.hs[h].pos + x.left <= MaxSize
      BY <2>4 DEF Changing, Owned
    <3>3. x.v.hs[h].pos <= x.v.hs[h].size
      BY <2>5, <2>6 DEF Wrote
    <3>4. Wrote(WriteChunk(x, h), h)
      BY <2>6, <3>1, <3>2, <3>3, WriteChunkFine
    <3> QED BY <2>1, <2>3, <2>6, <3>4 DEF WriteNext
  <2>7. CASE ~(x.a = "more" /\ x.left > 0)
    BY <2>1, <2>3, <2>5, <2>7 DEF WriteNext
  <2> QED BY <2>6, <2>7
<1> HIDE DEF I
<1>3. \A j \in 0 .. n : j \in I
  BY <1>1, <1>2, Upwards, Zenon
<1>4. n \in I
  BY <1>3
<1> QED BY <1>4 DEF I

-----------------------------------------------------------------------------
(* A read                                                                  *)

LEMMA IndexGrows ==
  ASSUME NEW x \in Nat, NEW y \in Nat, x <= y
  PROVE  x \div ClusterUnits <= y \div ClusterUnits
<1>1. PICK m \in Nat : m = ClusterUnits /\ m > 0
  BY Constants
<1>2. /\ x = m * (x \div m) + (x % m) /\ x \div m \in Nat /\ x % m \in 0 .. m - 1
      /\ y = m * (y \div m) + (y % m) /\ y \div m \in Nat /\ y % m \in 0 .. m - 1
  BY <1>1
<1>3. PICK a \in Nat, b \in 0 .. m - 1 : a = x \div m /\ b = x % m
  BY <1>2
<1>4. PICK c \in Nat, d \in 0 .. m - 1 : c = y \div m /\ d = y % m
  BY <1>2
<1>5. m * a + b <= m * c + d
  BY <1>2, <1>3, <1>4
<1>6. a <= c
  <2> SUFFICES ASSUME a > c PROVE FALSE
    OBVIOUS
  <2>1. PICK z \in Nat : a = c + 1 + z
    <3>1. a - c - 1 \in Nat /\ a = c + 1 + (a - c - 1)
      OBVIOUS
    <3> QED BY <3>1
  <2>2. m * a = m * c + m + m * z /\ m * z >= 0
    BY <2>1
  <2> QED BY <1>5, <2>2
<1> QED BY <1>1, <1>3, <1>4, <1>6

(* The chain of a file has a cluster for each of its units. *)
LEMMA HasPlaces ==
  ASSUME NEW v, NEW l, Fine(v, l), NEW f \in Files, NEW n \in Nat, n < l.size[f],
         NEW k \in 0 .. (n \div ClusterUnits)
  PROVE  \E c \in Clusters : l.own[c] = f /\ l.pos[c] = k
<1>1. l \in Layouts /\ Linked(View(v.fat), l) /\ f # NONE
  BY FineHas, Constants
<1>2. l.size[f] \in Nat
  BY <1>1, LayoutHas, KnownAre
<1>3. PICK m \in Nat : m = l.size[f] - 1 /\ n <= m
  BY <1>2
<1>4. Backed(l, f) /\ l.size[f] # 0
  BY <1>2 DEF Fine, Laid
<1>5. PICK c \in Clusters : l.own[c] = f /\ l.pos[c] = m \div ClusterUnits
  BY <1>3, <1>4 DEF Backed
<1>6. PICK a \in Nat, b \in Nat : a = n \div ClusterUnits /\ b = m \div ClusterUnits /\ a <= b
  BY <1>3, IndexGrows, IndexIs
<1>7. k \in 0 .. l.pos[c]
  BY <1>5, <1>6
<1> QED BY <1>1, <1>5, <1>7, NoGaps

(* Where one has a next place, its entry is there. *)
LEMMA NextPlace ==
  ASSUME NEW V, NEW l \in Layouts, Linked(V, l), NEW f \in Files, NEW j \in Nat,
         NEW c \in Clusters, l.own[c] = f, l.pos[c] = j,
         NEW d \in Clusters, l.own[d] = f, l.pos[d] = j + 1
  PROVE  V[c] = d
<1>1. f # NONE
  BY Constants
<1>2. PICK b \in Clusters : l.own[b] = f /\ l.pos[d] = l.pos[b] + 1 /\ V[b] = d
  BY <1>1 DEF Linked
<1>3. l.pos[b] = j
  BY <1>2, LayoutHas
<1>4. b = c
  BY <1>1, <1>2, <1>3 DEF Linked
<1> QED BY <1>2, <1>4

At(l, c, f, j) == c \in Clusters /\ l.own[c] = f /\ l.pos[c] = j

LEMMA FirstPlace ==
  ASSUME NEW v, NEW l, Fine(v, l), NEW f \in Files, l.size[f] > 0
  PROVE  At(l, l.first[f], f, 0)
<1>1. l \in Layouts /\ Linked(View(v.fat), l) /\ f # NONE
  BY FineHas, Constants
<1>2. l.size[f] # 0
  BY <1>1, LayoutHas, KnownAre
<1>3. PICK c \in Clusters : l.own[c] = f
  BY <1>2 DEF Backed, Fine, Laid
<1> QED BY <1>1, <1>3 DEF At, Linked

LEMMA ReadTurnsFine ==
  ASSUME NEW v, NEW l, Fine(v, l), NEW f \in Files, NEW i \in Nat,
         \A k \in 0 .. i : \E c \in Clusters : l.own[c] = f /\ l.pos[c] = k,
         NEW s, s.index \in Nat, s.index <= i, At(l, s.cluster, f, s.index),
         NEW g, ReadTurns(g, v.fat, i, s)
  PROVE  ReadState(v.fat, g[i]) /\ At(l, g[i].ax, f, i)
<1>1. l \in Layouts /\ Linked(View(v.fat), l) /\ v.fat \in Tables /\ v.fat.fails = {}
  BY FineHas
<1>2. s.cluster \in Entry
  BY ClustersAre DEF At
<1> DEFINE I == {j \in s.index .. i : ReadState(v.fat, g[j]) /\ At(l, g[j].ax, f, j)}
<1>3. \A j \in s.index .. i : ReadState(v.fat, g[j])
  BY <1>1, <1>2, ReadTypes
<1>4. s.index \in I
  <2>1. s.index \in s.index .. i
    OBVIOUS
  <2>2. g[s.index] = Answering(v.fat, s.cluster)
    BY <2>1 DEF ReadTurns
  <2>3. Answering(v.fat, s.cluster).ax = s.cluster
    BY <1>1, <1>2, ReadStartIs
  <2> QED BY <1>3, <2>1, <2>2, <2>3
<1>5. ASSUME NEW j \in s.index + 1 .. i, j - 1 \in I PROVE j \in I
  <2>1. j \in s.index .. i /\ j # s.index /\ j - 1 \in Nat /\ j - 1 \in s.index .. i /\ j \in 0 .. i
        /\ (j - 1) + 1 = j
    OBVIOUS
  <2>2. PICK t : t = g[j - 1]
    OBVIOUS
  <2>3. ReadState(v.fat, t) /\ At(l, t.ax, f, j - 1)
    BY <1>5, <2>2
  <2>4. g[j] = FatNext(t, t.ax)
    <3>1. g[j] = ReadNext(t)
      BY <2>1, <2>2 DEF ReadTurns
    <3> QED BY <2>3, <3>1 DEF ReadNext, At
  <2>5. t \in Tables /\ View(t) = View(v.fat) /\ t.fails = {}
    BY <1>1, <2>3 DEF ReadState, Kept
  <2>6. FatNext(t, t.ax).ax = View(v.fat)[t.ax]
    BY <2>3, <2>5, FatNextIs DEF At
  <2>7. PICK d \in Clusters : l.own[d] = f /\ l.pos[d] = j
    BY <2>1
  <2>8. View(v.fat)[t.ax] = d
    BY <1>1, <2>1, <2>3, <2>7, NextPlace DEF At
  <2>9. At(l, g[j].ax, f, j)
    BY <2>4, <2>6, <2>7, <2>8 DEF At
  <2> QED BY <1>3, <2>1, <2>9
<1> HIDE DEF I
<1>6. \A j \in s.index .. i : j \in I
  BY <1>4, <1>5, Upwards, Zenon
<1>7. i \in I
  BY <1>6
<1> QED BY <1>7 DEF I

(* A read before the end finds the unit's cluster. *)
LEMMA ReadWalkFine ==
  ASSUME NEW v, NEW l, Fine(v, l), NEW h \in Handles, v.hs[h].file # NONE,
         v.hs[h].pos < v.hs[h].size, NEW i, i = v.hs[h].pos \div ClusterUnits,
         NEW g, ReadTurns(g, v.fat, i, CacheLookup(v, h, i))
  PROVE  /\ ReadState(v.fat, g[i]) /\ g[i].ax \in Clusters /\ i \in Nat
         /\ Positioned(l, v.hs[h].first, i, g[i].ax)
<1>1. PICK o \in KnownHandle : o = v.hs[h]
  BY FineHas
<1>2. o.pos \in Nat /\ o.size \in Nat
  BY HandleHas, KnownAre
<1>3. i \in Nat
  BY <1>1, <1>2, IndexIs
<1>4. PICK f \in Files : f = o.file /\ o.first = l.first[f] /\ o.size = l.size[f]
  BY <1>1, OpenHandle
<1>5. At(l, o.first, f, 0)
  BY <1>1, <1>2, <1>4, FirstPlace
<1>6. PICK s : s = CacheLookup(v, h, i)
  OBVIOUS
<1>7. /\ Positioned(l, o.first, s.index, s.cluster) /\ l.own[s.cluster] = f
      /\ s.index \in Nat /\ s.index <= i /\ s.cluster \in Clusters
  BY <1>1, <1>3, <1>4, <1>5, <1>6, LookupFine DEF At
<1>8. At(l, s.cluster, f, s.index)
  BY <1>7 DEF At, Positioned
<1>9. \A k \in 0 .. i : \E c \in Clusters : l.own[c] = f /\ l.pos[c] = k
  BY <1>1, <1>2, <1>4, HasPlaces
<1>10. ReadState(v.fat, g[i]) /\ At(l, g[i].ax, f, i)
  BY ZenonT(60), <1>3, <1>6, <1>7, <1>8, <1>9, ReadTurnsFine
<1>11. Positioned(l, o.first, i, g[i].ax)
  BY <1>5, <1>10, Constants DEF At, Positioned
<1> QED BY ZenonT(60), <1>1, <1>3, <1>10, <1>11 DEF At

-----------------------------------------------------------------------------
(* Freeing                                                                 *)

(* Nothing is known of any position, and nothing else of a handle differs. *)
LEMMA ForgottenRight ==
  ASSUME NEW v \in Vols, NEW u, Forgotten(v, u)
  PROVE  /\ \A l : \A n \in SlotNumbers : SlotRight(l, u.slots[n])
         /\ \A l : \A h \in Handles : HandleRight(l, u.hs[h])
         /\ \A h \in Handles : Alike(v.hs[h], u.hs[h]) /\ u.hs[h].lastCluster = FREE
<1>1. \A n \in SlotNumbers : u.slots[n].cluster = FREE
  BY DEF Forgotten, EmptySlot
<1>2. \A h \in Handles : Alike(v.hs[h], u.hs[h]) /\ u.hs[h].lastCluster = FREE
  <2> TAKE h \in Handles
  <2>1. PICK o \in KnownHandle : o = v.hs[h]
    BY VolHas
  <2>2. PICK p \in KnownHandle : p = Located(o, 0, FREE)
    BY <2>1, KnownAre, LocatedIs
  <2>3. u.hs[h] = p
    BY <2>1, <2>2 DEF Forgotten, Unknown
  <2> QED BY <2>1, <2>2, <2>3, KnownAre, LocatedIs DEF Alike
<1> QED BY <1>1, <1>2, ClustersAre DEF SlotRight, HandleRight

(* The chain of f is freed: the layout without it. *)
LEMMA FreeFine ==
  ASSUME NEW v, NEW l, Fine(v, l), NEW f \in Files, NEW x \in Vols, x.fat = v.fat,
         NEW u, u = Free(x, l.first[f])
  PROVE  /\ Forgotten(x, u) /\ u \in Vols /\ u.fat.fails = {} /\ ~u.fat.ioerr
         /\ Linked(View(u.fat), Resized(Emptied(l, f), f, 0))
<1>1. PICK V : V = View(v.fat) /\ Entire(V) /\ Linked(V, l) /\ l \in Layouts
               /\ v.fat \in Tables /\ v.fat.fails = {} /\ ~v.fat.ioerr
  BY FineHas
<1>2. l.first[f] \in Entry
  BY <1>1, LayoutHas, KnownAre
<1>3. Forgotten(x, u) /\ u.fat = FreeChain(v.fat, l.first[f])
  BY <1>2, FreeIs
<1>4. /\ Tail(V, l, f, 0) /\ GoesOn(l, f, 0, l.first[f])
      /\ \A d \in Clusters : l.own[d] = f => l.pos[d] < NClusters
  BY <1>1, WholeTail
<1>5. u.fat \in Tables /\ u.fat.fails = {} /\ ~u.fat.ioerr /\ View(u.fat) = FreedFrom(V, l, f, 0)
  <2>1. PlacesDiffer(l) /\ 0 \in Nat
    BY <1>1, LinkedDiffer
  <2> QED BY <1>1, <1>2, <1>3, <1>4, <2>1, FreeChainFrees
<1>6. PICK k : k = Emptied(l, f)
  OBVIOUS
<1>7. Linked(View(u.fat), k) /\ k \in Layouts
  BY <1>1, <1>5, <1>6, EmptiedLinked, EmptiedIs
<1>8. PICK z : z = Resized(k, f, 0)
  OBVIOUS
<1>9. z.own = k.own /\ z.pos = k.pos /\ z.first = k.first
  <2>1. 0 \in Sizes
    BY Constants DEF Sizes
  <2> QED BY <1>7, <1>8, <2>1, ResizedIs
<1>10. Linked(View(u.fat), z)
  BY <1>7, <1>9, ResizedLinked
<1> QED BY <1>3, <1>5, <1>6, <1>8, <1>10 DEF Forgotten

(* The layout that is left. *)
LEMMA GoneIs ==
  ASSUME NEW l \in Layouts, NEW f \in Files, NEW k, k = Resized(Emptied(l, f), f, 0)
  PROVE  /\ k \in Layouts /\ k.pos = l.pos
         /\ \A c \in Clusters : k.own[c] = IF l.own[c] = f THEN NONE ELSE l.own[c]
         /\ \A g \in Files : k.first[g] = IF g = f THEN FREE ELSE l.first[g]
         /\ \A g \in Files : k.size[g] = IF g = f THEN 0 ELSE l.size[g]
         /\ \A g \in Files : Backed(l, g) => Backed(k, g)
<1>1. PICK z : z = Emptied(l, f)
  OBVIOUS
<1>2. /\ z \in Layouts /\ z.pos = l.pos /\ z.size = l.size
      /\ \A c \in Clusters : z.own[c] = IF l.own[c] = f THEN NONE ELSE l.own[c]
      /\ \A g \in Files : z.first[g] = IF g = f THEN FREE ELSE l.first[g]
  BY <1>1, EmptiedIs
<1>3. 0 \in Sizes
  BY Constants DEF Sizes
<1>4. /\ k \in Layouts /\ k.own = z.own /\ k.pos = z.pos /\ k.first = z.first
      /\ \A g \in Files : k.size[g] = IF g = f THEN 0 ELSE z.size[g]
  BY <1>1, <1>2, <1>3, ResizedIs
<1>5. \A g \in Files : Backed(l, g) => Backed(k, g)
  <2> SUFFICES ASSUME NEW g \in Files, Backed(l, g), g # f PROVE Backed(k, g)
    BY <1>4 DEF Backed
  <2>1. k.size[g] = l.size[g]
    BY <1>2, <1>4
  <2> QED BY <1>2, <1>4, <2>1 DEF Backed
<1> QED BY <1>2, <1>4, <1>5

(* AH=40h of no units at the start of the file. *)
LEMMA EmptyFine ==
  ASSUME NEW v, NEW l, Fine(v, l), NEW h \in Handles, v.hs[h].file # NONE, v.hs[h].write
  PROVE  \E k : Fine(Free(SetFirst(SetSized(v, h, 0), h, FREE), v.hs[h].first), k)
<1>1. PICK f \in Files : f = v.hs[h].file /\ v.hs[h].first = l.first[f]
  BY OpenHandle
<1>2. PICK o \in KnownHandle : o = v.hs[h]
  BY FineHas
<1>3. v \in Vols /\ l \in Layouts /\ 0 \in Sizes
  BY FineHas, Constants DEF Sizes
<1>4. PICK y : y = SetSized(v, h, 0)
  OBVIOUS
<1>5. PICK p \in KnownHandle : p = Sized(o, 0)
  BY <1>3, SizedIs
<1>6. p.size = 0 /\ p.dirty /\ p.file = o.file /\ p.write = o.write
  BY <1>3, <1>5, SizedIs
<1>7. OnlyHandle(v, y, h, p)
  BY <1>2, <1>3, <1>4, <1>5, SetSizedIs
<1>8. PICK x : x = SetFirst(y, h, FREE)
  OBVIOUS
<1>9. PICK q \in KnownHandle : q = FirstOf(p, FREE)
  BY KnownAre, FirstOfIs
<1>10. q.first = FREE /\ q.file = p.file /\ q.write = p.write /\ q.size = p.size /\ q.dirty = p.dirty
  BY <1>9, KnownAre, FirstOfIs
<1>11. OnlyHandle(y, x, h, q)
  <2>1. y \in Vols /\ y.hs[h] = p
    BY <1>7 DEF OnlyHandle
  <2> QED BY <1>8, <1>9, <2>1, KnownAre, SetFirstIs
<1>12. x \in Vols /\ x.fat = v.fat /\ x.root = v.root /\ x.hs[h] = q
       /\ \A g \in Handles : g # h => x.hs[g] = v.hs[g]
  BY <1>7, <1>11 DEF OnlyHandle
<1>13. PICK u : u = Free(x, l.first[f])
  OBVIOUS
<1>14. PICK k : k = Resized(Emptied(l, f), f, 0)
  OBVIOUS
<1>15. /\ Forgotten(x, u) /\ u \in Vols /\ u.fat.fails = {} /\ ~u.fat.ioerr /\ Linked(View(u.fat), k)
  BY <1>12, <1>13, <1>14, FreeFine
<1>16. /\ k \in Layouts
       /\ \A g \in Files : k.first[g] = IF g = f THEN FREE ELSE l.first[g]
       /\ \A g \in Files : k.size[g] = IF g = f THEN 0 ELSE l.size[g]
       /\ \A g \in Files : Backed(l, g) => Backed(k, g)
  BY <1>3, <1>14, GoneIs
<1>17. /\ \A n \in SlotNumbers : SlotRight(k, u.slots[n])
       /\ \A g \in Handles : HandleRight(k, u.hs[g])
       /\ \A g \in Handles : Alike(x.hs[g], u.hs[g])
  BY <1>12, <1>15, ForgottenRight
<1>18. \A g \in Handles : g # h => Alike(v.hs[g], u.hs[g])
  BY <1>12, <1>17
<1>19. u.root = v.root
  BY <1>12, <1>15 DEF Forgotten
<1>20. u.hs[h].file = f /\ u.hs[h].write /\ u.hs[h].first = FREE /\ u.hs[h].size = 0 /\ u.hs[h].dirty
  BY <1>1, <1>2, <1>6, <1>10, <1>12, <1>17 DEF Alike
<1>21. \A g \in Files : Backed(k, g)
  BY <1>16 DEF Fine, Laid
<1>22. Fine(u, k)
  BY <1>1, <1>15, <1>16, <1>17, <1>18, <1>19, <1>20, <1>21, WriterFine
<1> QED BY <1>1, <1>4, <1>8, <1>13, <1>22

-----------------------------------------------------------------------------
(* Cutting a chain                                                         *)

LEMMA CutTurnsFine ==
  ASSUME NEW v, NEW l, Fine(v, l), NEW f \in Files, NEW n \in Nat,
         \A k \in 0 .. n : \E c \in Clusters : l.own[c] = f /\ l.pos[c] = k,
         NEW first, At(l, first, f, 0), NEW g, CutTurns(g, v.fat, first, n)
  PROVE  CutState(v.fat, g[n]) /\ At(l, g[n].c, f, n)
<1>1. l \in Layouts /\ Linked(View(v.fat), l) /\ v.fat \in Tables /\ v.fat.fails = {}
  BY FineHas
<1>2. first \in Entry
  BY ClustersAre DEF At
<1> DEFINE I == {j \in 0 .. n : CutState(v.fat, g[j]) /\ At(l, g[j].c, f, j)}
<1>3. \A j \in 0 .. n : CutState(v.fat, g[j])
  BY <1>1, <1>2, CutTypes
<1>4. 0 \in I
  <2>1. 0 \in 0 .. n
    OBVIOUS
  <2>2. g[0] = [t |-> v.fat, c |-> first]
    BY <2>1 DEF CutTurns
  <2> QED BY <1>3, <2>1, <2>2
<1>5. ASSUME NEW j \in 0 + 1 .. n, j - 1 \in I PROVE j \in I
  <2>1. j \in 0 .. n /\ j # 0 /\ j - 1 \in Nat /\ (j - 1) + 1 = j
    OBVIOUS
  <2>2. PICK p : p = g[j - 1]
    OBVIOUS
  <2>3. CutState(v.fat, p) /\ At(l, p.c, f, j - 1)
    BY <1>5, <2>2
  <2>4. g[j] = [t |-> FatNext(p.t, p.c), c |-> FatNext(p.t, p.c).ax]
    <3>1. g[j] = CutNext(p)
      BY <2>1, <2>2 DEF CutTurns
    <3> QED BY <2>3, <3>1 DEF CutNext, At
  <2>5. p.t \in Tables /\ View(p.t) = View(v.fat) /\ p.t.fails = {}
    BY <1>1, <2>3 DEF CutState, Kept
  <2>6. FatNext(p.t, p.c).ax = View(v.fat)[p.c]
    BY <2>3, <2>5, FatNextIs DEF At
  <2>7. PICK d \in Clusters : l.own[d] = f /\ l.pos[d] = j
    BY <2>1
  <2>8. View(v.fat)[p.c] = d
    BY <1>1, <2>1, <2>3, <2>7, NextPlace DEF At
  <2>9. g[j].c = d
    BY <2>4, <2>6, <2>8
  <2> QED BY <1>3, <2>1, <2>7, <2>9 DEF At
<1> HIDE DEF I
<1>6. \A j \in 0 .. n : j \in I
  BY <1>4, <1>5, Upwards, Zenon
<1>7. n \in I
  BY <1>6
<1> QED BY <1>7 DEF I

(* What comes after the last cluster that is kept is freed. *)
LEMMA CutAtFine ==
  ASSUME NEW v, NEW l, Fine(v, l), NEW f \in Files, NEW n \in Nat, NEW p, CutState(v.fat, p),
         At(l, p.c, f, n), NEW u, u = CutAt(v, p)
  PROVE  /\ SameFiles(v, u) /\ u.fat.fails = {} /\ ~u.fat.ioerr
         /\ Linked(View(u.fat), Shortened(l, f, n + 1))
<1>1. PICK V : V = View(v.fat) /\ Entire(V) /\ Linked(V, l) /\ l \in Layouts
               /\ v \in Vols /\ v.fat \in Tables /\ v.fat.fails = {} /\ ~v.fat.ioerr
  BY FineHas
<1>2. SameFiles(v, u)
  BY <1>1, CutAtIs
<1>3. PICK e \in Clusters : e = p.c /\ l.own[e] = f /\ l.pos[e] = n
  BY DEF At
<1>4. p.t \in Tables /\ View(p.t) = V /\ p.t.fails = {} /\ ~p.t.ioerr
  BY <1>1 DEF CutState, Kept
<1>5. PICK t : t = FatNext(p.t, e)
  OBVIOUS
<1>6. t \in Tables /\ View(t) = V /\ t.fails = {} /\ ~t.ioerr /\ t.ax = V[e]
  BY <1>4, <1>5, FatNextIs DEF Kept
<1>7. PICK s \in Nat : s = n + 1 /\ s = l.pos[e] + 1
  BY <1>3
<1>8. PICK k : k = Shortened(l, f, s)
  OBVIOUS
<1>9. PICK U : U = [V EXCEPT ![e] = EOC]
  OBVIOUS
<1>10. PICK W : W = FreedFrom(U, l, f, s)
  OBVIOUS
<1>11. Linked(W, k)
  BY <1>1, <1>3, <1>7, <1>8, <1>9, <1>10, ShortenedLinked
<1>12. CASE V[e] \notin Clusters
  <2>1. u = WithFat(v, t)
    BY <1>3, <1>5, <1>6, <1>12 DEF CutAt, WithFat
  <2>2. u.fat = t
    BY <1>1, <1>6, <2>1, WithFatIs
  <2>3. V[e] = EOC
    <3>1. V[e] # FREE
      BY <1>1, <1>3, Constants DEF Linked
    <3>2. V[e] \in Entry
      BY <1>1 DEF Entire
    <3> QED BY <1>12, <3>1, <3>2, ClustersAre
  <2>4. U = V
    BY <1>1, <1>9, <2>3 DEF Entire
  <2>5. \A d \in Clusters : ~(l.own[d] = f /\ l.pos[d] >= s)
    <3>1. \A d \in Clusters : l.own[d] = f => l.pos[d] <= l.pos[e]
      BY <1>1, <1>3, <1>12, Constants, LastOne
    <3> QED BY <1>1, <1>7, <3>1, LayoutHas
  <2>6. W = V
    BY <1>1, <1>10, <2>4, <2>5 DEF FreedFrom, Entire
  <2> QED BY <1>2, <1>6, <1>7, <1>8, <1>11, <2>2, <2>6
<1>13. CASE V[e] \in Clusters
  <2>1. PICK y : y = Unlink(t, e)
    OBVIOUS
  <2>2. y \in Tables /\ y.fails = {} /\ ~y.ioerr /\ View(y) = U
    <3>1. Stored(t, y, e, EOC)
      BY <1>6, <2>1, ClustersAre, FatSetIs DEF Unlink
    <3> QED BY <1>6, <1>9, <3>1 DEF Stored
  <2>3. PICK x : x = WithFat(v, y)
    OBVIOUS
  <2>4. x \in Vols /\ x.fat = y
    BY <1>1, <2>2, <2>3, WithFatIs
  <2>5. u = Free(x, V[e])
    BY <1>3, <1>5, <1>6, <1>13, <2>1, <2>3 DEF CutAt, WithFat
  <2>6. V[e] \in Entry
    BY <1>13, ClustersAre
  <2>7. u.fat = FreeChain(y, V[e])
    BY <2>4, <2>5, <2>6, FreeIs
  <2>8. /\ Tail(U, l, f, s) /\ GoesOn(l, f, s, V[e])
        /\ \A d \in Clusters : l.own[d] = f => l.pos[d] < NClusters
    BY <1>1, <1>3, <1>7, <1>9, RestTail
  <2>9. PlacesDiffer(l)
    BY <1>1, LinkedDiffer
  <2>10. u.fat.fails = {} /\ ~u.fat.ioerr /\ View(u.fat) = W
    BY <1>1, <1>10, <2>2, <2>6, <2>7, <2>8, <2>9, FreeChainFrees
  <2> QED BY <1>2, <1>7, <1>8, <1>11, <2>10
<1> QED BY <1>12, <1>13

LEMMA ShortIs ==
  ASSUME NEW l \in Layouts, NEW f \in Files, NEW n \in Nat, NEW e, At(l, e, f, n),
         n = (l.size[f] - 1) \div ClusterUnits, NEW k, k = Shortened(l, f, n + 1)
  PROVE  /\ k \in Layouts /\ k.first = l.first /\ k.size = l.size
         /\ \A g \in Files : Backed(l, g) => Backed(k, g)
<1>1. n + 1 \in Nat
  OBVIOUS
<1>2. /\ k \in Layouts /\ k.pos = l.pos /\ k.size = l.size /\ k.first = l.first
      /\ \A c \in Clusters : k.own[c] = IF l.own[c] = f /\ l.pos[c] >= n + 1 THEN NONE ELSE l.own[c]
  BY <1>1, ShortenedIs
<1>3. Backed(k, f)
  BY <1>2 DEF Backed, At
<1>4. \A g \in Files : g # f /\ Backed(l, g) => Backed(k, g)
  BY <1>2 DEF Backed
<1> QED BY <1>2, <1>3, <1>4

(* cut_chain: the size is the new one already. *)
LEMMA CutChainFine ==
  ASSUME NEW v, NEW l, Fine(v, l), NEW h \in Handles, v.hs[h].file # NONE, v.hs[h].write,
         NEW n \in Nat, n > 0, v.hs[h].size = n
  PROVE  \E k : Fine(CutChain(v, h, n), k)
<1>1. PICK f \in Files : f = v.hs[h].file /\ v.hs[h].first = l.first[f] /\ l.size[f] = n
  BY OpenHandle
<1>2. v \in Vols /\ l \in Layouts /\ Linked(View(v.fat), l) /\ f # NONE
  BY FineHas, Constants
<1>3. PICK m \in Nat : m = (n - 1) \div ClusterUnits
  <2>1. n - 1 \in Nat
    OBVIOUS
  <2> QED BY <2>1, IndexIs
<1>4. PICK first : first = v.hs[h].first /\ At(l, first, f, 0)
  BY <1>1, FirstPlace
<1>5. \A k \in 0 .. m : \E c \in Clusters : l.own[c] = f /\ l.pos[c] = k
  <2>1. n - 1 \in Nat /\ n - 1 < l.size[f]
    BY <1>1
  <2> QED BY <1>3, <2>1, HasPlaces
<1>6. PICK g : CutTurns(g, v.fat, first, m)
               /\ CutChain(v, h, n) = IF v.hs[h].first \in Clusters
                                      THEN CacheStore(InvalidateAll(CutAt(v, g[m])), h, 0, first)
                                      ELSE InvalidateAll(CutAt(v, g[m]))
  BY <1>2, <1>3, <1>4, CutChainTurns
<1>7. PICK p : p = g[m]
  OBVIOUS
<1>8. CutState(v.fat, p) /\ At(l, p.c, f, m)
  BY <1>4, <1>5, <1>6, <1>7, CutTurnsFine
<1>9. PICK x : x = CutAt(v, p)
  OBVIOUS
<1>10. PICK k : k = Shortened(l, f, m + 1)
  OBVIOUS
<1>11. SameFiles(v, x) /\ x.fat.fails = {} /\ ~x.fat.ioerr /\ Linked(View(x.fat), k)
  BY <1>8, <1>9, <1>10, CutAtFine
<1>12. x \in Vols /\ x.root = v.root
  BY <1>11 DEF SameFiles
<1>13. PICK y : y = InvalidateAll(x)
  OBVIOUS
<1>14. Forgotten(x, y) /\ y.fat = x.fat
  BY <1>12, <1>13, InvalidateAllIs
<1>15. /\ \A i \in SlotNumbers : SlotRight(k, y.slots[i])
       /\ \A o \in Handles : HandleRight(k, y.hs[o])
       /\ \A o \in Handles : Alike(x.hs[o], y.hs[o]) /\ y.hs[o].lastCluster = FREE
  BY <1>12, <1>14, ForgottenRight
<1>16. \A o \in Handles : Alike(v.hs[o], y.hs[o])
  BY <1>11, <1>15 DEF Alike, SameFiles
<1>17. k \in Layouts /\ k.first = l.first /\ k.size = l.size
       /\ \A o \in Files : Backed(l, o) => Backed(k, o)
  BY <1>1, <1>2, <1>3, <1>8, <1>10, ShortIs
<1>18. \A o \in Files : Backed(k, o)
  BY <1>17 DEF Fine, Laid
<1>19. Fine(y, k)
  <2>1. y \in Vols /\ y.root = v.root
    BY <1>12, <1>14 DEF Forgotten
  <2>2. y.hs[h].file = f /\ y.hs[h].write /\ y.hs[h].first = first /\ y.hs[h].size = n
        /\ (y.hs[h].dirty <=> v.hs[h].dirty)
    BY <1>1, <1>4, <1>16 DEF Alike
  <2> QED BY <1>1, <1>4, <1>11, <1>14, <1>15, <1>16, <1>17, <1>18, <2>1, <2>2, WriterFine
<1>20. first \in Clusters
  BY <1>4 DEF At
<1>21. PICK u : u = CacheStore(y, h, 0, first)
  OBVIOUS
<1>22. CutChain(v, h, n) = u
  BY <1>4, <1>6, <1>7, <1>9, <1>13, <1>20, <1>21
<1>23. StoredAt(y, u, h, 0, first)
  BY <1>19, <1>20, <1>21, KnownAre, CacheStoreIs DEF Fine
<1>24. y.hs[h].first = first /\ y.hs[h].file = f
  BY <1>1, <1>4, <1>16 DEF Alike
<1>25. Positioned(k, y.hs[h].first, 0, first)
  <2>1. At(k, first, f, 0)
    <3>1. k.first[f] = first /\ Linked(View(y.fat), k)
      BY <1>1, <1>4, <1>11, <1>14, <1>17
    <3> QED BY <1>20, <3>1 DEF Linked, At
  <2> QED BY <1>2, <1>24, <2>1 DEF At, Positioned
<1>26. Fine(u, k)
  BY <1>2, <1>19, <1>20, <1>23, <1>24, <1>25, StoredFine
<1> QED BY <1>22, <1>26

-----------------------------------------------------------------------------
(* Handles, entries and the volume between two calls                       *)

(* One handle differs, and the layout is as good for the new one. *)
LEMMA OneFine ==
  ASSUME NEW v, NEW l, Fine(v, l), NEW h \in Handles, NEW p \in KnownHandle, NEW u,
         OnlyHandle(v, u, h, p), HandleAgrees(l, v.root, p), Exclusive(u.hs),
         p.dirty <=> v.hs[h].dirty, p.dirty => p.file = v.hs[h].file
  PROVE  Fine(u, l)
<1>1. /\ u \in Vols /\ u.fat = v.fat /\ u.slots = v.slots /\ u.root = v.root /\ u.hs[h] = p
      /\ \A g \in Handles : g # h => u.hs[g] = v.hs[g]
  BY DEF OnlyHandle
<1>2. \A g \in Handles : HandleAgrees(l, u.root, u.hs[g])
  <2> TAKE g \in Handles
  <2>1. HandleAgrees(l, v.root, v.hs[g])
    BY FineHas
  <2> QED BY <1>1, <2>1
<1>3. \A f \in Files : Unsaved(u.hs, f) \/ EntryAgrees(l, f, u.root[f])
  <2> TAKE f \in Files
  <2>1. Unsaved(v.hs, f) => Unsaved(u.hs, f)
    BY <1>1 DEF Unsaved
  <2> QED BY <1>1, <2>1 DEF Fine, Laid
<1> QED BY <1>1, <1>2, <1>3 DEF Fine, Laid

LEMMA SeekFine ==
  ASSUME NEW v, NEW l, Fine(v, l), NEW h \in Handles, v.hs[h].file # NONE, NEW n \in Sizes
  PROVE  Fine(SetPos(v, h, n), l)
<1>1. PICK o \in KnownHandle : o = v.hs[h] /\ HandleAgrees(l, v.root, o)
  BY FineHas
<1>2. PICK p \in KnownHandle : p = Seeked(o, n)
  BY SeekedIs
<1>3. /\ p.file = o.file /\ p.write = o.write /\ p.first = o.first /\ p.size = o.size
      /\ p.dirty = o.dirty /\ p.lastIndex = o.lastIndex /\ p.lastCluster = o.lastCluster
  BY <1>2, SeekedIs
<1>4. PICK u : u = SetPos(v, h, n)
  OBVIOUS
<1>5. OnlyHandle(v, u, h, p)
  <2>1. v \in Vols
    BY FineHas
  <2> QED BY <1>1, <1>2, <1>4, <2>1, SetPosIs
<1>6. HandleAgrees(l, v.root, p)
  BY <1>1, <1>3 DEF HandleAgrees, HandleRight
<1>7. Exclusive(u.hs)
  <2>1. \A g \in Handles : u.hs[g].file = v.hs[g].file /\ (u.hs[g].write <=> v.hs[g].write)
    BY <1>1, <1>3, <1>5 DEF OnlyHandle
  <2> QED BY <2>1 DEF Fine, Laid, Exclusive
<1> QED BY <1>1, <1>3, <1>4, <1>5, <1>6, <1>7, OneFine

(* A handle is closed, or opened on a file that no other one writes. *)
LEMMA CloseFine ==
  ASSUME NEW v, NEW l, Fine(v, l), NEW h \in Handles, ~v.hs[h].dirty
  PROVE  Fine(PutHandle(v, h, Closed), l)
<1>1. PICK p \in KnownHandle : p = Closed
  BY ClosedIs
<1>2. p.file = NONE /\ p.lastCluster = FREE /\ ~p.dirty
  BY <1>1 DEF Closed
<1>3. PICK u : u = PutHandle(v, h, p)
  OBVIOUS
<1>4. OnlyHandle(v, u, h, p)
  <2>1. v \in Vols
    BY FineHas
  <2> QED BY <1>3, <2>1, PutHandleIs
<1>5. HandleAgrees(l, v.root, p)
  BY <1>2 DEF HandleAgrees
<1>6. Exclusive(u.hs)
  <2> SUFFICES ASSUME NEW a \in Handles, NEW b \in Handles, u.hs[a].file # NONE,
                      u.hs[a].file = u.hs[b].file, u.hs[a].write
               PROVE  a = b
    BY DEF Exclusive
  <2>1. u.hs[a] = v.hs[a] /\ u.hs[b] = v.hs[b]
    BY <1>2, <1>4 DEF OnlyHandle
  <2> QED BY <2>1 DEF Fine, Laid, Exclusive
<1> QED BY <1>1, <1>2, <1>3, <1>4, <1>5, <1>6, OneFine

LEMMA OpenFine ==
  ASSUME NEW v, NEW l, Fine(v, l), NEW h \in Handles, v.hs[h].file = NONE,
         NEW f \in Files, v.root[f] # NONE, NEW p \in KnownHandle, p.file = f,
         p.first = l.first[f], p.size = l.size[f], ~p.dirty, p.lastCluster = FREE,
         \A g \in Handles : v.hs[g].file = f => ~p.write /\ ~v.hs[g].write
  PROVE  Fine(PutHandle(v, h, p), l)
<1>1. PICK u : u = PutHandle(v, h, p)
  OBVIOUS
<1>2. OnlyHandle(v, u, h, p) /\ HandleAgrees(l, v.root, v.hs[h])
  <2>1. v \in Vols
    BY FineHas
  <2> QED BY <1>1, <2>1, PutHandleIs, FineHas
<1>3. HandleAgrees(l, v.root, p)
  BY Constants, ClustersAre DEF HandleAgrees, HandleRight
<1>4. ~v.hs[h].dirty
  BY <1>2 DEF HandleAgrees
<1>5. Exclusive(u.hs)
  <2> SUFFICES ASSUME NEW a \in Handles, NEW b \in Handles, u.hs[a].file # NONE,
                      u.hs[a].file = u.hs[b].file, u.hs[a].write, a # b
               PROVE  FALSE
    BY DEF Exclusive
  <2>1. CASE a # h /\ b # h
    <3>1. u.hs[a] = v.hs[a] /\ u.hs[b] = v.hs[b]
      BY <1>2, <2>1 DEF OnlyHandle
    <3> QED BY <3>1 DEF Fine, Laid, Exclusive
  <2>2. CASE a = h /\ b # h
    BY <1>2, <2>2 DEF OnlyHandle
  <2>3. CASE a # h /\ b = h
    BY <1>2, <2>3 DEF OnlyHandle
  <2> QED BY <2>1, <2>2, <2>3
<1> QED BY <1>1, <1>2, <1>3, <1>4, <1>5, OneFine

(* A file that no handle has changes, with its entry. *)
LEMMA IdleFine ==
  ASSUME NEW v, NEW l, Fine(v, l), NEW f \in Files, \A h \in Handles : v.hs[h].file # f,
         NEW u \in Vols, u.fat.fails = {}, ~u.fat.ioerr, NEW k \in Layouts, Linked(View(u.fat), k),
         \A n \in SlotNumbers : SlotRight(k, u.slots[n]),
         \A h \in Handles : HandleRight(k, u.hs[h]) /\ Alike(v.hs[h], u.hs[h]),
         \A g \in Files : g # f =>
             u.root[g] = v.root[g] /\ k.first[g] = l.first[g] /\ k.size[g] = l.size[g],
         EntryAgrees(k, f, u.root[f]), \A g \in Files : Backed(k, g)
  PROVE  Fine(u, k)
<1>1. \A h \in Handles : HandleAgrees(k, u.root, u.hs[h])
  <2> TAKE h \in Handles
  <2>1. HandleAgrees(l, v.root, v.hs[h]) /\ v.hs[h] \in KnownHandle
    BY FineHas
  <2>2. v.hs[h].file # NONE => v.hs[h].file \in Files /\ v.hs[h].file # f
    BY <2>1, HandleHas
  <2>3. v.hs[h].file # NONE => /\ k.first[v.hs[h].file] = l.first[v.hs[h].file]
                               /\ k.size[v.hs[h].file] = l.size[v.hs[h].file]
                               /\ u.root[v.hs[h].file] = v.root[v.hs[h].file]
    BY <2>2
  <2>4. HandleAgrees(k, v.root, u.hs[h])
    BY <2>1, <2>3, AlikeAgrees
  <2> QED BY <2>3, <2>4 DEF HandleAgrees, Alike
<1>2. Exclusive(u.hs)
  <2>1. \A h \in Handles : u.hs[h].file = v.hs[h].file /\ (u.hs[h].write <=> v.hs[h].write)
    BY DEF Alike
  <2> QED BY <2>1 DEF Fine, Laid, Exclusive
<1>3. \A g \in Files : Unsaved(u.hs, g) \/ EntryAgrees(k, g, u.root[g])
  <2> TAKE g \in Files
  <2>1. CASE g = f
    BY <2>1
  <2>2. CASE g # f
    <3>1. Unsaved(v.hs, g) \/ EntryAgrees(l, g, v.root[g])
      BY DEF Fine, Laid
    <3>2. Unsaved(v.hs, g) => Unsaved(u.hs, g)
      BY DEF Unsaved, Alike
    <3> QED BY <2>2, <3>1, <3>2 DEF EntryAgrees
  <2> QED BY <2>1, <2>2
<1> QED BY <1>1, <1>2, <1>3 DEF Fine, Laid

(* Between two calls: what the last one left. *)
Well(v, l) == v \in Vols /\ l \in Layouts /\ ~v.fat.ioerr /\ Laid(v, l)
Resting == ~fat.cf /\ \E l : Well(Here, l)
Calm == Resting' /\ (answer' # "ok" => \A c \in Clusters : View(fat')[c] # FREE)

LEMMA FineIsWell == ASSUME NEW v, NEW l, Fine(v, l) PROVE Well(v, l)
BY DEF Fine, Well

LEMMA StartFine ==
  ASSUME Sitting, NEW l, Well(Here, l)
  PROVE  LET v == Start({}) IN
         /\ Fine(v, l) /\ v \in Vols /\ v.slots = slots /\ v.hs = hs /\ v.root = root
         /\ v.disk = disk
<1>1. PICK v : v = Start({})
  OBVIOUS
<1>2. /\ v \in Vols /\ v.slots = slots /\ v.hs = hs /\ v.root = root /\ v.disk = disk
      /\ v.fat.fails = {} /\ v.fat.ioerr = fat.ioerr /\ View(v.fat) = View(fat)
  BY <1>1, StartIs
<1>3. Laid(v, l)
  BY <1>2, HereIs DEF Well, Laid
<1> QED BY <1>1, <1>2, <1>3, HereIs DEF Fine, Well

LEMMA FinishFine ==
  ASSUME NEW v, NEW l, Well(v, l), NEW a \in {"ok", "full", "error"}, a # "ok" => Full(v),
         Finish(v, a)
  PROVE  Calm
<1>1. /\ Sitting' /\ answer' = a /\ View(fat') = View(v.fat) /\ fat'.ioerr = v.fat.ioerr
      /\ slots' = v.slots /\ hs' = v.hs /\ root' = v.root
  BY FinishIs DEF Well
<1>2. Laid(Here', l)
  <2>1. Here'.fat = fat' /\ Here'.slots = slots' /\ Here'.hs = hs' /\ Here'.root = root'
    BY DEF Here
  <2> QED BY <1>1, <2>1 DEF Well, Laid
<1>3. Here' \in Vols /\ ~Here'.fat.ioerr
  <2>1. Here'.fat = fat'
    BY DEF Here
  <2> QED BY <1>1, <2>1 DEF Sitting, Well
<1>4. ~fat'.cf
  <2>1. fat' = End(v.fat) /\ v.fat \in Table
    BY VolHas, TableHas DEF Finish, Well
  <2> QED BY <2>1 DEF End, Table
<1>5. Resting'
  BY <1>2, <1>3, <1>4 DEF Resting, Well
<1> QED BY <1>1, <1>5 DEF Calm, Full

-----------------------------------------------------------------------------
(* Every call, when no transfer fails                                      *)

LEMMA NoFaults == ASSUME Faults = {} PROVE \A F \in FailSets : F = {}
BY DEF FailSets

LEMMA SeekRests ==
  ASSUME Sitting, NEW l, Well(Here, l), NEW h \in Handles, NEW p \in Sizes, Seek(h, p)
  PROVE  Calm
<1>1. PICK v : v = Start({})
  OBVIOUS
<1>2. Fine(v, l) /\ v.hs = hs
  BY <1>1, StartFine
<1>3. PICK u : u = SetPos(v, h, p)
  OBVIOUS
<1>4. Finish(u, "ok") /\ hs[h].file # NONE
  BY <1>1, <1>3 DEF Seek, SetPos
<1>5. Fine(u, l)
  BY <1>2, <1>3, <1>4, SeekFine
<1> QED BY <1>4, <1>5, FineIsWell, FinishFine

LEMMA OpenRests ==
  ASSUME Sitting, NEW l, Well(Here, l), NEW f \in Files, NEW h \in Handles, NEW write \in BOOLEAN,
         Open(f, h, write)
  PROVE  Calm
<1>1. PICK b : b = Start({})
  OBVIOUS
<1>2. Fine(b, l) /\ b.hs = hs /\ b.root = root
  BY <1>1, StartFine
<1>3. /\ root[f] # NONE /\ hs[h].file = NONE
      /\ \A g \in Handles : hs[g].file = f => ~write /\ ~hs[g].write
  BY DEF Open, OpenOn
<1>4. PICK e \in KnownEntry : e = root[f] /\ e.first \in Known /\ e.size \in Sizes
  BY <1>3, NoneIsNoEntry
<1>5. PICK o \in KnownHandle : o = NewHandle(f, write, e.first, e.size)
  BY <1>4, NewHandleIs
<1>6. /\ o.file = f /\ o.write = write /\ o.first = e.first /\ o.size = e.size
      /\ ~o.dirty /\ o.lastCluster = FREE
  BY <1>4, <1>5, NewHandleIs
<1>7. l.first[f] = e.first /\ l.size[f] = e.size
  <2>1. ~Unsaved(b.hs, f)
    <3>1. ASSUME NEW g \in Handles, b.hs[g].file = f PROVE ~b.hs[g].dirty
      <4>1. b.hs[g].file # NONE /\ ~b.hs[g].write
        BY <1>2, <1>3, <3>1, Constants
      <4> QED BY <1>2, <4>1, OpenHandle
    <3> QED BY <3>1 DEF Unsaved
  <2>2. EntryAgrees(l, f, b.root[f])
    BY <1>2, <2>1 DEF Fine, Laid
  <2> QED BY <1>2, <1>3, <1>4, <2>2 DEF EntryAgrees
<1>8. PICK v : v = PutHandle(b, h, o)
  OBVIOUS
<1>9. Fine(v, l)
  <2>1. \A g \in Handles : b.hs[g].file = f => ~o.write /\ ~b.hs[g].write
    BY <1>2, <1>3, <1>6
  <2> QED BY <1>2, <1>3, <1>6, <1>7, <1>8, <2>1, OpenFine
<1>10. v.hs[h] = o /\ v \in Vols
  <2>1. b \in Vols
    BY <1>2, FineHas
  <2> QED BY <1>8, <2>1, PutHandleIs DEF OnlyHandle
<1>11. PICK u : u = IF e.first \in Clusters THEN CacheStore(v, h, 0, e.first) ELSE v
  OBVIOUS
<1>12. Finish(u, "ok")
  BY <1>1, <1>4, <1>5, <1>8, <1>11 DEF Open, PutHandle, NewHandle
<1>13. Fine(u, l)
  <2>1. CASE e.first \notin Clusters
    BY <1>9, <1>11, <2>1
  <2>2. CASE e.first \in Clusters
    <3>1. StoredAt(v, u, h, 0, e.first)
      BY <1>4, <1>10, <1>11, <2>2, CacheStoreIs
    <3>2. Positioned(l, v.hs[h].first, 0, e.first)
      <4>1. Linked(View(v.fat), l)
        BY <1>9, FineHas
      <4> QED BY <1>6, <1>7, <1>10, <2>2, <4>1, Constants DEF Linked, Positioned
    <3>3. v.hs[h].file # NONE
      BY <1>6, <1>10, Constants
    <3> QED BY <1>9, <2>2, <3>1, <3>2, <3>3, StoredFine
  <2> QED BY <2>1, <2>2
<1> QED BY <1>12, <1>13, FineIsWell, FinishFine

LEMMA ReadRests ==
  ASSUME Sitting, NEW l, Well(Here, l), NEW h \in Handles, {} \in FailSets, Read(h, {})
  PROVE  Calm
<1>1. PICK v : v = Start({})
  OBVIOUS
<1>2. Fine(v, l) /\ v.hs = hs /\ v \in Vols
  BY <1>1, StartFine
<1>3. PICK i : i = hs[h].pos \div ClusterUnits
  OBVIOUS
<1>4. PICK g : ReadTurns(g, v.fat, i, CacheLookup(v, h, i)) /\ ReadEnds(v, h, i, g[i])
  BY <1>1, <1>3, ReadTurnsOf
<1>5. hs[h].file # NONE /\ hs[h].pos < hs[h].size
  BY ZenonT(60) DEF Read
<1>6. PICK t : t = g[i]
  OBVIOUS
<1>7. ReadState(v.fat, t) /\ t.ax \in Clusters /\ i \in Nat /\ Positioned(l, hs[h].first, i, t.ax)
  BY <1>2, <1>3, <1>4, <1>5, <1>6, ReadWalkFine
<1>8. t \in Tables /\ View(t) = View(v.fat) /\ t.fails = v.fat.fails /\ t.ioerr = v.fat.ioerr
  <2>1. v.fat.fails = {}
    BY <1>2, FineHas
  <2> QED BY <1>7, <2>1 DEF ReadState, Kept
<1>9. PICK x : x = WithFat(v, t)
  OBVIOUS
<1>10. OnlyTable(v, x) /\ x.fat = t
  BY <1>2, <1>8, <1>9, TableAlone
<1>11. Fine(x, l) /\ x.hs = hs /\ x \in Vols
  BY <1>2, <1>8, <1>10, SteadyFine DEF SameView, OnlyTable
<1>12. PICK u : u = CacheStore(x, h, i, t.ax)
  OBVIOUS
<1>13. StoredAt(x, u, h, i, t.ax)
  BY <1>7, <1>11, <1>12, KnownAre, CacheStoreIs
<1>14. Fine(u, l) /\ u \in Vols
  <2>1. Fine(u, l)
    BY <1>5, <1>7, <1>11, <1>13, StoredFine
  <2> QED BY <2>1, FineHas
<1>15. u.hs[h].file = hs[h].file /\ u.hs[h].pos = hs[h].pos
  BY <1>7, <1>11, <1>13, KnownAre, StoredFiles DEF SameFiles
<1>16. PICK d : d = WithFat(u, Io(u.fat))
  OBVIOUS
<1>17. /\ Io(u.fat) \in Tables /\ View(Io(u.fat)) = View(u.fat) /\ Io(u.fat).ioerr = u.fat.ioerr
       /\ Io(u.fat).fails = u.fat.fails /\ ~Io(u.fat).cf
  BY <1>14, FineHas, IoIs
<1>18. OnlyTable(u, d) /\ d.fat = Io(u.fat)
  BY <1>14, <1>16, <1>17, TableAlone
<1>19. Fine(d, l) /\ d.hs = u.hs
  BY <1>14, <1>17, <1>18, SteadyFine DEF SameView, OnlyTable
<1>20. PICK n \in Sizes : n = hs[h].pos + 1
  <2>1. PICK o \in KnownHandle : o = hs[h]
    BY HandlesAre
  <2>2. o.pos \in 0 .. MaxSize /\ o.size \in 0 .. MaxSize /\ o.pos < o.size
    BY <1>5, <2>1, HandleHas DEF Sizes
  <2>3. o.pos + 1 \in 0 .. MaxSize
    BY <2>2, Constants
  <2> QED BY <2>1, <2>3 DEF Sizes
<1>21. PICK y : y = SetPos(d, h, n)
  OBVIOUS
<1>22. Finish(y, "ok")
  <2>1. Finish([d EXCEPT !.hs[h].pos = @ + 1], "ok")
    BY <1>4, <1>6, <1>7, <1>9, <1>12, <1>16, <1>17, <1>18, ClustersAre DEF ReadEnds
  <2>2. [d EXCEPT !.hs[h].pos = @ + 1] = y
    BY <1>15, <1>19, <1>20, <1>21 DEF SetPos
  <2> QED BY <2>1, <2>2
<1>23. Fine(y, l)
  BY <1>5, <1>15, <1>19, <1>21, SeekFine
<1> QED BY <1>22, <1>23, FineIsWell, FinishFine

(* A write begins, with the gap when there is one. *)
LEMMA WriteStartsFine ==
  ASSUME Sitting, NEW l, Well(Here, l), NEW h \in Handles, {} \in FailSets, NEW n \in Nat,
         hs[h].file # NONE, hs[h].write
  PROVE  LET b == WriteBegins({}, n)
             x == WriteStarts(b, h)
         IN  /\ b \in Writes /\ Owned(b, h) /\ Changing(b, x, h) /\ b.v.hs = hs /\ b.left = n
             /\ b.a = "more"
             /\ Stops(x, "error") /\ (\E k : Fine(x.v, k))
             /\ x.a = "more" => /\ x.v.hs[h].pos <= x.v.hs[h].size
                                /\ hs[h].pos > hs[h].size => x.v.hs[h].size = x.v.hs[h].pos
                                /\ ~(hs[h].pos > hs[h].size) => x = b
<1>1. PICK b \in Writes : b = WriteBegins({}, n) /\ b.left = n /\ b.a = "more" /\ b.v.hs = hs
                          /\ b.v = Start({})
  BY WriteBeginsIs
<1>2. Fine(b.v, l)
  BY <1>1, StartFine
<1>3. Owned(b, h)
  BY <1>1 DEF Owned
<1>4. PICK x : x = WriteStarts(b, h)
  OBVIOUS
<1>5. Changing(b, x, h) /\ x \in Writes
  BY <1>1, <1>4, WriteStartsIs DEF Changing
<1>6. CASE hs[h].pos > hs[h].size
  <2>1. x = GapFill(b, h)
    BY <1>4, <1>6 DEF WriteStarts
  <2>2. /\ Stops(x, "error") /\ (\E k : Fine(x.v, k))
        /\ x.a = "more" => x.v.hs[h].pos = x.v.hs[h].size
    BY <1>1, <1>2, <1>3, <1>6, <2>1, GapFillFine
  <2>3. x.v.hs[h].pos \in Nat /\ x.v.hs[h].size \in Nat
    BY <1>5, WriteHas, VolHas, HandleHas, KnownAre
  <2> QED BY <1>1, <1>3, <1>4, <1>5, <1>6, <2>2, <2>3
<1>7. CASE ~(hs[h].pos > hs[h].size)
  <2>1. x = b
    BY <1>4, <1>7 DEF WriteStarts
  <2>2. hs[h].pos \in Nat /\ hs[h].size \in Nat
    BY HandlesAre, HandleHas, KnownAre
  <2>3. hs[h].pos <= hs[h].size
    BY <1>7, <2>2
  <2> QED BY <1>1, <1>2, <1>3, <1>4, <1>5, <1>7, <2>1, <2>3 DEF Stops
<1> QED BY <1>6, <1>7

LEMMA WriteTurnsStop ==
  ASSUME NEW g, NEW x, NEW h, NEW n \in Nat, WriteTurns(g, x, h, n), x.a # "more"
  PROVE  g[n] = x
<1> DEFINE I == {j \in 0 .. n : g[j] = x}
<1>1. 0 \in I
  BY DEF WriteTurns
<1>2. ASSUME NEW j \in 0 + 1 .. n, j - 1 \in I PROVE j \in I
  <2>1. j \in 0 .. n /\ j # 0 /\ j - 1 \in 0 .. n /\ g[j - 1] = x
    BY <1>2
  <2>2. g[j] = WriteNext(x, h)
    BY <2>1 DEF WriteTurns
  <2>3. WriteNext(x, h) = x
    BY DEF WriteNext
  <2> QED BY <2>1, <2>2, <2>3
<1> HIDE DEF I
<1>3. \A j \in 0 .. n : j \in I
  BY <1>1, <1>2, Upwards, Zenon
<1>4. n \in I
  BY <1>3
<1> QED BY <1>4 DEF I

LEMMA WriteRests ==
  ASSUME Sitting, NEW l, Well(Here, l), NEW h \in Handles, {} \in FailSets, NEW n \in Nat,
         Write(h, n, {})
  PROVE  Calm
<1>1. PICK b : b = WriteBegins({}, n)
  OBVIOUS
<1>2. PICK x : x = WriteStarts(b, h)
  OBVIOUS
<1>3. hs[h].file # NONE /\ hs[h].write /\ hs[h].pos + n <= MaxSize
  BY DEF Write
<1>4. /\ b \in Writes /\ Owned(b, h) /\ Changing(b, x, h) /\ b.v.hs = hs /\ b.left = n
      /\ Stops(x, "error") /\ (\E k : Fine(x.v, k))
      /\ x.a = "more" => x.v.hs[h].pos <= x.v.hs[h].size
  BY <1>1, <1>2, <1>3, WriteStartsFine
<1>5. PICK g : WriteTurns(g, x, h, n) /\ Finish(g[n].v, Answer(g[n].a))
  BY <1>1, <1>2, WriteTurnsOf
<1>6. PICK u : u = g[n]
  OBVIOUS
<1>7. (\E k : Fine(u.v, k)) /\ (Stops(u, "full") \/ Stops(u, "error"))
  <2>1. CASE x.a # "more"
    BY <1>4, <1>5, <1>6, <2>1, WriteTurnsStop
  <2>2. CASE x.a = "more"
    <3>1. Wrote(x, h)
      BY <1>4, <2>2 DEF Wrote, Stops
    <3>2. b.v.hs[h].pos + b.left <= MaxSize
      BY <1>3, <1>4
    <3>3. Wrote(u, h)
      BY <1>4, <1>5, <1>6, <3>1, <3>2, WriteTurnsFine
    <3> QED BY <3>3 DEF Wrote
  <2> QED BY <2>1, <2>2
<1>8. Answer(u.a) \in {"ok", "full", "error"} /\ (Answer(u.a) # "ok" => Full(u.v))
  BY <1>7 DEF Answer, Stops
<1> QED BY <1>5, <1>6, <1>7, <1>8, FineIsWell, FinishFine

-----------------------------------------------------------------------------
(* A handle and its file's entry are saved. *)
LEMMA SaveFine ==
  ASSUME NEW v, NEW l, Fine(v, l), NEW h \in Handles, v.hs[h].file # NONE, NEW u, u = Save(v, h)
  PROVE  Fine(u, l) /\ ~u.fat.cf /\ ~u.hs[h].dirty
<1>1. PICK o \in KnownHandle : o = v.hs[h]
  BY FineHas
<1>2. PICK f \in Files : f = o.file
  BY <1>1, OpenHandle
<1>3. /\ o.first = l.first[f] /\ o.size = l.size[f] /\ (o.dirty => o.write)
      /\ HandleAgrees(l, v.root, o) /\ v \in Vols
  BY <1>1, <1>2, OpenHandle, FineHas
<1>4. Saved(v, u, h) /\ v.fat.fails = {} /\ ~v.fat.ioerr
  BY <1>1, <1>2, <1>3, FineHas, SaveIs
<1>5. /\ u \in Vols /\ u.slots = v.slots /\ View(u.fat) = View(v.fat) /\ u.fat.fails = {}
      /\ ~u.fat.cf /\ ~u.fat.ioerr /\ u.hs[h] = Cleaned(o)
      /\ \A g \in Handles : g # h => u.hs[g] = v.hs[g]
      /\ u.root = v.root \/ (o.dirty /\ u.root = [v.root EXCEPT ![f] = EntryOf(o)])
      /\ u.hs[h] = o \/ (o.dirty => u.root = [v.root EXCEPT ![f] = EntryOf(o)])
  BY <1>1, <1>2, <1>4 DEF Saved
<1>6. PICK p \in KnownHandle : p = Cleaned(o)
  BY CleanedIs
<1>7. /\ ~p.dirty /\ p.file = o.file /\ p.write = o.write /\ p.first = o.first /\ p.size = o.size
      /\ p.lastIndex = o.lastIndex /\ p.lastCluster = o.lastCluster
  BY <1>6, CleanedIs
<1>8. PICK e : e = EntryOf(o)
  OBVIOUS
<1>9. e # NONE /\ e.first = l.first[f] /\ e.size = l.size[f]
  <2>1. e \in [first : Entry, size : 0 .. MaxSize]
    BY <1>8, HandleHas, KnownAre DEF EntryOf, Sizes
  <2> QED BY <1>3, <1>8, <2>1, VolumeAssumption DEF EntryOf
<1>10. IF o.dirty THEN u.root[f] = e /\ (\A g \in Files : g # f => u.root[g] = v.root[g])
       ELSE u.root = v.root
  <2>1. CASE o.dirty
    <3>1. u.root = [v.root EXCEPT ![f] = e]
      BY <1>5, <1>6, <1>7, <1>8, <2>1
    <3>2. v.root \in Entries
      BY <1>3, VolHas
    <3> QED BY <2>1, <3>1, <3>2 DEF Entries
  <2>2. CASE ~o.dirty
    BY <1>5, <2>2
  <2> QED BY <2>1, <2>2
<1>11. \A g \in Handles : HandleAgrees(l, v.root, u.hs[g])
  <2> TAKE g \in Handles
  <2>1. CASE g = h
    BY <1>3, <1>5, <1>6, <1>7, <2>1 DEF HandleAgrees, HandleRight
  <2>2. CASE g # h
    BY <1>5, <2>2, FineHas
  <2> QED BY <2>1, <2>2
<1>12. \A g \in Handles : HandleAgrees(l, u.root, u.hs[g])
  <2> TAKE g \in Handles
  <2>1. HandleAgrees(l, v.root, u.hs[g]) /\ u.hs[g] \in KnownHandle
    BY <1>5, <1>11, VolHas
  <2>2. CASE u.hs[g].file = NONE
    BY <2>1, <2>2 DEF HandleAgrees
  <2>3. CASE u.hs[g].file # NONE
    <3>1. u.hs[g].file \in Files /\ v.root[u.hs[g].file] # NONE
      BY <2>1, <2>3, HandleHas DEF HandleAgrees
    <3>2. u.root[u.hs[g].file] # NONE
      BY <1>9, <1>10, <3>1
    <3> QED BY <2>1, <3>2 DEF HandleAgrees
  <2> QED BY <2>2, <2>3
<1>13. Exclusive(u.hs)
  <2>1. \A g \in Handles : u.hs[g].file = v.hs[g].file /\ (u.hs[g].write <=> v.hs[g].write)
    BY <1>1, <1>5, <1>6, <1>7
  <2> QED BY <2>1 DEF Fine, Laid, Exclusive
<1>14. \A g \in Files : Unsaved(u.hs, g) \/ EntryAgrees(l, g, u.root[g])
  <2> TAKE g \in Files
  <2>1. Unsaved(v.hs, g) \/ EntryAgrees(l, g, v.root[g])
    BY DEF Fine, Laid
  <2>2. CASE g = f /\ o.dirty
    BY <1>9, <1>10, <2>2 DEF EntryAgrees
  <2>3. CASE ~(g = f /\ o.dirty)
    <3>1. u.root[g] = v.root[g]
      BY <1>10, <2>3
    <3>2. Unsaved(v.hs, g) => Unsaved(u.hs, g)
      <4> SUFFICES ASSUME NEW a \in Handles, v.hs[a].file = g, v.hs[a].dirty PROVE Unsaved(u.hs, g)
        BY DEF Unsaved
      <4>1. a # h
        BY <1>1, <1>2, <2>3
      <4>2. u.hs[a] = v.hs[a]
        BY <1>5, <4>1
      <4> QED BY <4>2 DEF Unsaved
    <3> QED BY <2>1, <3>1, <3>2
  <2> QED BY <2>2, <2>3
<1>15. Fine(u, l)
  BY <1>5, <1>12, <1>13, <1>14 DEF Fine, Laid
<1> QED BY <1>5, <1>6, <1>7, <1>15

LEMMA CommitRests ==
  ASSUME Sitting, NEW l, Well(Here, l), NEW h \in Handles, Commit(h, {})
  PROVE  Calm
<1>1. PICK v : v = Start({})
  OBVIOUS
<1>2. Fine(v, l) /\ v.hs = hs
  BY <1>1, StartFine
<1>3. PICK u : u = Save(v, h)
  OBVIOUS
<1>4. Fine(u, l) /\ ~u.fat.cf
  BY <1>2, <1>3, SaveFine DEF Commit
<1>5. Finish(u, "ok")
  BY <1>1, <1>3, <1>4 DEF Commit
<1> QED BY <1>4, <1>5, FineIsWell, FinishFine

LEMMA StartClear == ASSUME Sitting, ~fat.cf PROVE ~Start({}).fat.cf
<1>1. fat \in Table
  BY TableHas, HereIs DEF Sitting
<1> QED BY <1>1 DEF Start, Begin, Table

LEMMA CloseRests ==
  ASSUME Sitting, NEW l, Well(Here, l), ~fat.cf, NEW h \in Handles, Close(h, {})
  PROVE  Calm
<1>1. PICK v : v = Start({})
  OBVIOUS
<1>2. Fine(v, l) /\ v.hs = hs
  BY <1>1, StartFine
<1>3. hs[h].file # NONE
  BY DEF Close
<1>4. PICK u : u = IF hs[h].write THEN Save(v, h) ELSE v
  OBVIOUS
<1>5. Fine(u, l) /\ ~u.hs[h].dirty /\ (hs[h].write => ~u.fat.cf)
  <2>1. CASE hs[h].write
    BY <1>2, <1>3, <1>4, <2>1, SaveFine
  <2>2. CASE ~hs[h].write
    <3>1. ~v.hs[h].dirty
      BY <1>2, <1>3, <2>2, OpenHandle
    <3> QED BY <1>2, <1>4, <2>2, <3>1
  <2> QED BY <2>1, <2>2
<1>6. ~u.fat.cf
  <2>1. ~v.fat.cf
    BY <1>1, StartClear
  <2> QED BY <1>4, <1>5, <2>1
<1>7. PICK x : x = PutHandle(u, h, Closed)
  OBVIOUS
<1>8. Finish(x, "ok")
  BY <1>1, <1>4, <1>6, <1>7 DEF Close, PutHandle
<1>9. Fine(x, l)
  BY <1>5, <1>7, CloseFine
<1> QED BY <1>8, <1>9, FineIsWell, FinishFine

(* A size before the old one, which the chain has clusters for. *)
LEMMA ShrinkFine ==
  ASSUME NEW v, NEW l, Fine(v, l), NEW h \in Handles, v.hs[h].file # NONE, v.hs[h].write,
         NEW n \in Sizes, n > 0, n < v.hs[h].size
  PROVE  \E k : Fine(CutChain(SetSized(v, h, n), h, n), k)
<1>1. PICK o \in KnownHandle : o = v.hs[h]
  BY FineHas
<1>2. PICK f \in Files : f = o.file
  BY <1>1, OpenHandle
<1>3. o.size = l.size[f] /\ v \in Vols /\ l \in Layouts /\ n \in Nat
  BY <1>1, <1>2, OpenHandle, FineHas, KnownAre
<1>4. PICK p \in KnownHandle : p = Sized(o, n)
  BY SizedIs
<1>5. /\ p.size = n /\ p.dirty /\ p.file = f /\ p.write = o.write /\ p.first = o.first
      /\ p.lastIndex = o.lastIndex /\ p.lastCluster = o.lastCluster
  BY <1>2, <1>4, SizedIs
<1>6. PICK u : u = SetSized(v, h, n)
  OBVIOUS
<1>7. OnlyHandle(v, u, h, p)
  BY <1>1, <1>3, <1>4, <1>6, SetSizedIs
<1>8. Backed(Resized(l, f, n), f)
  <2>1. PICK m \in Nat : m = n - 1
    BY <1>3
  <2>2. l.size[f] \in Nat /\ m < l.size[f]
    <3>1. o.size \in Nat
      BY HandleHas, KnownAre
    <3>2. n < o.size
      BY <1>1
    <3> QED BY <1>3, <2>1, <3>1, <3>2
  <2>3. m \div ClusterUnits \in 0 .. (m \div ClusterUnits)
    <3>1. m \div ClusterUnits \in Nat
      BY <2>1, IndexIs
    <3> QED BY <3>1
  <2>4. \E c \in Clusters : l.own[c] = f /\ l.pos[c] = m \div ClusterUnits
    BY <2>1, <2>2, <2>3, HasPlaces
  <2>5. PICK k : k = Resized(l, f, n)
    OBVIOUS
  <2>6. k.own = l.own /\ k.pos = l.pos /\ k.size[f] = n
    BY <1>3, <2>5, ResizedIs
  <2> QED BY <2>1, <2>4, <2>5, <2>6 DEF Backed
<1>9. PICK k : Fine(u, k)
  BY <1>1, <1>2, <1>5, <1>7, <1>8, ResizedFine
<1>10. u.hs[h] = p
  BY <1>7 DEF OnlyHandle
<1>11. u.hs[h].file # NONE /\ u.hs[h].write /\ u.hs[h].size = n
  BY <1>1, <1>2, <1>5, <1>10, Constants
<1> QED BY <1>3, <1>6, <1>9, <1>11, CutChainFine

LEMMA SetSizeRests ==
  ASSUME Sitting, NEW l, Well(Here, l), NEW h \in Handles, {} \in FailSets, SetSize(h, {})
  PROVE  Calm
<1>1. PICK b : b = WriteBegins({}, 0)
  OBVIOUS
<1>2. PICK x : x = WriteStarts(b, h)
  OBVIOUS
<1>3. hs[h].file # NONE /\ hs[h].write /\ 0 \in Nat
  BY DEF SetSize
<1>4. /\ b \in Writes /\ Changing(b, x, h) /\ b.v.hs = hs
      /\ Stops(x, "error") /\ (\E k : Fine(x.v, k))
      /\ x.a = "more" => (~(hs[h].pos > hs[h].size) => x = b)
  BY <1>1, <1>2, <1>3, WriteStartsFine
<1>5. PICK w : w = ChunkData(x)
  OBVIOUS
<1>6. SizeEnds(w, h)
  BY <1>1, <1>2, <1>5, SetSizeSteps DEF SizeTries
<1>7. PICK j : Fine(x.v, j)
  BY <1>4
<1>8. x \in Writes
  BY <1>4 DEF Changing
<1>9. PICK p \in Sizes : p = hs[h].pos /\ p \in Nat
  BY HandlesAre, HandleHas, KnownAre
<1>10. hs[h].size \in Nat
  BY HandlesAre, HandleHas, KnownAre
<1>11. CASE x.a # "more"
  <2>1. w = x /\ x.a = "error" /\ Full(x.v)
    BY <1>4, <1>5, <1>11 DEF ChunkData, Stops
  <2>2. Finish(x.v, "error")
    BY <1>6, <2>1 DEF SizeEnds
  <2> QED BY <1>7, <2>1, <2>2, FineIsWell, FinishFine
<1>12. CASE x.a = "more"
  <2>1. Fine(w.v, j) /\ w.a = "more" /\ w.v.hs = x.v.hs
    BY <1>5, <1>7, <1>8, <1>12, DataIoFine DEF ChunkData
  <2>2. CASE p >= hs[h].size
    <3>1. Finish(w.v, "ok")
      BY <1>6, <1>9, <2>1, <2>2 DEF SizeEnds
    <3> QED BY <2>1, <3>1, FineIsWell, FinishFine
  <2>3. CASE p < hs[h].size
    <3>1. w.v.hs = hs
      BY <1>4, <1>9, <1>10, <1>12, <2>1, <2>3
    <3>2. ~(p >= hs[h].size)
      BY <1>9, <1>10, <2>3
    <3>3. CASE p = 0
      <4>1. PICK u : u = Free(SetFirst(SetSized(w.v, h, 0), h, FREE), w.v.hs[h].first)
        OBVIOUS
      <4>2. Finish(u, "ok")
        BY <1>6, <1>9, <2>1, <3>1, <3>2, <3>3, <4>1 DEF SizeEnds
      <4>3. \E k : Fine(u, k)
        BY <1>3, <2>1, <3>1, <4>1, EmptyFine
      <4> QED BY <4>2, <4>3, FineIsWell, FinishFine
    <3>4. CASE p # 0
      <4>1. PICK u : u = CutChain(SetSized(w.v, h, p), h, p)
        OBVIOUS
      <4>2. Finish(u, "ok")
        BY <1>6, <1>9, <2>1, <3>2, <3>4, <4>1 DEF SizeEnds
      <4>3. p > 0
        BY <1>9, <3>4
      <4>4. \E k : Fine(u, k)
        BY <1>3, <2>1, <2>3, <3>1, <4>1, <4>3, ShrinkFine
      <4> QED BY <4>2, <4>4, FineIsWell, FinishFine
    <3> QED BY <3>3, <3>4
  <2> QED BY <1>9, <1>10, <2>2, <2>3
<1> QED BY <1>11, <1>12

(* The chain of a file that no handle has is freed, and the table saved. *)
Ready(v, u, k) ==
    /\ u \in Vols /\ u.fat.fails = {} /\ ~u.fat.ioerr /\ Linked(View(u.fat), k)
    /\ \A n \in SlotNumbers : SlotRight(k, u.slots[n])
    /\ \A h \in Handles : HandleRight(k, u.hs[h]) /\ Alike(v.hs[h], u.hs[h])

LEMMA FreedReady ==
  ASSUME NEW v, NEW l, Fine(v, l), NEW f \in Files, NEW x \in Vols, x.fat = v.fat, x.hs = v.hs,
         NEW b, b = FlushTable(Free(x, l.first[f])), NEW k, k = Resized(Emptied(l, f), f, 0)
  PROVE  Ready(v, b, k) /\ ~b.fat.cf /\ b.root = x.root /\ k \in Layouts
<1>1. PICK u : u = Free(x, l.first[f])
  OBVIOUS
<1>2. Forgotten(x, u) /\ u \in Vols /\ u.fat.fails = {} /\ ~u.fat.ioerr /\ Linked(View(u.fat), k)
  BY <1>1, FreeFine
<1>3. PICK t \in Tables : t = u.fat
  BY <1>2, VolHas
<1>4. /\ b \in Vols /\ b.slots = u.slots /\ b.hs = u.hs /\ b.root = u.root
      /\ b.fat = FlushFat(t)
  BY <1>1, <1>2, <1>3, FlushTableIs
<1>5. View(b.fat) = View(t) /\ b.fat.fails = {} /\ ~b.fat.ioerr /\ ~b.fat.cf
  BY <1>2, <1>3, <1>4, FlushFatIs
<1>6. /\ \A n \in SlotNumbers : SlotRight(k, b.slots[n])
      /\ \A h \in Handles : HandleRight(k, b.hs[h])
      /\ \A h \in Handles : Alike(v.hs[h], b.hs[h])
  <2>1. /\ \A n \in SlotNumbers : SlotRight(k, u.slots[n])
        /\ \A h \in Handles : HandleRight(k, u.hs[h])
        /\ \A h \in Handles : Alike(x.hs[h], u.hs[h])
    BY <1>2, ForgottenRight
  <2> QED BY <1>4, <2>1
<1>7. b.root = x.root
  BY <1>2, <1>4 DEF Forgotten
<1>8. k \in Layouts
  BY FineHas, GoneIs
<1> QED BY <1>2, <1>3, <1>4, <1>5, <1>6, <1>7, <1>8 DEF Ready

(* A file that no handle has is as its entry says. *)
LEMMA IdleEntry ==
  ASSUME NEW v, NEW l, Fine(v, l), NEW f \in Files, \A h \in Handles : v.hs[h].file # f
  PROVE  EntryAgrees(l, f, v.root[f])
BY DEF Fine, Laid, Unsaved

LEMMA CreateRests ==
  ASSUME Sitting, NEW l, Well(Here, l), ~fat.cf, NEW f \in Files, NEW h \in Handles,
         {} \in FailSets, Create(f, h, {})
  PROVE  Calm
<1>1. PICK v : v = Start({})
  OBVIOUS
<1>2. Fine(v, l) /\ v.hs = hs /\ v.root = root /\ v \in Vols
  BY <1>1, StartFine
<1>3. hs[h].file = NONE /\ \A g \in Handles : hs[g].file # f
  BY DEF Create, OpenOn
<1>4. EntryAgrees(l, f, root[f])
  BY <1>2, <1>3, IdleEntry
<1>5. PICK a : a = IF root[f] = NONE THEN v ELSE FlushTable(Free(v, root[f].first))
  OBVIOUS
<1>6. PICK k \in Layouts :
         /\ Ready(v, a, k) /\ a.root = root /\ (root[f] # NONE => ~a.fat.cf)
         /\ k.first[f] = FREE /\ k.size[f] = 0
         /\ \A g \in Files : g # f => k.first[g] = l.first[g] /\ k.size[g] = l.size[g]
         /\ \A g \in Files : Backed(k, g)
  <2>1. CASE root[f] = NONE
    <3>1. a = v
      BY <1>5, <2>1
    <3>2. l.first[f] = FREE /\ l.size[f] = 0
      BY <1>4, <2>1 DEF EntryAgrees
    <3>3. Extends(l, l) /\ \A g \in Handles : Alike(v.hs[g], v.hs[g])
      BY DEF Extends, Alike
    <3>4. /\ \A n \in SlotNumbers : SlotRight(l, v.slots[n])
          /\ \A g \in Handles : HandleRight(l, v.hs[g])
      BY <1>2, <3>3, ExtendsRight
    <3>5. Ready(v, a, l) /\ l \in Layouts
      BY <1>2, <3>1, <3>3, <3>4, FineHas DEF Ready
    <3>6. \A g \in Files : Backed(l, g)
      BY <1>2 DEF Fine, Laid
    <3> QED BY <1>2, <2>1, <3>1, <3>2, <3>5, <3>6
  <2>2. CASE root[f] # NONE
    <3>1. root[f].first = l.first[f]
      BY <1>4, <2>2 DEF EntryAgrees
    <3>2. PICK k : k = Resized(Emptied(l, f), f, 0)
      OBVIOUS
    <3>3. Ready(v, a, k) /\ ~a.fat.cf /\ a.root = v.root /\ k \in Layouts
      BY <1>2, <1>5, <2>2, <3>1, <3>2, FreedReady
    <3>4. /\ \A g \in Files : k.first[g] = IF g = f THEN FREE ELSE l.first[g]
          /\ \A g \in Files : k.size[g] = IF g = f THEN 0 ELSE l.size[g]
          /\ \A g \in Files : Backed(l, g) => Backed(k, g)
      BY <1>2, <3>2, FineHas, GoneIs
    <3>5. \A g \in Files : Backed(k, g)
      BY <1>2, <3>4 DEF Fine, Laid
    <3> QED BY <1>2, <3>3, <3>4, <3>5
  <2> QED BY <2>1, <2>2
<1>7. ~a.fat.cf
  <2>1. ~v.fat.cf
    BY <1>1, StartClear
  <2> QED BY <1>5, <1>6, <2>1
<1>8. PICK r : r = PutEntry(a, f, BareEntry)
  OBVIOUS
<1>9. a \in Vols /\ OnlyRoot(a, r, f, BareEntry)
  BY <1>6, <1>8, PutEntryIs, BareEntryIs DEF Ready
<1>10. PICK b : b = FlushDir(r)
  OBVIOUS
<1>11. /\ b \in Vols /\ b.slots = a.slots /\ b.hs = a.hs /\ b.root = r.root
       /\ b.fat = Io(a.fat)
  BY <1>9, <1>10, FlushDirIs DEF OnlyRoot
<1>12. View(b.fat) = View(a.fat) /\ b.fat.fails = {} /\ ~b.fat.ioerr /\ ~b.fat.cf
  BY <1>6, <1>9, <1>11, VolHas, IoIs DEF Ready
<1>13. Fine(b, k)
  <2>1. /\ Linked(View(b.fat), k) /\ \A n \in SlotNumbers : SlotRight(k, b.slots[n])
    BY <1>6, <1>11, <1>12 DEF Ready
  <2>2. \A g \in Handles : HandleRight(k, b.hs[g]) /\ Alike(v.hs[g], b.hs[g])
    BY <1>6, <1>11 DEF Ready
  <2>3. \A g \in Files : g # f =>
            b.root[g] = v.root[g] /\ k.first[g] = l.first[g] /\ k.size[g] = l.size[g]
    BY <1>2, <1>6, <1>9, <1>11 DEF OnlyRoot
  <2>4. EntryAgrees(k, f, b.root[f])
    <3>1. b.root[f] = BareEntry
      BY <1>9, <1>11 DEF OnlyRoot
    <3> QED BY <1>6, <3>1 DEF EntryAgrees, BareEntry
  <2>5. \A g \in Handles : v.hs[g].file # f
    BY <1>2, <1>3
  <2> QED BY <1>2, <1>6, <1>11, <1>12, <2>1, <2>2, <2>3, <2>4, <2>5, IdleFine
<1>14. PICK p \in KnownHandle : p = NewFile(f) /\ p.file = f /\ p.first = FREE /\ p.size = 0
                                /\ ~p.dirty /\ p.lastCluster = FREE
  BY NewFileIs
<1>15. PICK u : u = PutHandle(b, h, p)
  OBVIOUS
<1>16. Fine(u, k)
  <2>1. \A g \in Handles : b.hs[g].file = hs[g].file
    BY <1>2, <1>6, <1>11 DEF Ready, Alike
  <2>2. b.hs[h].file = NONE /\ \A g \in Handles : b.hs[g].file = f => ~p.write /\ ~b.hs[g].write
    BY <1>3, <2>1
  <2>3. b.root[f] # NONE
    <3>1. b.root[f] = BareEntry
      BY <1>9, <1>11 DEF OnlyRoot
    <3>2. BareEntry \in [first : Entry, size : 0 .. MaxSize]
      BY BareEntryIs, KnownAre DEF KnownEntry, Sizes
    <3> QED BY <3>1, <3>2, VolumeAssumption
  <2> QED BY <1>6, <1>13, <1>14, <1>15, <2>2, <2>3, OpenFine
<1>17. Finish(u, "ok")
  BY <1>1, <1>5, <1>7, <1>8, <1>10, <1>12, <1>14, <1>15
     DEF Create, PutEntry, BareEntry, PutHandle, NewFile
<1> QED BY <1>16, <1>17, FineIsWell, FinishFine

LEMMA DeleteRests ==
  ASSUME Sitting, NEW l, Well(Here, l), NEW f \in Files, {} \in FailSets, Delete(f, {})
  PROVE  Calm
<1>1. PICK v : v = Start({})
  OBVIOUS
<1>2. Fine(v, l) /\ v.hs = hs /\ v.root = root /\ v \in Vols
  BY <1>1, StartFine
<1>3. root[f] # NONE /\ \A h \in Handles : v.hs[h].file # f
  BY <1>2 DEF Delete, OpenOn
<1>4. root[f].first = l.first[f]
  BY <1>2, <1>3, IdleEntry DEF EntryAgrees
<1>5. PICK r : r = PutEntry(v, f, NONE)
  OBVIOUS
<1>6. OnlyRoot(v, r, f, NONE)
  BY <1>2, <1>5, PutEntryIs
<1>7. PICK a : a = FlushDir(r)
  OBVIOUS
<1>8. a \in Vols /\ a.hs = v.hs /\ a.root = r.root /\ a.slots = v.slots /\ a.fat = Io(v.fat)
  BY <1>6, <1>7, FlushDirIs DEF OnlyRoot
<1>9. /\ a.fat \in Tables /\ View(a.fat) = View(v.fat) /\ a.fat.ioerr = v.fat.ioerr
      /\ a.fat.fails = v.fat.fails /\ ~a.fat.cf
  BY <1>2, <1>8, FineHas, VolHas, IoIs
<1>10. PICK z : z = WithFat(v, a.fat)
  OBVIOUS
<1>11. Fine(z, l) /\ z.fat = a.fat /\ z.hs = v.hs
  <2>1. OnlyTable(v, z) /\ z.fat = a.fat
    BY <1>2, <1>9, <1>10, TableAlone
  <2> QED BY <1>2, <1>9, <2>1, SteadyFine DEF SameView, OnlyTable
<1>12. PICK b : b = FlushTable(Free(a, root[f].first))
  OBVIOUS
<1>13. PICK k : k = Resized(Emptied(l, f), f, 0)
  OBVIOUS
<1>14. Ready(z, b, k) /\ ~b.fat.cf /\ b.root = r.root /\ k \in Layouts
  BY <1>4, <1>8, <1>11, <1>12, <1>13, FreedReady
<1>15. Finish(b, "ok")
  BY <1>1, <1>5, <1>7, <1>9, <1>12, <1>14 DEF Delete, PutEntry
<1>16. /\ \A g \in Files : k.first[g] = IF g = f THEN FREE ELSE l.first[g]
       /\ \A g \in Files : k.size[g] = IF g = f THEN 0 ELSE l.size[g]
       /\ \A g \in Files : Backed(l, g) => Backed(k, g)
  BY <1>2, <1>13, FineHas, GoneIs
<1>17. \A g \in Files : Backed(k, g)
  BY <1>2, <1>16 DEF Fine, Laid
<1>18. EntryAgrees(k, f, b.root[f])
  BY <1>6, <1>14, <1>16 DEF EntryAgrees, OnlyRoot
<1>19. \A g \in Files : g # f =>
           b.root[g] = v.root[g] /\ k.first[g] = l.first[g] /\ k.size[g] = l.size[g]
  BY <1>6, <1>14, <1>16 DEF OnlyRoot
<1>20. /\ b \in Vols /\ b.fat.fails = {} /\ ~b.fat.ioerr /\ Linked(View(b.fat), k)
       /\ \A n \in SlotNumbers : SlotRight(k, b.slots[n])
       /\ \A h \in Handles : HandleRight(k, b.hs[h]) /\ Alike(v.hs[h], b.hs[h])
  BY <1>11, <1>14 DEF Ready
<1>21. Fine(b, k)
  BY <1>2, <1>3, <1>14, <1>17, <1>18, <1>19, <1>20, IdleFine
<1> QED BY <1>15, <1>21, FineIsWell, FinishFine

-----------------------------------------------------------------------------
(* The invariant when no transfer fails                                    *)

LEMMA RestingAtFirst == Init => Resting
<1> SUFFICES ASSUME Init PROVE Resting
  OBVIOUS
<1>1. Sitting
  BY SittingAtFirst
<1>2. /\ fat = EmptyTable /\ slots = [s \in 0 .. ChainSlots - 1 |-> EmptySlot]
      /\ hs = [h \in Handles |-> Closed] /\ root = [f \in Files |-> NONE]
  BY DEF Init
<1>3. /\ Here \in Vols /\ Here.fat = fat /\ Here.slots = slots /\ Here.hs = hs /\ Here.root = root
      /\ ~Here.fat.ioerr
  BY <1>1, <1>2, HereIs, EmptyTableIs DEF Sitting
<1>4. PICK l : l = Clustering([c \in Clusters |-> NONE], [c \in Clusters |-> 0],
                              [f \in Files |-> FREE], [f \in Files |-> 0])
  OBVIOUS
<1>5. /\ l \in Layouts /\ l.own = [c \in Clusters |-> NONE] /\ l.pos = [c \in Clusters |-> 0]
      /\ l.first = [f \in Files |-> FREE] /\ l.size = [f \in Files |-> 0]
  <2>1. 0 \in Sizes
    BY Constants DEF Sizes
  <2>2. /\ [c \in Clusters |-> NONE] \in [Clusters -> Owners]
        /\ [c \in Clusters |-> 0] \in [Clusters -> Nat]
        /\ [f \in Files |-> FREE] \in [Files -> Known]
        /\ [f \in Files |-> 0] \in [Files -> Sizes]
    BY <2>1, KnownAre DEF Owners
  <2> QED BY <1>4, <2>2, LayoutIs
<1>6. Linked(View(fat), l)
  <2>1. \A c \in Clusters : View(fat)[c] = FREE /\ l.own[c] = NONE
    BY <1>2, <1>5, EmptyTableIs
  <2>2. \A f \in Files : l.first[f] \notin Clusters
    BY <1>5, ClustersAre
  <2> QED BY <2>1, <2>2, ClustersAre DEF Linked
<1>7. \A n \in SlotNumbers : SlotRight(l, slots[n])
  BY <1>2, ClustersAre DEF SlotNumbers, SlotRight, EmptySlot
<1>8. \A h \in Handles : HandleAgrees(l, root, hs[h])
  BY <1>2 DEF HandleAgrees, Closed
<1>9. Exclusive(hs)
  BY <1>2 DEF Exclusive, Closed
<1>10. \A f \in Files : EntryAgrees(l, f, root[f]) /\ Backed(l, f)
  BY <1>2, <1>5 DEF EntryAgrees, Backed
<1>11. Well(Here, l)
  BY <1>3, <1>5, <1>6, <1>7, <1>8, <1>9, <1>10 DEF Well, Laid
<1>12. ~fat.cf
  BY <1>2 DEF EmptyTable
<1> QED BY <1>11, <1>12 DEF Resting

LEMMA CallRests ==
  ASSUME Faults = {}, Sitting, Resting, Next
  PROVE  Calm
<1>1. PICK l : Well(Here, l)
  BY DEF Resting
<1>2. ~fat.cf /\ {} \in FailSets /\ \A F \in FailSets : F = {}
  BY NoFaults DEF Resting, FailSets
<1>3. ASSUME NEW f \in Files, NEW h \in Handles, NEW F \in FailSets, Create(f, h, F) PROVE Calm
  <2>1. Create(f, h, {})
    BY <1>2, <1>3
  <2> QED BY <1>1, <1>2, <2>1, CreateRests
<1>4. ASSUME NEW f \in Files, NEW h \in Handles, NEW write \in BOOLEAN, Open(f, h, write)
      PROVE  Calm
  BY <1>1, <1>4, OpenRests
<1>5. ASSUME NEW f \in Files, NEW F \in FailSets, Delete(f, F) PROVE Calm
  <2>1. Delete(f, {})
    BY <1>2, <1>5
  <2> QED BY <1>1, <1>2, <2>1, DeleteRests
<1>6. ASSUME NEW h \in Handles, NEW p \in Sizes, Seek(h, p) PROVE Calm
  BY <1>1, <1>6, SeekRests
<1>7. ASSUME NEW h \in Handles, NEW n \in Sizes \ {0}, NEW F \in FailSets, Write(h, n, F)
      PROVE  Calm
  <2>1. Write(h, n, {}) /\ n \in Nat
    BY <1>2, <1>7, KnownAre
  <2> QED BY <1>1, <1>2, <2>1, WriteRests
<1>8. ASSUME NEW h \in Handles, NEW F \in FailSets, Read(h, F) PROVE Calm
  <2>1. Read(h, {})
    BY <1>2, <1>8
  <2> QED BY <1>1, <1>2, <2>1, ReadRests
<1>9. ASSUME NEW h \in Handles, NEW F \in FailSets, SetSize(h, F) PROVE Calm
  <2>1. SetSize(h, {})
    BY <1>2, <1>9
  <2> QED BY <1>1, <1>2, <2>1, SetSizeRests
<1>10. ASSUME NEW h \in Handles, NEW F \in FailSets, Commit(h, F) PROVE Calm
  <2>1. Commit(h, {})
    BY <1>2, <1>10
  <2> QED BY <1>1, <2>1, CommitRests
<1>11. ASSUME NEW h \in Handles, NEW F \in FailSets, Close(h, F) PROVE Calm
  <2>1. Close(h, {})
    BY <1>2, <1>11
  <2> QED BY <1>1, <1>2, <2>1, CloseRests
<1> QED BY <1>3, <1>4, <1>5, <1>6, <1>7, <1>8, <1>9, <1>10, <1>11 DEF Next

(* When no transfer fails, the clusters in use are always laid out: each   *)
(* belongs to one file and has one place in its chain, and every handle,   *)
(* entry and cached position agrees with that.                             *)
THEOREM Rests ==
  ASSUME Faults = {}
  PROVE  Spec => []Resting
<1>1. Sitting /\ Resting /\ [Next]_vars => Resting'
  <2> SUFFICES ASSUME Sitting, Resting, [Next]_vars PROVE Resting'
    OBVIOUS
  <2>1. CASE Next
    BY <2>1, CallRests DEF Calm
  <2>2. CASE UNCHANGED vars
    BY <2>2 DEF vars, Resting, Here
  <2> QED BY <2>1, <2>2
<1> QED BY <1>1, RestingAtFirst, Sits, PTL DEF Spec

(* A file, as the properties name it, is as the layout has it. *)
LEMMA NowIs ==
  ASSUME Sitting, NEW l, Well(Here, l), NEW f \in Files
  PROVE  /\ Now(f).first = l.first[f] /\ Now(f).size = l.size[f]
         /\ ChainOf(f) = ClustersOf(l, f)
<1>1. PICK v : v = Start({})
  OBVIOUS
<1>2. Fine(v, l) /\ v.hs = hs /\ v.root = root
  BY <1>1, StartFine
<1>3. Now(f).first = l.first[f] /\ Now(f).size = l.size[f]
  <2>1. CASE Writers(f) # {}
    <3>1. PICK h : h = CHOOSE g \in Writers(f) : TRUE
      OBVIOUS
    <3>2. h \in Handles /\ hs[h].file = f
      BY <2>1, <3>1 DEF Writers, OpenOn
    <3>3. hs[h].first = l.first[f] /\ hs[h].size = l.size[f]
      BY <1>2, <3>2, Constants, OpenHandle
    <3>4. Now(f) = [first |-> hs[h].first, size |-> hs[h].size]
      BY <2>1, <3>1 DEF Now
    <3> QED BY <3>3, <3>4
  <2>2. CASE Writers(f) = {}
    <3>1. ~Unsaved(v.hs, f)
      <4>1. ASSUME NEW g \in Handles, v.hs[g].file = f PROVE ~v.hs[g].dirty
        <5>1. v.hs[g].file # NONE /\ ~v.hs[g].write
          BY <1>2, <2>2, <4>1, Constants DEF Writers, OpenOn
        <5> QED BY <1>2, <5>1, OpenHandle
      <4> QED BY <4>1 DEF Unsaved
    <3>2. EntryAgrees(l, f, root[f])
      BY <1>2, <3>1 DEF Fine, Laid
    <3>3. Now(f) = IF root[f] = NONE THEN [first |-> FREE, size |-> 0] ELSE root[f]
      BY <2>2 DEF Now
    <3> QED BY <3>2, <3>3 DEF EntryAgrees
  <2> QED BY <2>1, <2>2
<1>4. fat \in Tables /\ Linked(View(fat), l) /\ l \in Layouts
  BY HereIs DEF Well, Laid
<1>5. ChainOf(f) = Chain(fat, l.first[f])
  BY <1>3 DEF ChainOf
<1> QED BY <1>3, <1>4, <1>5, ChainIs

LEMMA RestingSeparate == ASSUME Sitting, Resting PROVE NoCrossLinks
<1>1. PICK l : Well(Here, l)
  BY DEF Resting
<1>2. \A f \in Files : ChainOf(f) = ClustersOf(l, f) /\ f # NONE
  BY <1>1, NowIs, Constants
<1>3. /\ Linked(View(fat), l) /\ l \in Layouts /\ Entire(View(fat))
  BY <1>1, HereIs, ViewTypes DEF Well, Laid, Entire, Sitting
<1>4. \A f, g \in Files : f # g => ChainOf(f) \cap ChainOf(g) = {}
  BY <1>2 DEF ClustersOf
<1>5. ASSUME NEW f \in Files, NEW c \in ChainOf(f)
      PROVE  /\ View(fat)[c] # FREE
             /\ \A d \in ChainOf(f) : c # d => View(fat)[c] # View(fat)[d]
  <2>1. c \in Clusters /\ l.own[c] = f /\ l.own[c] # NONE
    BY <1>2, <1>5 DEF ClustersOf
  <2>2. View(fat)[c] # FREE
    BY <1>3, <2>1 DEF Linked
  <2>3. ASSUME NEW d \in ChainOf(f), View(fat)[c] = View(fat)[d] PROVE c = d
    <3>1. d \in Clusters /\ l.own[d] = f /\ l.own[d] # NONE
      BY <1>2, <2>3 DEF ClustersOf
    <3>2. l.pos[c] \in Nat /\ l.pos[d] \in Nat
      BY <1>3, <2>1, <3>1, LayoutHas
    <3>3. l.pos[c] = l.pos[d]
      <4>1. CASE View(fat)[c] \in Clusters
        BY <1>3, <2>1, <2>3, <3>1, <3>2, <4>1 DEF Linked
      <4>2. CASE View(fat)[c] \notin Clusters
        <5>1. l.pos[d] <= l.pos[c]
          BY <1>3, <2>1, <3>1, <4>2, LastOne
        <5>2. l.pos[c] <= l.pos[d]
          BY <1>3, <2>1, <2>3, <3>1, <4>2, LastOne
        <5> QED BY <3>2, <5>1, <5>2
      <4> QED BY <4>1, <4>2
    <3> QED BY <1>3, <2>1, <3>1, <3>3 DEF Linked
  <2> QED BY <2>2, <2>3
<1> QED BY <1>4, <1>5 DEF NoCrossLinks

(* No cluster is in two files, no chain meets itself, and none runs into a *)
(* free cluster, when no transfer fails (fat_alloc, free_chain and what    *)
(* calls them).                                                            *)
THEOREM ChainsAreSeparate ==
  ASSUME Faults = {}
  PROVE  Spec => []NoCrossLinks
<1> QED BY Sits, Rests, RestingSeparate, PTL

LEMMA RestingOwned == ASSUME Sitting, Resting PROVE NothingLost
<1>1. PICK l : Well(Here, l)
  BY DEF Resting
<1>2. /\ Linked(View(fat), l) /\ l \in Layouts
  BY <1>1, HereIs DEF Well, Laid
<1> SUFFICES ASSUME NEW c \in Clusters, View(fat)[c] # FREE PROVE \E f \in Files : c \in ChainOf(f)
  BY DEF NothingLost
<1>3. PICK f \in Files : f = l.own[c]
  BY <1>2, LayoutHas DEF Linked
<1>4. c \in ClustersOf(l, f)
  BY <1>3 DEF ClustersOf
<1> QED BY <1>1, <1>4, NowIs

(* Every cluster in use belongs to a file, when no transfer fails: a       *)
(* truncation, a deletion or a re-creation gives back all of a chain.      *)
THEOREM NoClusterIsLost ==
  ASSUME Faults = {}
  PROVE  Spec => []NothingLost
<1> QED BY Sits, Rests, RestingOwned, PTL

(* Clusters up to the one that holds a file's last unit hold all of it. *)
LEMMA EnoughUnits ==
  ASSUME NEW n \in Nat, n > 0, NEW k \in Nat, (n - 1) \div ClusterUnits + 1 <= k
  PROVE  k * ClusterUnits >= n
<1>1. PICK m \in Nat : m = ClusterUnits /\ m > 0
  BY Constants
<1>2. PICK x \in Nat : x = n - 1
  OBVIOUS
<1>3. PICK q \in Nat, r \in 0 .. m - 1 : q = x \div m /\ x = m * q + r
  <2>1. x \div m \in Nat /\ x % m \in 0 .. m - 1 /\ x = m * (x \div m) + (x % m)
    BY <1>1
  <2> QED BY <2>1
<1>4. PICK z \in Nat : k = q + 1 + z
  <2>1. q + 1 <= k
    BY <1>1, <1>2, <1>3
  <2>2. k - q - 1 \in Nat /\ k = q + 1 + (k - q - 1)
    BY <2>1
  <2> QED BY <2>2
<1>5. k * m = m * q + m + m * z /\ m * z >= 0
  BY <1>4
<1>6. m * q \in Nat /\ m * z \in Nat
  OBVIOUS
<1>7. k * m >= n
  BY <1>2, <1>3, <1>5, <1>6
<1> QED BY <1>1, <1>7

LEMMA RestingCovers == ASSUME Sitting, Resting PROVE ChainsCoverSizes
<1>1. PICK l : Well(Here, l)
  BY DEF Resting
<1>2. Linked(View(fat), l) /\ l \in Layouts
  BY <1>1, HereIs DEF Well, Laid
<1> SUFFICES ASSUME NEW f \in Files PROVE Covers(f)
  BY DEF ChainsCoverSizes
<1>3. Now(f).size = l.size[f] /\ ChainOf(f) = ClustersOf(l, f)
  BY <1>1, NowIs
<1>4. PICK n \in Nat : n = l.size[f]
  BY <1>2, LayoutHas, KnownAre
<1>5. PICK k \in Nat : k = Cardinality(ClustersOf(l, f))
  <2>1. ClustersOf(l, f) \subseteq Clusters
    BY DEF ClustersOf
  <2> QED BY <2>1, ClustersFinite, FS_Subset, FS_CardinalityType
<1>6. k * ClusterUnits >= n
  <2>1. CASE n = 0
    <3>1. k * ClusterUnits \in Nat
      BY Constants
    <3> QED BY <2>1, <3>1
  <2>2. CASE n # 0
    <3>1. PICK c \in Clusters : l.own[c] = f /\ l.pos[c] = (n - 1) \div ClusterUnits
      BY <1>1, <1>4, <2>2 DEF Well, Laid, Backed
    <3>2. l.pos[c] + 1 <= k
      BY <1>2, <1>5, <3>1, Constants, PosBound
    <3> QED BY <2>2, <3>1, <3>2, EnoughUnits
  <2> QED BY <2>1, <2>2
<1> QED BY <1>3, <1>4, <1>5, <1>6 DEF Covers

(* Each file has the clusters that its size needs, when no transfer fails, *)
(* those a write past the end or a growing size puts in the gap included.  *)
THEOREM SizesAreBacked ==
  ASSUME Faults = {}
  PROVE  Spec => []ChainsCoverSizes
<1> QED BY Sits, Rests, RestingCovers, PTL

LEMMA PositionedAt ==
  ASSUME NEW t \in Tables, NEW l \in Layouts, Linked(View(t), l), NEW first, NEW i, NEW c,
         Positioned(l, first, i, c)
  PROVE  ChainAt(t, first, i) = c
BY ChainHas DEF Positioned

LEMMA RestingPositions == ASSUME Sitting, Resting PROVE PositionsRight
<1>1. PICK l : Well(Here, l)
  BY DEF Resting
<1>2. fat \in Tables /\ Linked(View(fat), l) /\ l \in Layouts
  BY <1>1, HereIs DEF Well, Laid
<1>3. slots \in Slots /\ hs \in OpenHandles
  BY HereIs DEF Sitting
<1>4. ASSUME NEW s \in DOMAIN slots, slots[s].cluster # FREE
      PROVE  ChainAt(fat, slots[s].first, slots[s].index) = slots[s].cluster
  <2>1. s \in SlotNumbers /\ slots[s] \in KnownSlot
    BY <1>3, <1>4 DEF Slots
  <2>2. slots[s].cluster \in Clusters
    BY <1>4, <2>1, KnownAre DEF KnownSlot
  <2>3. Positioned(l, slots[s].first, slots[s].index, slots[s].cluster)
    BY <1>1, <2>1, <2>2, HereIs DEF Well, Laid, SlotRight
  <2> QED BY <1>2, <2>3, PositionedAt
<1>5. ASSUME NEW h \in Handles, hs[h].lastCluster # FREE
      PROVE  ChainAt(fat, hs[h].first, hs[h].lastIndex) = hs[h].lastCluster
  <2>1. hs[h] \in KnownHandle
    BY <1>3 DEF OpenHandles
  <2>2. hs[h].lastCluster \in Clusters
    BY <1>5, <2>1, HandleHas, KnownAre
  <2>3. HandleAgrees(l, root, hs[h])
    BY <1>1, HereIs DEF Well, Laid
  <2>4. Positioned(l, hs[h].first, hs[h].lastIndex, hs[h].lastCluster)
    BY <1>5, <2>2, <2>3 DEF HandleAgrees, HandleRight
  <2> QED BY <1>2, <2>4, PositionedAt
<1> QED BY <1>4, <1>5 DEF PositionsRight

(* Whatever the chain-position cache still says of a file is where its     *)
(* chain is, when no transfer fails: everything that frees forgets it.     *)
THEOREM PositionsStayRight ==
  ASSUME Faults = {}
  PROVE  Spec => []PositionsRight
<1> QED BY Sits, Rests, RestingPositions, PTL

(* When no transfer fails, a call that does not succeed in full has found  *)
(* every cluster in use (fat_alloc wraps round to those before the hint).  *)
THEOREM NoRoomMeansFull ==
  ASSUME Faults = {}
  PROVE  Spec => ShortOnlyWhenFull
<1>1. Sitting /\ Resting
      => ([Next]_vars => [answer' # "ok" => \A c \in Clusters : View(fat')[c] # FREE]_vars)
  BY CallRests DEF Calm
<1> QED BY <1>1, Sits, Rests, PTL DEF Spec, ShortOnlyWhenFull
=============================================================================
