----------------------------- MODULE FatVolume ------------------------------
(***************************************************************************)
(* Files on a FAT volume: create, open, read, write, set the size, seek,   *)
(* commit, close and delete (src/src/kernel/int21.inc), over the table of  *)
(* FatTable, the chain-position cache and the root directory's buffer.     *)
(*                                                                         *)
(* Positions and sizes count units; a cluster holds ClusterUnits of them.  *)
(* What the data sectors hold is not modelled, only that a transfer of     *)
(* them may fail.  A handle here is a root slot of HandleTable.            *)
(***************************************************************************)
EXTENDS FatTable, FiniteSetsExt

CONSTANTS
    Files,           \* names in the root directory, whose entries share a sector
    Handles,         \* slots of the handle table
    NONE,            \* no file
    ClusterUnits,    \* units in a cluster
    ChainSlots,      \* entries of the shared chain-position cache (4)
    MaxSize,         \* bound: the largest size and position, in units
    Faults           \* bound: numbers of the transfers of a call that may fail

ASSUME VolumeAssumption ==
    /\ ClusterUnits \in Nat \ {0} /\ ChainSlots \in Nat \ {0} /\ MaxSize \in Nat
    /\ NONE \notin Files \cup [first : Entry, size : 0 .. MaxSize]
    /\ Faults \subseteq Nat \ {0}

VARIABLES
    fat,       \* the table
    slots,     \* the shared cache: cluster of the file at first, at index
    hs,        \* handles, each with its own last position
    root,      \* the directory buffer
    disk,      \* the directory on the disk
    answer     \* what the last call answered

vars == <<fat, slots, hs, root, disk, answer>>

Sizes == 0 .. MaxSize
Slot == [first : Entry, index : Nat, cluster : Entry]
EmptySlot == [first |-> FREE, index |-> 0, cluster |-> FREE]
Handle == [file : Files \cup {NONE}, write : BOOLEAN, first : Entry, size : Sizes, pos : Sizes,
           dirty : BOOLEAN, lastIndex : Nat, lastCluster : Entry]
Closed == [file |-> NONE, write |-> FALSE, first |-> FREE, size |-> 0, pos |-> 0,
           dirty |-> FALSE, lastIndex |-> 0, lastCluster |-> FREE]
DirEntry == [first : Entry, size : Sizes]

Init ==
    /\ fat = EmptyTable
    /\ slots = [s \in 0 .. ChainSlots - 1 |-> EmptySlot]
    /\ hs = [h \in Handles |-> Closed]
    /\ root = [f \in Files |-> NONE]
    /\ disk = root
    /\ answer = "ok"

-----------------------------------------------------------------------------
(* A call runs on a copy v of the volume and installs what it ends with.   *)
(* At most one of its transfers fails.                                     *)

Start(fails) == [fat |-> Begin(fat, fails), slots |-> slots, hs |-> hs, root |-> root, disk |-> disk]

Finish(v, a) ==
    /\ fat' = End(v.fat)
    /\ slots' = v.slots
    /\ hs' = v.hs
    /\ root' = v.root
    /\ disk' = v.disk
    /\ answer' = a

FailSets == {{}} \cup {{n} : n \in Faults}

(* The directory sector is written from the buffer. *)
FlushDir(v) ==
    LET Wrote(t) == [v EXCEPT !.fat = t, !.disk = IF t.cf THEN @ ELSE v.root]
    IN  Wrote(Io(v.fat))

FlushTableLater(v) == [v EXCEPT !.fat.cf = FALSE]  \* mutant: the table stays in memory
FlushTable(v) == [v EXCEPT !.fat = FlushFat(@)]

-----------------------------------------------------------------------------
(* The chain-position cache *)

CacheStore(v, h, i, c) ==
    [v EXCEPT !.hs[h].lastIndex = i, !.hs[h].lastCluster = c,
              !.slots[i % ChainSlots] =
                  IF v.hs[h].first \in Clusters
                  THEN [first |-> v.hs[h].first, index |-> i, cluster |-> c] ELSE @]

InvalidateSlots(v) ==  \* mutant: the handles keep their last positions
    [v EXCEPT !.slots = [s \in DOMAIN v.slots |-> EmptySlot]]

InvalidateAll(v) ==
    [v EXCEPT !.slots = [s \in DOMAIN v.slots |-> EmptySlot],
              !.hs = [h \in Handles |-> [v.hs[h] EXCEPT !.lastIndex = 0, !.lastCluster = FREE]]]

(* Where a walk to index i of h's chain starts: the nearest known position *)
(* at or before it, h's own last one before a shared one.                  *)
CacheLookup(v, h, i) ==
    LET own == [index |-> v.hs[h].lastIndex, cluster |-> v.hs[h].lastCluster]
        shared == {[index |-> s.index, cluster |-> s.cluster] :
                      s \in {v.slots[n] : n \in {m \in DOMAIN v.slots :
                                v.slots[m].first = v.hs[h].first}}}
        known == {e \in {own} \cup shared : e.cluster # FREE /\ e.index <= i}
        nearest == {e \in known : \A o \in known : o.index <= e.index}
    IN  IF known = {} THEN [index |-> 0, cluster |-> v.hs[h].first]
        ELSE IF own \in nearest THEN own
        ELSE CHOOSE e \in nearest : TRUE

(* Freeing forgets every position first. *)
Free(v, c) == [InvalidateAll(v) EXCEPT !.fat = FreeChain(@, c)]

-----------------------------------------------------------------------------
(* The steps of a write: w carries the volume, the cluster found, the units*)
(* left and the answer so far, "more" while the call goes on.              *)

Then(w, Op(_)) == IF w.a = "more" THEN Op(w) ELSE w

DataIo(w) ==
    LET Moved(t) == [w EXCEPT !.v.fat = t, !.a = IF t.cf THEN "error" ELSE @]
    IN  Moved(Io(w.v.fat))

FirstCluster(w, h, short) ==
    LET Begun(v, c) == CacheStore([v EXCEPT !.hs[h].first = c, !.hs[h].dirty = TRUE], h, 0, c)
        Took(t) == IF t.cf THEN [w EXCEPT !.v.fat = t, !.a = short]
                   ELSE [w EXCEPT !.v = Begun([@ EXCEPT !.fat = t], t.ax)]
    IN  Took(FatAlloc(w.v.fat))

(* wf_get_cluster: walk to index i, and extend the chain where it ends. *)
GetCluster(w, h, i, short) ==
    LET start == CacheLookup(w.v, h, i)
        Grown(p, t) == IF t.cf THEN [p EXCEPT !.v.fat = t, !.a = short]
                       ELSE [p EXCEPT !.v.fat = FatSet(t, p.c, t.ax), !.c = t.ax]
        Followed(p, t) == IF t.ax \in Clusters THEN [p EXCEPT !.v.fat = t, !.c = t.ax]
                          ELSE IF t.ax = FREE THEN [p EXCEPT !.v.fat = t, !.a = short]
                          ELSE Grown(p, FatAlloc(t))
        at[j \in start.index .. i] ==
            IF j = start.index THEN [w EXCEPT !.c = start.cluster]
            ELSE Then(at[j - 1], LAMBDA p : Followed(p, FatNext(p.v.fat, p.c)))
    IN  Then(at[i], LAMBDA u : [u EXCEPT !.v = CacheStore(@, h, i, u.c)])

(* A write past the end first backs the gap with clusters, up to the one   *)
(* that holds the gap's last unit.                                         *)
GapIndexOfSize(o) == o.size \div ClusterUnits  \* mutant: up to where the file ended
GapIndex(o) == (o.pos - 1) \div ClusterUnits

GapFill(w, h) ==
    LET o == w.v.hs[h]
        a == DataIo(w)
        b == IF o.first = FREE THEN Then(a, LAMBDA u : FirstCluster(u, h, "error")) ELSE a
        c == Then(b, LAMBDA u : GetCluster(u, h, GapIndex(o), "error"))
    IN  Then(c, LAMBDA u : [u EXCEPT !.v.hs[h].size = o.pos, !.v.hs[h].dirty = TRUE])

Store(w, h) ==
    LET o == w.v.hs[h]
        end == o.pos + Min({w.left, ClusterUnits - (o.pos % ClusterUnits)})
    IN  [w EXCEPT !.v.hs[h] = [o EXCEPT !.pos = end, !.size = Max({@, end}),
                                        !.dirty = @ \/ end > o.size],
                  !.left = w.left - (end - o.pos)]

(* One cluster's worth: find or allocate it, then move its sectors. *)
WriteChunk(w, h) ==
    LET i == w.v.hs[h].pos \div ClusterUnits
        a == IF w.v.hs[h].first = FREE
             THEN Then(DataIo(w), LAMBDA u : FirstCluster(u, h, "full")) ELSE w
        known(u) == u.v.hs[h].lastCluster # FREE /\ u.v.hs[h].lastIndex = i
        b == Then(a, LAMBDA u : IF known(u) THEN u ELSE DataIo(u))
        c == Then(b, LAMBDA u : GetCluster(u, h, i, "full"))
    IN  Then(Then(c, DataIo), LAMBDA u : Store(u, h))

-----------------------------------------------------------------------------
(* Calls *)

OpenOn(f) == {h \in Handles : hs[h].file = f}

(* AH=3Ch: an existing file loses its chain, on the disk too, before its   *)
(* entry is rewritten.                                                     *)
Create(f, h, fails) ==
    /\ hs[h].file = NONE
    /\ OpenOn(f) = {}
    /\ LET v == Start(fails)
           a == IF root[f] = NONE THEN v ELSE FlushTable(Free(v, root[f].first))
           b == FlushDir([a EXCEPT !.root[f] = [first |-> FREE, size |-> 0]])
       IN  IF a.fat.cf THEN Finish(a, "error")
           ELSE IF b.fat.cf THEN Finish(b, "error")
           ELSE Finish([b EXCEPT !.hs[h] = [Closed EXCEPT !.file = f, !.write = TRUE]], "ok")

(* AH=3Dh.  Environment: a file that is open for writing is not opened     *)
(* again, nor one that is open for reading opened for writing.             *)
Open(f, h, write) ==
    /\ hs[h].file = NONE
    /\ root[f] # NONE
    /\ \A o \in OpenOn(f) : ~write /\ ~hs[o].write
    /\ LET v == [Start({}) EXCEPT !.hs[h] = [Closed EXCEPT !.file = f, !.write = write,
                                          !.first = root[f].first, !.size = root[f].size]]
       IN  Finish(IF root[f].first \in Clusters THEN CacheStore(v, h, 0, root[f].first) ELSE v, "ok")

(* AH=42h *)
Seek(h, p) ==
    /\ hs[h].file # NONE
    /\ hs[h].pos # p
    /\ Finish([Start({}) EXCEPT !.hs[h].pos = p], "ok")

(* AH=3Fh of one unit: at the end of the file, or of its chain, nothing. *)
Read(h, fails) ==
    /\ hs[h].file # NONE
    /\ hs[h].pos < hs[h].size
    /\ LET v == Start(fails)
           i == hs[h].pos \div ClusterUnits
           start == CacheLookup(v, h, i)
           at[j \in start.index .. i] ==
               IF j = start.index THEN [v.fat EXCEPT !.ax = start.cluster]
               ELSE LET t == at[j - 1] IN IF t.ax \in Clusters THEN FatNext(t, t.ax) ELSE t
           t == at[i]
           u == CacheStore([v EXCEPT !.fat = t], h, i, t.ax)
           d == [u EXCEPT !.fat = Io(@)]
       IN  IF t.ax = EOC THEN Finish([v EXCEPT !.fat = t], "ok")
           ELSE IF t.ax = FREE THEN Finish([v EXCEPT !.fat = t], "error")
           ELSE IF d.fat.cf THEN Finish(d, "error")
           ELSE Finish([d EXCEPT !.hs[h].pos = @ + 1], "ok")

(* AH=40h of n units.  A write that the volume has no room for answers     *)
(* "full": success, with the units written.                                *)
Write(h, n, fails) ==
    /\ hs[h].file # NONE /\ hs[h].write
    /\ hs[h].pos + n <= MaxSize
    /\ LET begin == [v |-> Start(fails), c |-> FREE, left |-> n, a |-> "more"]
           chunk[k \in 0 .. n] ==
               IF k = 0
               THEN IF hs[h].pos > hs[h].size THEN GapFill(begin, h) ELSE begin
               ELSE LET w == chunk[k - 1] IN
                    IF w.a = "more" /\ w.left > 0 THEN WriteChunk(w, h) ELSE w
           end == chunk[n]
       IN  Finish(end.v, IF end.a = "more" THEN "ok" ELSE end.a)

KeepLink(t, c) == t  \* mutant: the last kept cluster keeps its link
Unlink(t, c) == FatSet(t, c, EOC)

(* The clusters past the one that holds the last unit of size are freed.   *)
CutChain(v, h, size) ==
    LET kept == (size - 1) \div ClusterUnits
        walked[k \in 0 .. kept] ==
            IF k = 0 THEN [t |-> v.fat, c |-> v.hs[h].first]
            ELSE LET p == walked[k - 1]
                     t == FatNext(p.t, p.c)
                 IN  IF p.c \notin Clusters THEN p ELSE [t |-> t, c |-> t.ax]
        last == walked[kept].c
        t == FatNext(walked[kept].t, last)
        cut == IF last \notin Clusters THEN [v EXCEPT !.fat = walked[kept].t]
               ELSE IF t.ax \notin Clusters THEN [v EXCEPT !.fat = t]
               ELSE Free([v EXCEPT !.fat = Unlink(t, last)], t.ax)
        u == InvalidateAll(cut)
    IN  IF v.hs[h].first \in Clusters THEN CacheStore(u, h, 0, v.hs[h].first) ELSE u

(* AH=40h of no units: the position becomes the size. *)
SetSize(h, fails) ==
    /\ hs[h].file # NONE /\ hs[h].write
    /\ LET begin == [v |-> Start(fails), c |-> FREE, left |-> 0, a |-> "more"]
           p == hs[h].pos
           gap == IF p > hs[h].size THEN GapFill(begin, h) ELSE begin
           w == Then(gap, DataIo)
           v == [w.v EXCEPT !.hs[h].size = p, !.hs[h].dirty = TRUE]
       IN  IF w.a = "error" THEN Finish(w.v, "error")
           ELSE IF p >= hs[h].size THEN Finish(w.v, "ok")
           ELSE IF p = 0
           THEN Finish(Free([v EXCEPT !.hs[h].first = FREE], hs[h].first), "ok")
           ELSE Finish(CutChain(v, h, p), "ok")

(* wf_flush_handle_dir_entry and flush_fat: what a commit and the close of *)
(* a writable handle do.  fat.cf when they fail.                           *)
Save(v, h) ==
    LET o == v.hs[h]
        d == [v EXCEPT !.fat = Io(@)]
        e == FlushDir([d EXCEPT !.root[o.file] = [first |-> o.first, size |-> o.size]])
        s == IF o.dirty THEN e ELSE d
    IN  IF d.fat.cf THEN d
        ELSE IF s.fat.cf THEN s
        ELSE FlushTable([s EXCEPT !.hs[h].dirty = FALSE])

(* AH=68h *)
Commit(h, fails) ==
    /\ hs[h].file # NONE
    /\ LET v == Save(Start(fails), h) IN Finish(v, IF v.fat.cf THEN "error" ELSE "ok")

(* AH=3Eh of the last handle of the file: after an error it stays open. *)
Close(h, fails) ==
    /\ hs[h].file # NONE
    /\ LET v == IF hs[h].write THEN Save(Start(fails), h) ELSE Start(fails) IN
       IF v.fat.cf THEN Finish(v, "error")
       ELSE Finish([v EXCEPT !.hs[h] = Closed], "ok")

(* AH=41h: the entry goes first, then the chain. *)
Delete(f, fails) ==
    /\ root[f] # NONE
    /\ OpenOn(f) = {}
    /\ LET a == FlushDir([Start(fails) EXCEPT !.root[f] = NONE])
           b == FlushTable(Free(a, root[f].first))
       IN  IF a.fat.cf THEN Finish(a, "error")
           ELSE Finish(b, IF b.fat.cf THEN "error" ELSE "ok")

Next ==
    \/ \E f \in Files, h \in Handles, fails \in FailSets : Create(f, h, fails)
    \/ \E f \in Files, h \in Handles, write \in BOOLEAN : Open(f, h, write)
    \/ \E f \in Files, fails \in FailSets : Delete(f, fails)
    \/ \E h \in Handles, p \in Sizes : Seek(h, p)
    \/ \E h \in Handles, n \in Sizes \ {0}, fails \in FailSets : Write(h, n, fails)
    \/ \E h \in Handles, fails \in FailSets :
          \/ Read(h, fails)
          \/ SetSize(h, fails)
          \/ Commit(h, fails)
          \/ Close(h, fails)

Spec == Init /\ [][Next]_vars

-----------------------------------------------------------------------------
(* Properties *)

(* The file as its writer, or else the directory, has it. *)
Writers(f) == {h \in OpenOn(f) : hs[h].write}
Now(f) ==
    IF Writers(f) # {}
    THEN LET h == CHOOSE h \in Writers(f) : TRUE IN [first |-> hs[h].first, size |-> hs[h].size]
    ELSE IF root[f] = NONE THEN [first |-> FREE, size |-> 0] ELSE root[f]
ChainOf(f) == Chain(fat, Now(f).first)

(* Every part of the volume has its type. *)
TypeOK ==
    /\ fat \in Table
    /\ slots \in [0 .. ChainSlots - 1 -> Slot]
    /\ hs \in [Handles -> Handle]
    /\ root \in [Files -> DirEntry \cup {NONE}]
    /\ disk \in [Files -> DirEntry \cup {NONE}]
    /\ answer \in {"ok", "full", "error"}

(* No cluster is in two files, no chain meets itself, and none runs into a *)
(* free cluster: what create, write, truncate and delete keep.             *)
NoCrossLinks ==
    /\ \A f, g \in Files : f # g => ChainOf(f) \cap ChainOf(g) = {}
    /\ \A f \in Files : \A c \in ChainOf(f) :
          /\ View(fat)[c] # FREE
          /\ \A d \in ChainOf(f) : c # d => View(fat)[c] # View(fat)[d]

(* Every cluster in use belongs to a file: truncation, deletion and        *)
(* re-creation give back all of a chain, and a write loses none.           *)
NothingLost == \A c \in Clusters : View(fat)[c] # FREE => \E f \in Files : c \in ChainOf(f)

(* Each file has the clusters that its size needs. *)
Covers(f) == Cardinality(ChainOf(f)) * ClusterUnits >= Now(f).size
ChainsCoverSizes == \A f \in Files : Covers(f)

(* Whatever the chain-position cache still says of a file is where the     *)
(* file's chain is: the cache is invalidated by everything that frees.     *)
PositionsRight ==
    /\ \A s \in DOMAIN slots :
          slots[s].cluster # FREE => ChainAt(fat, slots[s].first, slots[s].index) = slots[s].cluster
    /\ \A h \in Handles :
          hs[h].lastCluster # FREE => ChainAt(fat, hs[h].first, hs[h].lastIndex) = hs[h].lastCluster

(* A call that does not succeed in full, when no transfer fails, finds     *)
(* every cluster in use: the search wraps round to the clusters before the *)
(* hint.                                                                   *)
ShortOnlyWhenFull == [][answer' # "ok" => \A c \in Clusters : View(fat')[c] # FREE]_vars

(* The copies of the table agree wherever the window holds nothing newer,  *)
(* whichever transfer fails and whenever the window is evicted.            *)
MirrorsAgree ==
    \A c \in Clusters, i \in 1 .. knum_fats :
        fat.copies[i][c] = fat.copies[1][c] \/ (fat.dirty /\ c \in DOMAIN fat.window)

(* A commit, or a close for writing, that answers success has put the      *)
(* handle's size and first cluster, and the whole table, on the disk.      *)
CommitsAreDurable ==
    [][\A h \in Handles :
          /\ answer' = "ok" /\ hs[h].write
          /\ hs'[h] \in {Closed, [hs[h] EXCEPT !.dirty = FALSE]}
          /\ \E fails \in FailSets : Commit(h, fails) \/ Close(h, fails)
          => /\ hs[h].dirty => disk'[hs[h].file] = [first |-> hs[h].first, size |-> hs[h].size]
             /\ \A i \in 1 .. knum_fats : fat'.copies[i] = View(fat)]_vars
=============================================================================
