---------------------------- MODULE Directories -----------------------------
(***************************************************************************)
(* The root directory and subdirectories over the table of FatTable:       *)
(* creating, deleting and renaming files, making and removing directories, *)
(* the current directory, and find first and find next (int21.inc,         *)
(* path_dir.inc, fs.inc).                                                  *)
(*                                                                         *)
(* As in FatVolume a call runs on a copy v of the volume, in which the     *)
(* transfers whose numbers are in fails fail.  When all of them fail from  *)
(* some number on, the machine has been switched off.                      *)
(*                                                                         *)
(* The root is in memory and written sector by sector (here one sector);   *)
(* a subdirectory is read and written on the disk, a cluster being one     *)
(* sector; the cache of subdirectory sectors is in SectorCache, and here   *)
(* every read may fail.  Files are closed, and what FatVolume has of them  *)
(* is left out.                                                            *)
(***************************************************************************)
EXTENDS FatTable, FiniteSetsExt

CONSTANTS
    Names,
    RootSlots,      \* entries of the root directory
    SlotsPerSector, \* entries of a sector, 16
    MaxIo,          \* bound: the transfers of a call
    MaxFaults,      \* bound: the calls in which a transfer fails
    MaxSearchFaults \* bound: those of them before a search or during one

ASSUME DirectoriesAssumption ==
    /\ RootSlots \in Nat \ {0} /\ SlotsPerSector \in Nat \ {0, 1, 2}
    /\ MaxIo \in Nat /\ MaxFaults \in Nat /\ MaxSearchFaults \in Nat
    /\ "." \notin Names /\ ".." \notin Names

VARIABLES
    fat,
    root,              \* ROOT_SEG
    disk,              \* the root directory on the disk
    sub,               \* the clusters on the disk, as directories
    cur_dir_cluster,
    find,              \* the program's DTA of a search
    faults,            \* bound: calls in which a transfer failed
    off,               \* the machine has been switched off
    mistook,           \* history: a call took a sector it could not read for
                       \* the end of a directory, and wrote
    leaked,            \* history: a call that failed left clusters to nobody
    held               \* history: the tree as it is reached from the root

vars == <<fat, root, disk, sub, cur_dir_cluster, find, faults, off, mistook, leaked, held>>

ROOT_CLUSTER == 0

(* An entry; first is a directory's or a file's first cluster.  A cluster  *)
(* that holds no directory has no slots.                                   *)
Entry32(is, n, c) == [is |-> is, name |-> n, first |-> c]
UNUSED == Entry32("unused", ".", FREE)
DELETED == Entry32("deleted", ".", FREE)
Zeroed == [i \in 1 .. SlotsPerSector |-> UNUSED]
Junk == <<>>
DotSlots(c, parent) ==
    [Zeroed EXCEPT ![1] = Entry32("dot", ".", c), ![2] = Entry32("dot", "..", parent)]

Live(s) == s.is \in {"file", "dir", "dot"}

NoSearch == [on |-> FALSE, dir |-> ROOT_CLUSTER, next |-> 0, due |-> {}, given |-> {}, twice |-> FALSE]

Init ==
    /\ fat = EmptyTable
    /\ root = [i \in 1 .. RootSlots |-> UNUSED]
    /\ disk = root
    /\ sub = [c \in Clusters |-> Junk]
    /\ cur_dir_cluster = ROOT_CLUSTER
    /\ find = NoSearch
    /\ faults = 0 /\ off = FALSE /\ mistook = FALSE /\ leaked = FALSE
    /\ held = {}

-----------------------------------------------------------------------------
(* The tree as it is reached from the root: rt are the root's slots, sb    *)
(* the clusters, fv the table's entries.                                   *)

(* The clusters of directory d, each with its number in the chain. *)
Links(fv, d) ==
    LET Next1(q, k) == {<<k, fv[p[2]]>> : p \in {x \in q : x[1] = k - 1 /\ fv[x[2]] \in Clusters}}
        grown[k \in 0 .. Cardinality(Clusters)] ==
            IF k = 0 THEN {<<0, d>>} ELSE LET q == grown[k - 1] IN q \cup Next1(q, k)
    IN  grown[Cardinality(Clusters) - 1]

ChainOf(fv, d) == {p[2] : p \in Links(fv, d)}

(* Directory d's slots, each with its index. *)
SlotsOf(rt, sb, fv, d) ==
    IF d = ROOT_CLUSTER THEN {<<i, rt[i]>> : i \in DOMAIN rt}
    ELSE UNION {{<<p[1] * SlotsPerSector + i, sb[p[2]][i]>> : i \in DOMAIN sb[p[2]]} :
                   p \in Links(fv, d)}

(* The files and directories in the tree: where each stands, and the       *)
(* clusters it has, of a file the first.                                   *)
Holding(fv, d, x) ==
    [dir |-> d, index |-> x[1], is |-> x[2].is, name |-> x[2].name, first |-> x[2].first,
     has |-> IF x[2].is = "dir" THEN ChainOf(fv, x[2].first) ELSE {x[2].first} \ {FREE}]

Holdings(rt, sb, fv) ==
    LET In(d) == {Holding(fv, d, x) : x \in {y \in SlotsOf(rt, sb, fv, d) : y[2].is \in {"file", "dir"}}}
        Below(hs) == UNION {In(h.first) : h \in {x \in hs : x.is = "dir"}}
        known[k \in 0 .. Cardinality(Clusters)] ==
            IF k = 0 THEN In(ROOT_CLUSTER) ELSE LET hs == known[k - 1] IN hs \cup Below(hs)
    IN  known[Cardinality(Clusters)]

DirsIn(hs) == {ROOT_CLUSTER} \cup {h.first : h \in {x \in hs : x.is = "dir"}}
NamesIn(hs, d) == {h.name : h \in {x \in hs : x.dir = d}}

-----------------------------------------------------------------------------
(* Calls *)

Start(fails) ==
    [fat |-> Begin(fat, fails), root |-> root, disk |-> disk, sub |-> sub,
     unread |-> FALSE, leaked |-> leaked]

(* The transfer numbered k fails, or all from it on; none when k is zero. *)
Failing(k, lasting) == {n \in Nat \ {0} : n = k \/ (lasting /\ n > k)}
Lasts(v) == v.fat.ios + 1 \in v.fat.fails

(* What free clusters hold is of no interest. *)
Swept(v) ==
    [c \in Clusters |-> IF View(v.fat)[c] = FREE /\ v.fat.copies[1][c] = FREE THEN Junk ELSE v.sub[c]]

Failed(v) == \E n \in 1 .. v.fat.ios : n \in v.fat.fails

Finish(v) ==
    /\ fat' = End(v.fat)
    /\ root' = v.root
    /\ disk' = v.disk
    /\ sub' = Swept(v)
    /\ held' = Holdings(v.root, v.sub, View(v.fat))
    /\ faults' = IF Failed(v) THEN faults + 1 ELSE faults
    /\ off' = (Failed(v) /\ Lasts(v))
    /\ mistook' = (v.unread /\ ~off' /\ <<v.root, v.sub, View(v.fat)>> # <<root, sub, View(fat)>>)
    /\ leaked' = v.leaked

(* The model stops where the machine has been switched off, and where a    *)
(* call has written upon a mistake.                                        *)
Running == ~off /\ ~mistook

-----------------------------------------------------------------------------
(* Slots.  A place is a cluster, or the root, and an index. *)

Place(c, i) == [c |-> c, i |-> i]
At(v, p) == IF p.c = ROOT_CLUSTER THEN v.root[p.i] ELSE v.sub[p.c][p.i]

ReadSector(v) ==
    LET Read(t) == [v EXCEPT !.fat = t, !.unread = @ \/ t.cf] IN Read(Io(v.fat))

(* load_dir_slot: the root is in memory. *)
Load(v, p) == IF p.c = ROOT_CLUSTER THEN [v EXCEPT !.fat.cf = FALSE] ELSE ReadSector(v)

(* flush_dir_slot with slot p changed to s: the change stays in the root's *)
(* buffer when the write fails.                                            *)
WriteSlot(v, p, s) ==
    LET t == Io(v.fat)
        buffer == [v.root EXCEPT ![p.i] = s]
    IN  IF p.c = ROOT_CLUSTER
        THEN [v EXCEPT !.fat = t, !.root = buffer, !.disk = IF t.cf THEN @ ELSE buffer]
        ELSE [v EXCEPT !.fat = t, !.sub[p.c] = IF t.cf THEN @ ELSE [@ EXCEPT ![p.i] = s]]

(* What a scan stops at: any slot of some kinds, and from some index on a  *)
(* live one with one of some names.                                        *)
Stops(sought, s, k) ==
    s.is \in sought.kinds \/ (k >= sought.from /\ Live(s) /\ s.name \in sought.names)
Kinds(ks) == [kinds |-> ks, names |-> {}, from |-> 0]
Named(ns, k) == [kinds |-> {"unused"}, names |-> ns, from |-> k]

(* find_in_dir, find_dir_free and dir_is_empty: the first slot of d that   *)
(* is sought.  how: "found", "end" of the chain, or "bad".                 *)
Scan(v, d, sought) ==
    LET Hits(slots, base) == {i \in DOMAIN slots : Stops(sought, slots[i], base + i - 1)}
        Found(u, slots) == [u EXCEPT !.how = "found", !.i = Min(Hits(slots, u.base))]
        Followed(u, t) ==
            LET w == [u EXCEPT !.v.fat = t, !.v.unread = @ \/ t.cf]
            IN  IF t.ax \in Clusters THEN [w EXCEPT !.c = t.ax, !.base = @ + SlotsPerSector]
                ELSE [w EXCEPT !.how = IF t.ax = EOC THEN "end" ELSE "bad"]
        Looked(u) ==
            IF u.v.fat.cf THEN [u EXCEPT !.how = "bad"]
            ELSE IF Hits(u.v.sub[u.c], u.base) # {} THEN Found(u, u.v.sub[u.c])
            ELSE Followed(u, FatNext(u.v.fat, u.c))
        begin == [v |-> v, c |-> d, i |-> 0, base |-> 0, how |-> "more"]
        at[k \in 0 .. Cardinality(Clusters)] ==
            IF k = 0 THEN begin
            ELSE LET u == at[k - 1] IN
                 IF u.how = "more" THEN Looked([u EXCEPT !.v = ReadSector(@)]) ELSE u
    IN  IF d # ROOT_CLUSTER THEN at[Cardinality(Clusters)]
        ELSE IF Hits(v.root, 0) # {} THEN Found(begin, v.root)
        ELSE [begin EXCEPT !.how = "end"]

PlaceOf(r) == Place(r.c, r.i)
SlotAt(r) == At(r.v, PlaceOf(r))

(* find_in_dir of a name: a sector that cannot be read is "not found". *)
FindInDir(v, d, n) ==
    LET Judged(r) == IF r.how = "found" /\ Live(SlotAt(r)) THEN r
                     ELSE [r EXCEPT !.how = "none"]
    IN  Judged(Scan(v, d, Named({n}, 0)))

(* Mutant: the new cluster is linked on the disk before it is zeroed. *)
ZeroLast(v, new) ==
    LET Cleared(u) == IF u.fat.cf THEN u ELSE [u EXCEPT !.sub[new] = Zeroed]
        Linked(u) == IF u.fat.cf THEN u ELSE Cleared([u EXCEPT !.fat = Io(@)])
    IN  Linked([v EXCEPT !.fat = FlushFat(@)])

(* The new cluster is zeroed, and then linked on the disk. *)
ZeroAndFlush(v, new) ==
    LET Cleared(u) == IF u.fat.cf THEN u
                      ELSE [u EXCEPT !.sub[new] = Zeroed, !.fat = FlushFat(@)]
    IN  Cleared([v EXCEPT !.fat = Io(@)])

UnlinkOnly(v, last, new) ==  \* mutant: the new cluster is not freed
    [v EXCEPT !.fat = FlushFat(FatSet(@, last, EOC))]
RollBack(v, last, new) ==
    LET Freed(u) == [u EXCEPT !.leaked = @ \/ u.fat.cf]
    IN  Freed([v EXCEPT !.fat = FlushFat(FatSet(FatSet(@, last, EOC), new, FREE))])

(* find_dir_free: the first free slot of d, a subdirectory growing by a    *)
(* cluster when it has none.                                               *)
FindDirFree(v, d) ==
    LET Full(r, u) == [r EXCEPT !.v = u, !.how = "full"]
        Grown(r, z, new) ==
            IF z.fat.cf THEN Full(r, RollBack(z, r.c, new))
            ELSE [r EXCEPT !.v = z, !.c = new, !.i = 1, !.how = "found"]
        Extended(r, t) ==
            IF t.cf THEN Full(r, [r.v EXCEPT !.fat = t])
            ELSE Grown(r, ZeroAndFlush([r.v EXCEPT !.fat = FatSet(t, r.c, t.ax)], t.ax), t.ax)
        Scanned(r) ==
            IF r.how = "found" THEN r
            ELSE IF r.how = "bad" \/ d = ROOT_CLUSTER THEN Full(r, r.v)
            ELSE Extended(r, FatAlloc(r.v.fat))
    IN  Scanned(Scan(v, d, Kinds({"unused", "deleted"})))

Emptiness(r) ==
    [r EXCEPT !.how = IF r.how = "end" \/ (r.how = "found" /\ ~Live(SlotAt(r)))
                      THEN "empty" ELSE "used"]

DeletedIsEmpty(v, d) ==  \* mutant: a deleted entry is taken for the end
    Emptiness(Scan(v, d, Kinds({"unused", "deleted", "file", "dir"})))

(* dir_is_empty: what follows an unused slot is not looked at. *)
DirIsEmpty(v, d) ==
    Emptiness(Scan(v, d, Kinds({"unused", "file", "dir"})))

-----------------------------------------------------------------------------
(* Names.  The directory d a path leads to is read from the root or from   *)
(* the current directory down; a failure there ends the call before it has *)
(* done anything.                                                          *)

Quiet == UNCHANGED <<cur_dir_cluster, find>>

(* What the program's search is still due is history: a name that goes is  *)
(* not due any more, and one that comes back is new; a search in a         *)
(* directory that is removed is not followed further.                      *)
AfterRemoval(d, n) ==
    IF ~find.on THEN find
    ELSE IF find.dir \notin DirsIn(held') THEN [NoSearch EXCEPT !.twice = find.twice]
    ELSE IF find.dir = d /\ n \notin NamesIn(held', d)
    THEN [find EXCEPT !.due = @ \ {n}, !.given = @ \ {n}] ELSE find

(* AH=5Bh: a file that exists is refused. *)
Create(d, n, fails) ==
    /\ Running
    /\ LET Loaded(v, p) == IF v.fat.cf THEN v ELSE WriteSlot(v, p, Entry32("file", n, FREE))
           Placed(s) == IF s.how = "found" THEN Loaded(Load(s.v, PlaceOf(s)), PlaceOf(s)) ELSE s.v
           Looked(l) == IF l.how = "found" THEN l.v ELSE Placed(FindDirFree(l.v, d))
       IN  Finish(Looked(FindInDir(Start(fails), d, n)))
    /\ Quiet

(* AH=39h *)
MkDir(d, n, fails) ==
    /\ Running
    /\ LET Kept(u) == [u EXCEPT !.leaked = @ \/ u.fat.cf]
           Freed(v, c) == Kept([v EXCEPT !.fat = FlushFat(FreeChain(@, c))])
           Written(w) == [w EXCEPT !.leaked = @ \/ (w.fat.cf /\ d # ROOT_CLUSTER)]
           Loaded(v, p, c) ==
               IF v.fat.cf THEN Freed(v, c) ELSE Written(WriteSlot(v, p, Entry32("dir", n, c)))
           Flushed(v, p, c) == IF v.fat.cf THEN Freed(v, c) ELSE Loaded(Load(v, p), p, c)
           Dotted(v, p, c) ==
               IF v.fat.cf THEN Freed(v, c)
               ELSE Flushed([v EXCEPT !.sub[c] = DotSlots(c, d), !.fat = FlushFat(@)], p, c)
           Taken(v, t, p) == IF t.cf THEN [v EXCEPT !.fat = t]
                             ELSE Dotted([v EXCEPT !.fat = Io(t)], p, t.ax)
           Placed(s) == IF s.how = "found" THEN Taken(s.v, FatAlloc(s.v.fat), PlaceOf(s)) ELSE s.v
           Looked(l) == IF l.how = "found" THEN l.v ELSE Placed(FindDirFree(l.v, d))
       IN  Finish(Looked(FindInDir(Start(fails), d, n)))
    /\ Quiet

(* What delete and rmdir do with an entry found at p: the entry goes first,*)
(* then the chain that starts at c.                                        *)
RemoveEntry(v, p, c) ==
    LET Freed(f) == [f EXCEPT !.leaked = @ \/ Failed(f)]
        Written(w) == IF w.fat.cf THEN [w EXCEPT !.leaked = @ \/ p.c = ROOT_CLUSTER]
                      ELSE Freed([w EXCEPT !.fat = FlushFat(FreeChain(@, c))])
    IN  Written(WriteSlot(v, p, DELETED))

(* AH=41h *)
Delete(d, n, fails) ==
    /\ Running
    /\ LET Found(v, p, s) == IF s.is = "file" THEN RemoveEntry(v, p, s.first) ELSE v
           Looked(l) == IF l.how = "found" THEN Found(l.v, PlaceOf(l), SlotAt(l)) ELSE l.v
       IN  Finish(Looked(FindInDir(Start(fails), d, n)))
    /\ find' = AfterRemoval(d, n)
    /\ UNCHANGED cur_dir_cluster

(* AH=3Ah *)
RmDir(d, n, fails) ==
    /\ Running
    /\ LET Loaded(v, p, c) == IF v.fat.cf THEN v ELSE RemoveEntry(v, p, c)
           Scanned(e, p, c) == IF e.how = "used" THEN e.v ELSE Loaded(Load(e.v, p), p, c)
           Found(v, p, s) == IF s.is # "dir" \/ s.first = cur_dir_cluster THEN v
                             ELSE Scanned(DirIsEmpty(v, s.first), p, s.first)
           Looked(l) == IF l.how = "found" THEN Found(l.v, PlaceOf(l), SlotAt(l)) ELSE l.v
       IN  Finish(Looked(FindInDir(Start(fails), d, n)))
    /\ find' = AfterRemoval(d, n)
    /\ UNCHANGED cur_dir_cluster

(* AH=56h: a file gets another name in its directory. *)
Rename(d, n, m, fails) ==
    /\ Running
    /\ LET Loaded(v, p) == IF v.fat.cf THEN v ELSE WriteSlot(v, p, [At(v, p) EXCEPT !.name = m])
           Compared(o, p) == IF o.how = "found" THEN o.v ELSE Loaded(Load(o.v, p), p)
           Looked(l) == IF l.how = "found" /\ SlotAt(l).is = "file"
                        THEN Compared(FindInDir(l.v, d, m), PlaceOf(l)) ELSE l.v
       IN  Finish(Looked(FindInDir(Start(fails), d, n)))
    /\ find' = AfterRemoval(d, n)
    /\ UNCHANGED cur_dir_cluster

(* Environment: an empty file gets a first cluster and data in it, by an   *)
(* open, a write and a close that succeed.                                 *)
WriteFile(d, n) ==
    /\ Running
    /\ \E l \in {FindInDir(Start({}), d, n)} :
          /\ l.how = "found" /\ SlotAt(l).is = "file" /\ SlotAt(l).first = FREE
          /\ \E t \in {FatAlloc(l.v.fat)} :
                /\ ~t.cf
                /\ LET w == WriteSlot([l.v EXCEPT !.fat = t, !.sub[t.ax] = Junk], PlaceOf(l),
                                      [SlotAt(l) EXCEPT !.first = t.ax])
                   IN  Finish([w EXCEPT !.fat = FlushFat(@)])
    /\ Quiet

(* AH=3Bh *)
ChDir(d) ==
    /\ Running
    /\ cur_dir_cluster' = d
    /\ UNCHANGED <<fat, root, disk, sub, find, faults, off, mistook, leaked, held>>

-----------------------------------------------------------------------------
(* Searches for every name, one at a time.  No transfer of theirs fails. *)

(* The search that was before goes on at slot from. *)
Search(before, d, from) ==
    LET Given(r, n) == [before EXCEPT !.on = TRUE, !.dir = d, !.next = r.base + r.i,
                                      !.due = @ \ {n}, !.given = @ \cup ({n} \cap Names),
                                      !.twice = @ \/ n \in before.given]
    IN  \E r \in {Scan(Start({}), d, Named(Names \cup {".", ".."}, from))} :
        /\ Finish(r.v)
        /\ find' = IF r.how = "found" /\ Live(SlotAt(r)) THEN Given(r, SlotAt(r).name)
                   ELSE [NoSearch EXCEPT !.due = before.due, !.twice = before.twice]
        /\ UNCHANGED cur_dir_cluster

(* AH=4Eh *)
FindFirst(d) ==
    /\ Running /\ faults <= MaxSearchFaults
    /\ Search([NoSearch EXCEPT !.due = NamesIn(held, d), !.twice = find.twice], d, 0)

ResumeAtFound == find.next - 1  \* mutant: the entry found is looked at again
Resume == find.next

(* AH=4Fh *)
FindNext ==
    /\ Running /\ find.on
    /\ Search(find, find.dir, Resume)

(* Transfers fail in few calls, in fewer while a search is under way. *)
CanFail == faults < MaxFaults /\ (find.on => faults < MaxSearchFaults)

Next ==
    \/ \E d \in DirsIn(held), n \in Names, k \in IF CanFail THEN 0 .. MaxIo ELSE {0} :
       \E lasting \in IF k = 0 THEN {FALSE} ELSE BOOLEAN : LET fails == Failing(k, lasting) IN
          \/ Create(d, n, fails) \/ MkDir(d, n, fails)
          \/ Delete(d, n, fails) \/ RmDir(d, n, fails)
          \/ \E m \in Names \ {n} : Rename(d, n, m, fails)
    \/ \E d \in DirsIn(held), n \in Names : WriteFile(d, n)
    \/ \E d \in DirsIn(held) : ChDir(d) \/ FindFirst(d)
    \/ FindNext

Spec == Init /\ [][Next]_vars

-----------------------------------------------------------------------------
(* Properties *)

(* A directory's clusters were initialised, its chain ends and it has dots. *)
Whole(sb, fv, h) ==
    /\ \A c \in h.has : sb[c] # Junk
    /\ \E c \in h.has : fv[c] = EOC
    /\ sb[h.first][1] = Entry32("dot", ".", h.first)
    /\ sb[h.first][2] = Entry32("dot", "..", h.dir)

SoundTree(hs, sb, fv) ==
    \A h \in hs :
        /\ h.is = "dir" => Whole(sb, fv, h)
        /\ \A g \in hs \ {h} :
              h.has \cap g.has = {} /\ (h.dir = g.dir => h.name # g.name)

(* Whichever transfer fails: directories are whole, with their dots, share *)
(* no cluster and give a name once, none of their entries stands behind an *)
(* unused one, where no search would find it, the current one exists, and  *)
(* every cluster in use is in the tree: an extension and a new directory   *)
(* are taken back when a later step of their call fails.                   *)
TreeIsSound ==
    Running =>
        /\ SoundTree(held, sub, View(fat))
        /\ cur_dir_cluster \in DirsIn(held)
        /\ \A d \in DirsIn(held) : LET q == SlotsOf(root, sub, View(fat), d) IN
              \A x, y \in q : x[1] < y[1] /\ x[2].is = "unused" => y[2].is = "unused"
        /\ leaked \/ \A c \in Clusters :
              View(fat)[c] # FREE => \E h \in held : c \in h.has

(* Whenever the machine is switched off, the disk holds a sound tree. *)
DiskIsSound == ~mistook => SoundTree(Holdings(disk, sub, fat.copies[1]), sub, fat.copies[1])

(* A search gives every name that was there from its beginning to its end, *)
(* and none twice, whatever is created, deleted and renamed meanwhile.     *)
SearchesAreComplete == ~mistook => ~find.twice /\ (~find.on => find.due = {})

(* Calls change the tree as a whole or not at all. *)
Tree == {[dir |-> h.dir, name |-> h.name,
          id |-> IF h.is = "dir" THEN h.first ELSE ROOT_CLUSTER] : h \in held}
NT == INSTANCE NameTree WITH entries <- Tree, Ids <- Clusters, Root <- ROOT_CLUSTER
ImplementsNameTree == NT!Init /\ [][Running' => NT!Next]_Tree
=============================================================================
