------------------------------ MODULE FatTable ------------------------------
(***************************************************************************)
(* The file allocation table and the window the kernel sees it through     *)
(* (src/src/kernel/fat.inc).                                               *)
(*                                                                         *)
(* A FAT16 volume keeps one FAT sector in memory and writes it back, to    *)
(* every copy on the disk, when another one is needed or at flush_fat.  A  *)
(* FAT12 volume keeps the whole table: one window that holds every entry.  *)
(*                                                                         *)
(* A table t is a record; ax and cf are the registers a routine answers    *)
(* in.  The disk transfers of a call are counted in ios, and those whose   *)
(* number is in fails fail, after their retries and the INT 24h handler.   *)
(***************************************************************************)
EXTENDS Integers, FiniteSets

CONSTANTS
    kmax_cluster,        \* clusters are 2 .. kmax_cluster - 1
    EntriesPerSector,    \* table entries in a sector (256 on FAT16)
    knum_fats            \* copies of the table on the disk

ASSUME FatAssumption ==
    /\ kmax_cluster \in Nat /\ kmax_cluster > 2
    /\ EntriesPerSector \in Nat \ {0}
    /\ knum_fats \in Nat \ {0}

Clusters == 2 .. (kmax_cluster - 1)
FREE == 0
EOC == kmax_cluster
Entry == Clusters \cup {FREE, EOC}

SectorOf(c) == c \div EntriesPerSector
FatSectors == {SectorOf(c) : c \in Clusters}
InSector(s) == {c \in Clusters : SectorOf(c) = s}
NoSector == -1

(* copies: the tables on the disk.  sector: the one in the window, whose   *)
(* entries window holds.  hint: where the next search for a free cluster   *)
(* begins.  ioerr: fat_io_error.                                           *)
Table == [copies : [1 .. knum_fats -> [Clusters -> Entry]],
          sector : FatSectors \cup {NoSector},
          window : (UNION {[InSector(s) -> Entry] : s \in FatSectors}) \cup {<<>>},
          dirty : BOOLEAN, ioerr : BOOLEAN, hint : Clusters,
          ax : Entry, cf : BOOLEAN, ios : Nat, fails : SUBSET Nat]

EmptyTable ==
    [copies |-> [i \in 1 .. knum_fats |-> [c \in Clusters |-> FREE]],
     sector |-> NoSector, window |-> <<>>, dirty |-> FALSE, ioerr |-> FALSE,
     hint |-> 2, ax |-> FREE, cf |-> FALSE, ios |-> 0, fails |-> {}]

(* A call begins: its transfers are counted from one.  It ends: what the   *)
(* registers held is nobody's business.                                    *)
Begin(t, fails) == [t EXCEPT !.fails = fails]
End(t) == [t EXCEPT !.ax = FREE, !.cf = FALSE, !.ios = 0, !.fails = {}]

(* What the table says: the window where it is loaded, else the first copy. *)
View(t) == [c \in Clusters |-> IF c \in DOMAIN t.window THEN t.window[c] ELSE t.copies[1][c]]

-----------------------------------------------------------------------------
(* The window *)

Io(t) == [t EXCEPT !.ios = @ + 1, !.cf = (t.ios + 1) \in t.fails]

WriteCopy(t, i) ==
    LET Wrote(u) == IF u.cf
                    THEN [u EXCEPT !.ioerr = TRUE]
                    ELSE [u EXCEPT !.copies[i] = [c \in Clusters |->
                             IF c \in DOMAIN u.window THEN u.window[c] ELSE @[c]]]
    IN  Wrote(Io(t))

(* The copies are written in turn, up to the first that fails. *)
WriteCopies(t) ==
    LET written[i \in 0 .. knum_fats] ==
            IF i = 0 THEN [t EXCEPT !.cf = FALSE]
            ELSE LET u == written[i - 1] IN IF u.cf THEN u ELSE WriteCopy(u, i)
    IN  written[knum_fats]

WindowFlushClears(t) ==  \* mutant: a failed flush leaves the window clean
    IF t.dirty THEN [WriteCopies(t) EXCEPT !.dirty = FALSE] ELSE [t EXCEPT !.cf = FALSE]

WindowFlush(t) ==
    LET Flushed(u) == [u EXCEPT !.dirty = u.cf] IN
    IF t.dirty THEN Flushed(WriteCopies(t)) ELSE [t EXCEPT !.cf = FALSE]

WindowLoad(t, s) ==
    LET Read(u) == IF u.cf THEN [u EXCEPT !.sector = NoSector, !.window = <<>>]
                   ELSE [u EXCEPT !.sector = s,
                                  !.window = [c \in InSector(s) |-> u.copies[1][c]]]
        Flushed(u) == IF u.cf THEN u ELSE Read(Io(u))
    IN  IF t.sector = s THEN [t EXCEPT !.cf = FALSE] ELSE Flushed(WindowFlush(t))

-----------------------------------------------------------------------------
(* Entries, allocation and chains *)

(* An entry that cannot be read is answered as the end of the chain. *)
FatNext(t, c) ==
    LET Entered(u) == [u EXCEPT !.ax = IF u.cf THEN EOC ELSE u.window[c]]
    IN  Entered(WindowLoad(t, SectorOf(c)))

FatSet(t, c, e) ==
    LET Stored(u) == IF u.cf THEN [u EXCEPT !.ioerr = TRUE]
                     ELSE [u EXCEPT !.window[c] = e, !.dirty = TRUE]
    IN  Stored(WindowLoad(t, SectorOf(c)))

(* The k-th cluster from c on, around the end of the volume. *)
Around(c, k) == 2 + ((c - 2 + k) % (kmax_cluster - 2))

SearchLengthShort == kmax_cluster - 3  \* mutant: the search stops one cluster early
SearchLength == kmax_cluster - 2
NextHint(c) == Around(c, 1)

(* The first free cluster from the hint on, marked as the end of a chain;  *)
(* cf when there is none.                                                  *)
FatAlloc(t) ==
    LET tried[k \in 0 .. SearchLength] ==
            IF k = 0 THEN [at |-> t.hint, tab |-> [t EXCEPT !.ax = EOC]]
            ELSE LET p == tried[k - 1]
                     c == Around(t.hint, k - 1)
                 IN  IF p.tab.ax = FREE THEN p ELSE [at |-> c, tab |-> FatNext(p.tab, c)]
        Took(end) == IF end.tab.ax # FREE THEN [end.tab EXCEPT !.cf = TRUE]
                     ELSE [FatSet(end.tab, end.at, EOC) EXCEPT
                              !.ax = end.at, !.hint = NextHint(end.at), !.cf = FALSE]
    IN  Took(tried[SearchLength])

FreeFirst(t, c) == IF c \in Clusters THEN FatSet(t, c, FREE) ELSE t  \* mutant: not the rest

(* Every cluster of the chain that starts at c is freed. *)
FreeChain(t, c) ==
    LET Freed(u, d) == [FatSet(u, d, FREE) EXCEPT !.ax = u.ax]
        freed[k \in 0 .. Cardinality(Clusters)] ==
            IF k = 0 THEN [t EXCEPT !.ax = c]
            ELSE LET u == freed[k - 1] IN
                 IF u.ax \notin Clusters THEN u ELSE Freed(FatNext(u, u.ax), u.ax)
    IN  freed[Cardinality(Clusters)]

(* The window is written back, and a pending error is consumed. *)
FlushFat(t) ==
    LET Reported(u) == [u EXCEPT !.cf = u.ioerr, !.ioerr = FALSE]
    IN  Reported(WindowFlush(t))

-----------------------------------------------------------------------------
(* Chains, for the properties *)

(* The n-th cluster of the chain that starts at first, from zero. *)
ChainAt(t, first, n) ==
    LET at[k \in 0 .. n] ==
            IF k = 0 THEN first
            ELSE LET c == at[k - 1] IN IF c \in Clusters THEN View(t)[c] ELSE EOC
    IN  at[n]

Chain(t, first) ==
    {ChainAt(t, first, n) : n \in 0 .. Cardinality(Clusters) - 1} \cap Clusters
=============================================================================
