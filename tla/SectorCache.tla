---------------------------- MODULE SectorCache ----------------------------
(***************************************************************************)
(* The kernel's windows on the sectors of the drives: the write-back       *)
(* sector of AH=40h, the read-ahead window of AH=3Fh, the subdirectory     *)
(* slots; and the switch between drives, under which all of them are       *)
(* tagged with a drive. A call of INT 21h is a sequence of steps; each may *)
(* fail with its transfers, which ends the call.                           *)
(*                                                                         *)
(* A sector is written by its parts (its bytes). The FAT's own sectors are *)
(* not among the sectors.                                                  *)
(***************************************************************************)
EXTENDS Naturals, Sequences

CONSTANTS
    Drives,                 \* drive numbers
    Floppies,               \* those with kdrv < 80h
    LastSector,             \* sectors of a drive: 0 .. LastSector
    Parts,                  \* parts of a sector
    READ_CACHE_SECTORS,     \* sectors of the read window (4)
    SUBDIR_CACHE_SLOTS,     \* subdirectory slots, a power of two (16)
    MaxWrites               \* bound: writes by programs and of directories

ASSUME SectorCacheAssumption ==
    /\ Floppies \subseteq Drives /\ Drives # {}
    /\ LastSector \in Nat /\ Parts # {}
    /\ READ_CACHE_SECTORS \in Nat \ {0} /\ SUBDIR_CACHE_SLOTS \in Nat \ {0}
    /\ MaxWrites \in Nat

Sectors == 0 .. LastSector
Data == 0 .. MaxWrites      \* the n-th write writes n
Slots == 0 .. SUBDIR_CACHE_SLOTS - 1

VARIABLES
    io,             \* the disks and the windows on them
    active,         \* active_drive_num
    call,           \* the call: "write" (AH=40h), "other", or "none"
    busy,           \* the sector of an open file that this call found unsaved
    answer,         \* what the last step answered
    writes          \* writes so far

vars == <<io, active, call, busy, answer, writes>>

-----------------------------------------------------------------------------
(* Windows *)

Blank == [p \in Parts |-> 0]
SomeDrive == CHOOSE d \in Drives : TRUE

NoSector == [valid |-> FALSE, dirty |-> FALSE, drive |-> SomeDrive, lba |-> 0, buf |-> Blank]
NoWindow == [valid |-> FALSE, drive |-> SomeDrive, lba |-> 0, buf |-> <<>>]
NoSlot == [valid |-> FALSE, drive |-> SomeDrive, lba |-> 0, buf |-> Blank]

Dirty(m) == m.wf.valid /\ m.wf.dirty
Names(w, s) == w.valid /\ w.drive = active /\ w.lba = s

(* subdir_cache_invalidate, which drops the read window as well. *)
Invalidated(m) ==
    [m EXCEPT !.rf = NoWindow, !.sub = [i \in Slots |-> NoSlot], !.next = 0]

(* write_sector: only a transfer that succeeds changes the disk. *)
WriteSector(m, s, data, ok) ==
    LET n == Invalidated(m) IN IF ok THEN [n EXCEPT !.disk[active][s] = data] ELSE n

(* wf_flush_sector_cache *)
Flushes(m) ==
    IF ~Dirty(m) THEN {[ok |-> TRUE, m |-> m]}
    ELSE IF m.wf.drive # active THEN {[ok |-> FALSE, m |-> m]}
    ELSE {[ok |-> ok,
           m |-> [WriteSector(m, m.wf.lba, m.wf.buf, ok) EXCEPT !.wf.dirty = ~ok]] :
              ok \in BOOLEAN}

(* read_sectors: the transfer, after the flush. *)
Reads(m) == {[ok |-> f.ok /\ ok, m |-> f.m] : f \in Flushes(m), ok \in BOOLEAN}

-----------------------------------------------------------------------------
(* How a step ends *)

Answer(k) == [kind |-> k, drive |-> active, first |-> 0, data |-> <<>>]
DataOf(first, data) == [kind |-> "data", drive |-> active, first |-> first, data |-> data]

Fails(m) ==
    /\ io' = m
    /\ call' = "none"
    /\ answer' = Answer("failed")

Succeeds(m, a) ==
    /\ io' = m
    /\ answer' = a
    /\ UNCHANGED call

OnDisk(m, first, n) == [i \in 1 .. n |-> m.disk[active][first + i - 1]]

Init ==
    /\ io = [disk |-> [d \in Drives |-> [s \in Sectors |-> Blank]],
             wf |-> NoSector, rf |-> NoWindow, sub |-> [i \in Slots |-> NoSlot], next |-> 0]
    /\ active \in Drives
    /\ call = "none"
    /\ busy = {}
    /\ answer = Answer("done")
    /\ writes = 0

EnterKeepsWindow(k) ==  \* mutant: the saved window stays valid
    /\ call' = k
    /\ busy' = IF Dirty(io) THEN {<<io.wf.drive, io.wf.lba>>} ELSE {}
    /\ IF k = "write" THEN io' = io ELSE \E f \in Flushes(io) : io' = f.m
    /\ answer' = Answer("done")
    /\ UNCHANGED <<active, writes>>

(* INT21_STI: every call but AH=40h saves the sector and forgets it. A     *)
(* call proceeds although the sector could not be saved.                   *)
Enter(k) ==
    /\ call' = k
    /\ busy' = IF Dirty(io) THEN {<<io.wf.drive, io.wf.lba>>} ELSE {}
    /\ IF k = "write" THEN io' = io
       ELSE \E f \in Flushes(io) : io' = IF f.ok THEN [f.m EXCEPT !.wf = NoSector] ELSE f.m
    /\ answer' = Answer("done")
    /\ UNCHANGED <<active, writes>>

(* activate_drive of another drive: save, change the geometry and load the *)
(* volume's buffers; when these cannot be read, go back.                   *)
Switch(d) ==
    /\ call # "none"
    /\ d # active
    /\ \E f \in Flushes(io) :
          IF ~f.ok THEN Fails(f.m) /\ UNCHANGED active
          ELSE \/ Fails(Invalidated(f.m)) /\ UNCHANGED active
               \/ Succeeds(Invalidated(f.m), Answer("done")) /\ active' = d
    /\ UNCHANGED <<busy, writes>>

(* activate_drive of the active floppy may read it (floppy_media_check);   *)
(* and reading the FAT, in any call, saves the sector first.               *)
ReadTable ==
    /\ call # "none"
    /\ \E r \in Reads(io) : IF r.ok THEN Succeeds(r.m, Answer("done")) ELSE Fails(r.m)
    /\ UNCHANGED <<active, busy, writes>>

(* Writing the FAT drops the windows for reading. *)
WriteTable ==
    /\ call # "none"
    /\ Fails(Invalidated(io)) \/ Succeeds(Invalidated(io), Answer("done"))
    /\ UNCHANGED <<active, busy, writes>>

-----------------------------------------------------------------------------
(* AH=40h *)

(* wf_prepare_sector_cache: the window is made free for a sector. *)
Prepares(s) ==
    IF ~io.wf.valid \/ Names(io.wf, s) THEN {[ok |-> TRUE, m |-> io]}
    ELSE {[ok |-> f.ok, m |-> IF f.ok THEN [f.m EXCEPT !.wf = NoSector] ELSE f.m] :
             f \in Flushes(io)}

(* wf_mark_sector_cache, after the parts were copied over what the window  *)
(* holds.                                                                  *)
MarkedKeepsReads(m, s, data) ==  \* mutant: the windows for reading stay
    [m EXCEPT !.wf = [valid |-> TRUE, dirty |-> TRUE, drive |-> active, lba |-> s,
                      buf |-> data]]

Marked(m, s, data) ==
    [Invalidated(m) EXCEPT !.wf = [valid |-> TRUE, dirty |-> TRUE, drive |-> active,
                                   lba |-> s, buf |-> data]]

Over(old, ps) == [p \in Parts |-> IF p \in ps THEN writes + 1 ELSE old[p]]

(* A sector's share of a write: read first unless it is written whole or   *)
(* in the window; saved at once on a floppy.                               *)
Kept(m, s, ps, old) ==
    LET n == Marked(m, s, Over(old, ps)) IN
    IF active \in Floppies
    THEN \E f \in Flushes(n) : IF f.ok THEN Succeeds(f.m, Answer("done")) ELSE Fails(f.m)
    ELSE Succeeds(n, Answer("done"))

WriteChunk(s, ps) ==
    /\ call = "write" /\ writes < MaxWrites
    /\ \E r \in Prepares(s) :
          IF ~r.ok THEN Fails(r.m) /\ UNCHANGED writes
          ELSE IF ps = Parts \/ r.m.wf.valid
          THEN Kept(r.m, s, ps, r.m.wf.buf) /\ writes' = writes + 1
          ELSE \/ Fails(r.m) /\ UNCHANGED writes
               \/ Kept(r.m, s, ps, io.disk[active][s]) /\ writes' = writes + 1
    /\ UNCHANGED <<active, busy>>

-----------------------------------------------------------------------------
(* Reading files and directories *)

Window(s, bufs) == [valid |-> TRUE, drive |-> active, lba |-> s, buf |-> bufs]

InWindow(s) ==
    /\ io.rf.valid /\ io.rf.drive = active
    /\ s \in io.rf.lba .. io.rf.lba + Len(io.rf.buf) - 1

(* Sectors to read ahead: some when the window ends where the sector is,   *)
(* as far as the cluster and the file go.                                  *)
Ahead(s) ==
    IF io.rf.valid /\ io.rf.drive = active /\ s = io.rf.lba + Len(io.rf.buf)
    THEN {n \in 1 .. READ_CACHE_SECTORS : s + n - 1 \in Sectors}
    ELSE {1}

(* A sector of AH=3Fh: from the window, from the sector being written, or  *)
(* from the disk into the window.                                          *)
ReadChunk(s) ==
    /\ call = "other"
    /\ IF InWindow(s)
       THEN Succeeds(io, DataOf(s, <<io.rf.buf[s - io.rf.lba + 1]>>))
       ELSE \E m \in {[io EXCEPT !.rf = NoWindow]}, n \in Ahead(s) :
               IF Names(m.wf, s)
               THEN \E f \in Flushes(m) :
                       IF f.ok
                       THEN Succeeds([f.m EXCEPT !.rf = Window(s, <<f.m.wf.buf>>)],
                                     DataOf(s, <<f.m.wf.buf>>))
                       ELSE Fails(f.m)
               ELSE \E r \in Reads(m) :
                       IF r.ok
                       THEN Succeeds([r.m EXCEPT !.rf = Window(s, OnDisk(r.m, s, n))],
                                     DataOf(s, OnDisk(r.m, s, 1)))
                       ELSE Fails(r.m)
    /\ UNCHANGED <<active, busy, writes>>

(* Several sectors straight into the program's memory (AH=3Fh, EXEC).      *)
DirectRead(s, n) ==
    /\ call = "other"
    /\ n > 1 /\ s + n - 1 \in Sectors
    /\ \E r \in Reads(io) :
          IF r.ok THEN Succeeds(r.m, DataOf(s, OnDisk(r.m, s, n))) ELSE Fails(r.m)
    /\ UNCHANGED <<active, busy, writes>>

(* AH=42h *)
Seek ==
    /\ call = "other"
    /\ Succeeds([io EXCEPT !.rf = NoWindow], Answer("done"))
    /\ UNCHANGED <<active, busy, writes>>

First(S) == CHOOSE i \in S : \A j \in S : i <= j

(* The slots that hold a sector. *)
Hits(m, s) == {i \in Slots : Names(m.sub[i], s)}

SlotFilled(m, s) ==
    [m EXCEPT !.sub[m.next] = [valid |-> TRUE, drive |-> active, lba |-> s,
                               buf |-> m.disk[active][s]],
              !.next = (m.next + 1) % SUBDIR_CACHE_SLOTS]

(* load_subdir_sector_cached *)
Loads(s) ==
    UNION {IF ~f.ok THEN {[ok |-> FALSE, m |-> f.m, buf |-> Blank]}
           ELSE IF Hits(f.m, s) # {}
           THEN {[ok |-> TRUE, m |-> f.m, buf |-> f.m.sub[First(Hits(f.m, s))].buf]}
           ELSE {[ok |-> FALSE, m |-> f.m, buf |-> Blank],
                 [ok |-> TRUE, m |-> SlotFilled(f.m, s), buf |-> f.m.disk[active][s]]} :
           f \in Flushes(io)}

(* A search reads a sector of a subdirectory. *)
LoadDir(s) ==
    /\ call = "other"
    /\ \E l \in Loads(s) :
          IF l.ok THEN Succeeds(l.m, DataOf(s, <<l.buf>>)) ELSE Fails(l.m)
    /\ UNCHANGED <<active, busy, writes>>

(* Clusters in use by files are not directories. *)
MayBeDirectory(s) == <<active, s>> \notin busy

DirWrite(m, s, data) ==
    \/ Fails(WriteSector(m, s, data, FALSE)) /\ UNCHANGED writes
    \/ Succeeds(WriteSector(m, s, data, TRUE), Answer("done")) /\ writes' = writes + 1

(* An entry is changed in the sector that was loaded (flush_dir_slot).     *)
UpdateDir(s, ps) ==
    /\ call = "other" /\ writes < MaxWrites
    /\ MayBeDirectory(s)
    /\ \E l \in Loads(s) :
          IF l.ok THEN DirWrite(l.m, s, Over(l.buf, ps)) ELSE Fails(l.m) /\ UNCHANGED writes
    /\ UNCHANGED <<active, busy>>

(* A directory's new sector is written whole (mkdir, extension). *)
NewDir(s) ==
    /\ call = "other" /\ writes < MaxWrites
    /\ MayBeDirectory(s)
    /\ DirWrite(io, s, Over(Blank, Parts))
    /\ UNCHANGED <<active, busy>>

-----------------------------------------------------------------------------
SaveTrusting ==  \* mutant: the entry of the call is trusted to have saved it
    /\ call = "other"
    /\ Succeeds(io, Answer("saved"))
    /\ UNCHANGED <<active, busy, writes>>

(* Close and commit save the sector (wf_flush_handle_dir_entry). *)
Save ==
    /\ call = "other"
    /\ \E f \in Flushes(io) : IF f.ok THEN Succeeds(f.m, Answer("saved")) ELSE Fails(f.m)
    /\ UNCHANGED <<active, busy, writes>>

(* AH=0Dh (wf_flush_iret_nc) *)
ResetDisks ==
    /\ call = "other"
    /\ \E f \in Flushes(io) :
          IF f.ok THEN Succeeds(Invalidated(f.m), Answer("saved")) ELSE Fails(f.m)
    /\ UNCHANGED <<active, busy, writes>>

Next ==
    \/ \E k \in {"write", "other"} : Enter(k)
    \/ \E d \in Drives : Switch(d)
    \/ ReadTable \/ WriteTable
    \/ \E s \in Sectors :
          \/ \E ps \in SUBSET Parts \ {{}} : WriteChunk(s, ps) \/ UpdateDir(s, ps)
          \/ ReadChunk(s) \/ LoadDir(s) \/ NewDir(s)
          \/ \E n \in 2 .. LastSector + 1 : DirectRead(s, n)
    \/ Seek \/ Save \/ ResetDisks

Spec == Init /\ [][Next]_vars
-----------------------------------------------------------------------------
(* Properties *)

Content == [Parts -> Data]

TypeOK ==
    /\ io.disk \in [Drives -> [Sectors -> Content]]
    /\ io.wf \in [valid : BOOLEAN, dirty : BOOLEAN, drive : Drives, lba : Sectors,
                  buf : Content]
    /\ io.rf.drive \in Drives /\ io.rf.lba \in Sectors
    /\ io.rf.lba + Len(io.rf.buf) <= LastSector + 1 /\ Len(io.rf.buf) <= READ_CACHE_SECTORS
    /\ io.sub \in [Slots -> [valid : BOOLEAN, drive : Drives, lba : Sectors, buf : Content]]
    /\ io.next \in Slots
    /\ active \in Drives
    /\ call \in {"none", "write", "other"}
    /\ busy \subseteq Drives \X Sectors
    /\ answer.kind \in {"done", "failed", "data", "saved"}
    /\ writes \in 0 .. MaxWrites

(* What a program may take the sectors to hold. *)
Stored ==
    [d \in Drives |-> [s \in Sectors |->
        IF Dirty(io) /\ io.wf.drive = d /\ io.wf.lba = s THEN io.wf.buf ELSE io.disk[d][s]]]

(* Every valid window, of whatever drive, agrees with what was written     *)
(* last: the sector being written once it is saved, the window for         *)
(* reading, and each subdirectory slot.  The sector that is not yet saved  *)
(* is one of the active drive, as wf_flush_sector_cache refuses any other  *)
(* for good.                                                               *)
WindowsAgree ==
    /\ io.wf.valid => io.wf.buf = Stored[io.wf.drive][io.wf.lba]
    /\ io.rf.valid => \A i \in DOMAIN io.rf.buf :
                         io.rf.buf[i] = Stored[io.rf.drive][io.rf.lba + i - 1]
    /\ \A i \in Slots : io.sub[i].valid =>
                         io.sub[i].buf = Stored[io.sub[i].drive][io.sub[i].lba]
    /\ Dirty(io) => io.wf.drive = active

(* A close, commit or disk reset that answers success has left nothing     *)
(* unsaved on any drive, although the entry of the same call may have      *)
(* failed to save it and gone on.                                          *)
SavedIsOnDisk == answer.kind = "saved" => Stored = io.disk

(* Reads answer what was written last: partial writes keep the rest of the *)
(* sector, and no window shows what a write, a failure or a switch of      *)
(* drives has made stale.                                                  *)
Store == INSTANCE SectorStore WITH store <- Stored, answer <- answer

ImplementsStore == Store!Spec
=============================================================================
