# LainDOS in TLA+

LainDOS is a single-tasking, real-mode DOS written in NASM: a boot sector, a
kernel (`src/src/kernel.asm` and the files it includes from
`src/src/kernel/`), a command shell, an installer and three small utilities.
Programs enter the kernel through INT 21h; the kernel moves sectors through
INT 13h and asks the user about failures through INT 24h. Beside the system
stands its documentation site (`src/docs/site/`, React), which boots the floppy
image in an emulator in the reader's browser, and the script that builds and
publishes it (`src/scripts/build_site.jsx`).

In the kernel nothing runs in parallel, and hardly any of the hard behaviour is
concurrency in the usual sense. What is hard is

* **long sequences of legal calls** over shared, hand-managed tables: the chain
  of memory control blocks, the handle table, the FAT, the directories, the
  caches;
* **failing in the middle**: almost every call is several transfers, any of
  which may fail, or the power may go, after the call has changed memory or the
  disk;
* **stale copies**: cluster positions, sectors, sizes, drive numbers and whole
  directories are remembered in several places and must be forgotten together,
  also when the user exchanges a floppy in the middle of it;
* **nesting**: programs run inside programs, handlers inside calls, remounts
  inside transfers, over one set of tables, one stack and one set of variables.

On the site it is timers, callbacks and caches that outlive what they are about.

The modules model those parts; the runs check them on small instances with TLC;
eight proof modules hold theorems for every value of the constants.

## Inventory

| Component (source) | State | Operations | What is hard, what makes it correct | Where |
|---|---|---|---|---|
| Memory arena (`memory_mcb.inc`, `memory.inc`) | chain of MCB headers | first/best/last fit, split, merge, resize, free | any order of splits and merges; the chain tiles the arena | `McbArena` |
| Processes (`exec.inc`, `kernel.asm`, `int21.inc`) | `cur_psp`, PSPs, the suspended EXECs in PSPs, `alloc_strat` | memory calls, EXEC, exit, resident exit, load-only EXEC, AH=50h | rollback after each allocation, LIFO resumption, nobody else's block changes | `ProcessMemory`, `ProgramLoader` |
| Handles (`path_dir.inc`, `int21.inc`) | global table of slots, aliases, reference counts; a job file table per PSP | open, dup, force-dup, close, write, commit, EXEC, exit | counts exact, a child's close is its own, a failed close can be retried | `HandleTable` refines `OpenFiles` |
| FAT and files (`fat.inc`, `fs.inc`, `path_dir.inc`, `int21.inc`) | FAT window, copies, search hint, `fat_io_error`, chain-position cache, handles' sizes and positions | create, open, read, write, set size, seek, commit, close, delete | no cross links, nothing lost, cached positions right, copies agree, what was reported saved is saved | `FatTable`, `FatVolume` |
| Directories and searches (`path_dir.inc`, `fs.inc`, `int21.inc`) | root directory buffer, directory sectors, current directory, search state in the DTA | create, delete, rename, mkdir, rmdir, chdir, find first/next, growth and its rollback | a call of many sectors is whole or not at all; the disk is sound when the power goes; searches miss nothing while slots change | `Directories` refines `NameTree` |
| Sector I/O (`disk.inc`) | request, retry count, single-sector mode | bursts, retries, INT 24h, disk changed | each sector moved once, in order; no burst crosses a track or DMA page; ends | `SectorIo` refines `SectorService` |
| Sector caches (`kernel.asm`, `int21.inc`, `path_dir.inc`, `macros.inc`) | write-back sector, read-ahead window, sixteen subdirectory slots, all tagged with drive and sector | every call's entry, file reads and writes, directory reads and writes, save, reset, switch of drives | no window is stale, nothing unsaved is stranded on another drive | `SectorCache` refines `SectorStore` |
| Drives and media (`kernel.asm`, `disk.inc`) | drive table, active drive, geometry, working directories, FAT and root buffers and their tag, media check tick | activate, media check, remount, exchange by the user | a switch or remount that fails or is interrupted half-way; an exchange that goes unnoticed | `MediaChange` |
| INT 21h entry, kernel stack, INT 20h/23h/24h (`int21.inc`, `exec.inc`, `kernel.asm`) | `indos_flag`, `kstack_base`, saved stacks, `mouse_in_callback` | entry, refusal, return, EXEC's and exits' use of the stack, handlers, callback | reentry over a frame in use; a return to the wrong stack | `Int21Entry` |
| Site: pages and links (`app.jsx`, `shell.jsx`, `data.jsx`, the `page_*.jsx`) | route | load, go | a link to a page or part that is not there | `SitePages`, `SiteApp` |
| Site: boot walkthrough (`page_boot.jsx`, `app.jsx`) | marked stage, jump, lock and timer, panel | jump, scroll, observer report, timer | a late timer or report undoes a later jump | `BootPage`, `SiteApp` |
| Site: emulator page (`v86machine.jsx`, `page_misc.jsx`) | status, message, machine, timer | boot, reboot, started, failed, timer | a late timer speaks of another machine; a boot that is never answered | `EmulatorPage`, `SiteApp` |
| Site: build and publishing (`build_site.jsx`, `resolve_doc_anchors.py`, `pages.yml`) | output directory, image URL, resolved docs, what is published, readers' caches | the build's steps, publish, read | a failed step over an old output; a page that boots another image than its own | `SiteBuild` |
| Extended memory (`kernel.asm`) | XMS total, EMS handles | allocate, resize, free, exit | every exit frees everything, also a parent's | not modelled |
| Mouse driver (`mouse.inc`) | packet, position, counters, callback | INT 33h calls, packets | the callback on top of the kernel | the callback, in `Int21Entry` |
| CD-ROM (`cdrom.inc`) | four cached sectors, media state, audio position | packet reads, refresh | stale sectors after a disc change | not modelled |
| Shell (`programs/shell.asm`) | batch handle, position, nesting | batch lines, nested batches | going on at the right line | not modelled |
| Installer (`programs/install.asm`) | partition and copy progress | fixed sequence | failure between steps | not modelled |
| Console, clock, FCB and country calls, kernel start, boot sector, utilities, image builders and tests, the site's text and local server | small or none | | sequential I/O, conversions or tooling | not modelled |

How they interact: INT 21h handlers call into paths, directories and handles,
these into the FAT and the directory buffer, these into the sector caches, and
these into sector I/O, all by plain calls, with results in the carry flag and
AX; sector I/O calls back up, into the remount, when a disk was changed. EXEC
and exit call into memory, handles and the kernel's stack. The models follow
those seams: `SectorIo` shows what `SectorService` promises; `SectorCache` uses
just that (a transfer succeeds or fails as a whole, as seen by a caller of one
sector) and shows what `SectorStore` promises; `FatVolume` and `Directories`
share the table of `FatTable` and use that sectors read are sectors written;
`ProgramLoader` extends `ProcessMemory`, and `SiteApp` composes the pages.

PROJECT.json lists the hazards found while reading, at their lines, with the
properties that cover each or why none does.

## Modules

**`McbArena`.** The chain is a function from the paragraphs where headers are to
`[owner, size, last]`; `last` is the 'Z' signature. Operators, no variables:
`Following`, `FreeRunAfter`, `Absorb`, `SplitLow`/`SplitHigh`, the three
allocation policies, `Resize`, `Release`, `Sweep` (the exit's freeing walk),
`CoalesceAllFree`. Walks that the code does with a segment register are
statements about the set of headers; the order is kept where it matters (the
merge in AH=49h goes forward only; the resident exit merges before it frees).

**`ProcessMemory`.** `arena`, `alloc_strat`, `cur_psp`, `psp` (parent,
environment, the end of memory at PSP:02h, and the suspended EXEC that the
process resumes), `frames` (the suspended EXECs), `resident`, `phase`. One action
per call: `Boot`, `AllocMem`, `FreeMem`, `ResizeMem`, `SetStrategy`, `Exec`,
`ExecFails`, `Terminate`, `TerminateTsr`. EXEC is one action because INT 21h is
not reentered while it runs; `ExecFails` is its three rollbacks.

**`ProgramLoader`.** Adds AX=4B01h, its failure, and AH=50h between a loader and
its child.

**`HandleTable`** and **`OpenFiles`.** A handle number is the number of a global
slot; a slot is a root with a reference count, or an alias. `jft` is the stack
of job file tables. `OpenFiles` is what DOS documents: a table per process, a
child's a copy of its parent's, duplicates sharing one open file, saved when the
last handle goes. The mapping of the slots to it is `ProcessHandles`: the file that
`View(p, h)` finds behind handle h of process p.

**`FatTable`.** The table as a record: the copies, the one sector in the window,
dirty flag, hint, `fat_io_error`, and the registers `ax`, `cf`. Each routine of
`fat.inc` is an operator from table to table. FAT12 is the case of one sector
that holds every entry. Transfers are numbered within a call and fail as
`fails` says.

**`FatVolume`.** Files over that table. A call copies the volume, runs, and
installs what it ended with, with the error at the transfer that failed; so all
the partial effects of a failed call are there and nothing else. Data sectors
are transfers that may fail and have no contents (`SectorCache` has those).

**`Directories`** and **`NameTree`.** The other side of the volume: slots of the
root (in memory, written as a whole) and of subdirectories (on the disk, a
cluster each), over the same table, with calls run on a copy in the same way.
`Scan` is the one walk behind `find_in_dir`, `find_dir_free` and `dir_is_empty`;
`FindDirFree` grows a full subdirectory (`ZeroAndFlush`, or `RollBack`). When
every transfer from some number on fails, the machine has been switched off.
`held` is the tree as it is reached from the root; `NameTree`, which that
implements, is names in directories and calls that happen as a whole.

**`SectorIo`** and **`SectorService`.** `sector_io_loop`, one action per pass
through each of its branches: `Next13` (set up CHS and burst), `Finish`,
`BurstFails`, `SectorFails`, `DiskChanged`, `Critical`. `asks`, `errs` and
`moved` are history.

**`SectorCache`** and **`SectorStore`.** `io` holds the disks and the windows:
`wf` (the write-back sector), `rf` (read-ahead), `sub` and `next` (subdirectory
slots). A call is `Enter` (the INT21_STI macro) followed by the steps that calls
are made of; each step is one handler's pass over one sector and ends the call
when it fails. The FAT's own sectors are not among the sectors: `ReadTable` and
`WriteTable` are what FAT transfers do to the windows.

**`MediaChange`.** What the kernel holds of the drives, with sectors in buffers
named by the disk and the place they came from. `stack` is the pending
transfers and the routines that wait for them, so that a remount can begin
inside any transfer, also one of another remount; the user may exchange the
floppy between any two. Two kinds of BIOS: one that reports an exchange at the
next transfer ("line"), one that only answers AH=16h ("latched"). Only a transfer of
one sector answers a reported exchange with a remount (`Remount`); a burst that
fails, for this or any reason, resets the drive and goes on one by one
(`BurstFails`). Bursts are a call's own ("data": AH=3Fh's direct reads and
read-ahead, EXEC's loads); what the kernel loads for itself goes sector by
sector. `slipped` is history: the floppy whose report such a reset cleared, until
the next remount.

**`Int21Entry`.** `acts` is what the processor is in the middle of, innermost
last: programs, calls, waiting EXECs, exits, handlers, callbacks. The kernel's
stack is levels, one per waiting EXEC. The windows in which InDOS is zero while a
frame is in use are contexts of their own (`launch`, `exit`, `resume`).

**`SitePages`, `BootPage`, `EmulatorPage`, `SiteApp`.** The routes, files and
links of all pages as sets; the walkthrough with its lock, its timers and the
browser's observer; the run page with its machines, of which replaced ones may
go on reporting; and App, which mounts them on each load and composes them.

**`SiteBuild`.** The build step by step, each of which may fail, over an output
directory that an earlier build left; publication; and a browser that caches
pages and images by URL. What a file holds is the number of the build that
wrote it.

The operators named "mutant" in a comment are wrong versions of the operator
that follows them. They are used by nothing; each shows which mistake in the
code a property would catch, and PROJECT.json pairs them.

`MCxxx` modules only give constants their values.

## Runs

| Run | Asks | Instance |
|---|---|---|
| `program_loader` | does any sequence of memory calls, EXECs and exits break the tiling of the chain, another process's block or the nesting of EXECs; do exits and failed EXECs leave anything behind; is the size a failed AH=48h reports grantable | 12 paragraphs, requests of 1, 2 and 3, three program files, three programs deep, with load-only EXEC and AH=50h |
| `handle_table` | do the slots implement a handle table per process | four slots (one of them a standard handle), two files and the console, two programs deep |
| `fat_volume` | are chains disjoint, complete and long enough, do cached positions name the right clusters, and is space refused only when there is none | 3 clusters of two units in two FAT sectors, two files of at most two clusters, one handle, two shared cache slots |
| `fat_faults` | do the FAT copies stay together and commits last, with any one transfer of each call failing | 2 clusters in two FAT sectors, transfers 1 to 5 may fail |
| `directories` | does any call, failing or losing power at any transfer, leave a tree that is not sound, in memory or on the disk; do searches miss names while slots change | 2 clusters, 2 root slots, 3 slots to a sector, 2 names, one faulty call |
| `sector_io` | are sectors moved in order, are bursts inside track and page, does every request end | tracks of 3, two heads, two cylinders, a page of four sectors, requests of 1, 2 and 5 sectors at aligned and unaligned buffers |
| `sector_cache` | is a window ever stale, an unsaved sector stranded, a read wrong | a floppy and a hard disk of two sectors, sectors of two parts, two writes |
| `int21_entry` | does anything get between the steps of a call, a call come back wrongly, a count go wrong | four programs deep, eight contexts on top |
| `media_change` | are geometry, buffers and directory of one disk; is an exchange noticed | two floppies, a hard disk and a CD, FAT and root directory of two sectors each, two exchanges, both kinds of BIOS |
| `media_remount` | a violation of what the repository says; see *Findings* | the same |
| `site_app` | is a jump undone, a status another machine's, a boot never answered | three jumps and three boots between loads, six contents of the observer's band |
| `site_build` | is what is published one build, with its own image, and the excerpts resolved | three builds |

Why these bounds are enough to be worth something:

* *Memory.* An arena of twelve paragraphs holds four blocks with their headers
  between and leaves room to split, to merge on both sides and to run out; three
  levels are a parent that waits while its child's child exits. Requests of zero
  are left to the theorem `ChainAlwaysTiles`, which has every size.
* *Handles.* Four slots hold a root and two aliases, as the promotion of an alias
  with another alias left needs, and a free one or another file; two levels are a
  child that inherits.
* *FAT.* The window must be evicted in the middle of a chain, so the clusters
  span two FAT sectors; the search must wrap, so the volume fills; a cluster of
  two units makes a size that ends inside one; two files make cross links
  possible. `ChainSlots` is 2 (the code has 4) so that positions collide. One
  handle suffices: a second one would be on another file, and has nothing
  shared with the first but those slots.
* *Directories.* Three slots to a sector leave one beside the dots, so that a
  second entry makes a subdirectory grow; two clusters let one directory grow or
  two nest and the volume fill; two names make duplicates and reuse of slots
  possible. A call has at most `MaxIo` transfers there, so every one may be the
  one that fails.
* *Sector I/O.* A request of five sectors crosses tracks, heads and the page; the
  addresses include a page's start, its last sector and an unaligned one. The
  starts go past the end of the disk.
* *Sector caches.* Two drives of which one is a floppy (saved at once), two parts
  of a sector (a partial write keeps the other), two writes (an old and a new
  content), two slots (they wrap), a window of two sectors (it reads ahead).
* *INT 21h.* Four programs and eight contexts hold every pair of windows and a
  handler inside a handler; more adds no new neighbour.
* *Media.* Two sectors to each buffer leave one half loaded; two exchanges bring
  the first floppy back, and let one happen inside the remount of the other.
* *Site.* Three jumps or boots are one whose timer is armed, one that replaces
  it and one after; three builds are one published, one failed over it, one more.

`CHECK_DEADLOCK FALSE` is in the runs of the memory, the handles and
`int21_entry`, where the system halts when the first program exits (the loader
model also stops where a failed load leaves a dead PSP current, and
`int21_entry` once a frame in use was overwritten); in `directories`, which stops
when the machine is off or a call wrote upon a sector it could not read; and in
`site_build`, where the builds are bounded.

Bounds that are in the modules: `MaxDepth` and `MaxPrograms` (programs inside one another),
`MaxContexts` (handlers and calls on top of them), `MaxSize` (positions in a
file), `MaxWrites` (writes, which are numbered so that contents differ),
`MaxAsks` (disk changes and user retries in a request), `Faults` (which transfers
of a call may fail; at most one does), `MaxIo`, `MaxFaults` and `MaxSearchFaults` (transfers of a
directory call, the calls in which one fails, and those of them before or during a
search), `MaxSwaps` (exchanges),
`MaxJumps`, `MaxBoots`, `MaxBuilds`.

### Properties worth reading first

* `RefsExact` and `ImplementsOpenFiles` (handles): counts equal the references
  there are, at every depth, through promotion of aliases and half-failed EXECs.
* `NoCrossLinks`, `NothingLost`, `ChainsCoverSizes` (volume): the three ways a
  FAT goes wrong.
* `PositionsRight`: every shared or private chain position, also of files that
  were closed, is where it says. Everything that frees must forget.
* `MirrorsAgree`, `CommitsAreDurable`: with transfers failing at every point.
* `TreeIsSound`, `DiskIsSound`, `ImplementsNameTree` (directories): in memory
  after any failure, on the disk at any moment, and as a tree of names in which
  calls are whole; `SearchesAreComplete` is what a DOS program that deletes while
  it searches relies on.
* `WindowsAgree`, `ImplementsStore` (caches): a window of any drive, not only of
  the active one, shows what was written last, and what is unsaved can be saved.
* `OneVolume`, `SwapsAreNoticed` (media): the second says when a call works on
  the floppy that is in the drive, and by its hypotheses when it may not: a call
  that switched to the drive always does, one on the drive that was active unless
  a burst has cleared the report of an exchange (see *Findings*).
* `CallsComeHome` (INT 21h) names every window in which a frame in use can be
  overwritten, and the one way a return goes astray; `CountsMatch` is what makes
  polling InDOS sound.
* `LargestIsGrantable`, `FailedExecRestores`, `ExitCoalesces` (memory): what
  programs rely on when they retry, or start another program after a failure.
* `JumpHolds`, `BootIsAnswered`, `BootsNoOlderImage` (site): timers and caches
  that outlive what they are about.

### Environment

The models restrict programs to what DOS programs do, where the code does not
protect itself:

* AH=49h and 4Ah act on the program's own blocks, and a program does not free
  the block it runs in (the kernel checks no owner).
* Programs use handles that they have open by their own job file table, and
  duplicate over free slots or their own (no call looks at the table on use).
* A file that is open for writing is not opened a second time: two handles have
  their own size and first cluster each, and truncating one leaves the other on
  free clusters.
* Directories and open files do not share clusters, and a file that is open is
  not deleted (the kernel refuses): a directory write never hits the sector that
  the entry of the call failed to save (`busy`).
* In `Directories` files are closed. `WriteFile` gives an empty one its first
  cluster; a sector of a subdirectory may fail to be read even when it is cached;
  in the run one call in a behaviour is faulty, and no search begins after it or is
  under way then (the theorems have any number of faulty calls, before searches and
  among them); the transfers of a search itself succeed.
* The floppy is not exchanged under `SectorCache`; in `SectorIo` it may be, and
  the transfer goes on or fails as the code says; `MediaChange` has what follows.
* Floppies have one layout and begin their root directories differently (the
  media check compares the first sector); the machine was started from the hard
  disk; the flush of the FAT is one transfer.
* Handlers of hardware interrupts end no program, a resident's is not entered
  twice and calls DOS only while InDOS is zero; INT 23h and INT 24h handlers start
  no program.
* Transfers that fail leave the sector on the disk as it was.
* On the site, what the browser, React and the emulator library do is external:
  an observer reports what entered or left its band, late and in any order with
  timers; a library may be missing, throw, fail or never answer.

### Fairness

Two properties are liveness.

`RequestsEnd` (`sector_io`) is under `WF_vars(Transfer)`: inside a request the
kernel only waits for INT 13h and INT 24h, which return; nothing else runs
meanwhile. How often users change disks or ask for a retry is bounded by
`MaxAsks`, since with neither bound the loop indeed has none.

`BootIsAnswered` (`site_app`) is under weak fairness of the two timers, which a
browser runs when they are due: nothing is assumed of the emulator, which may
never report, nor of the reader.

No call of the other models waits for anything: a call is one action or a finite
sequence of steps.

## Findings

1. `media_remount` — a change-line error while `activate_drive` loads the FAT of A:
   remounts the disk inside the load. `floppy_media_remount` uses the load's own
   `drive_load_lba` and does not restore it (`kernel.asm:1554`), so that the load
   goes on with sectors of the data area, and answers success. Its comment says
   that the state of the transfer in flight survives.

Divergences that reading and earlier runs showed and that no run is about now;
where a model would meet one, its environment or a property excludes it by name:

* *Programs.* AX=4B01h that fails after the PSP is built frees both blocks and
  leaves `cur_psp` naming the freed one (`int21.inc:2095`, against
  `meta/issues/release-inherited-handles-on-exec-failure.md:5`). A block of zero
  paragraphs ends the exit's freeing walk early; AH=49h merges forward only, and
  the resident exit can leave free neighbours (`ExitCoalesces` is therefore about
  `Terminate`).
* *Handles.* A close through the last alias whose save fails has already given up
  the alias: the retry gets error 6 and the root slot stays behind
  (`path_dir.inc:395` and `:446`; `tests/programs/f16ferr.asm:48` tests a retry
  without an alias). `HandleTable` with `FlushFails = TRUE` shows it.
* *Files.* A FAT sector that cannot be read is taken for the end of the chain
  (`fat.inc:95`): the write that follows cuts the rest of the file off
  (`fs.inc:247`) and it and the close answer success (`fat.inc:430`). Re-creating a
  file frees its clusters before its entry stops naming them; when the FAT flush
  fails the entry stays on free clusters (`int21.inc:2510`, against
  `meta/issues/improve-fat-write-durability-and-rollback.md:10`). A truncating
  write through one handle leaves a second handle on free clusters
  (`int21.inc:3785`). On FAT12 a read error that is still pending makes `flush_fat`
  answer it without writing, and forget that the table is dirty (`fat.inc:425`). A
  write past the end on a full disk answers error 5 instead of a short count.
* *Directories.* The same FAT error makes `find_dir_free` (`path_dir.inc:1534`)
  link a new cluster in the middle of a directory, and `dir_is_empty`
  (`path_dir.inc:1844`) take a directory for empty. A directory sector that cannot
  be read is "not found" (`path_dir.inc:1343`), so that create, mkdir and rename
  give a name twice. Both are `mistook` in `Directories`, which stops there. A mkdir
  in a subdirectory whose last write fails keeps its cluster (`int21.inc:2355`); a
  delete or rmdir in the root whose write fails has deleted the entry in the
  buffer and frees nothing (`int21.inc:3889`): `leaked`.
* *INT 21h.* InDOS is zero while a frame of the kernel's stack is in use: during
  an exit (`int21.inc:558`, `kernel.asm:2033`), between EXEC's decrement and the
  lowering of `kstack_base` (`exec.inc:1817`, `:1859`), and before the parent's
  EXEC counts itself again (`int21.inc:2022`); `docs/site/page_dosapi.jsx:259` tells
  residents to poll it. A handler that ends its program with AH=4Ch inside
  INT 23h or INT 24h leaves its call counted (`kernel.asm:398`).
* *Media, bursts.* `sector_io_loop` does not look at AH when a transfer of more than
  one sector fails (`disk.inc:58-64`): it resets the drive and tries single sectors.
  When the error is 06h the reset clears the change line, the single sectors
  succeed and nothing is remounted: the read answers success with sectors of the
  new disk at the old one's clusters, and the next media check finds the line
  clear and stamps the old FAT and root directory as current. The requests that
  do this are the direct reads and the read-ahead of AH=3Fh (`int21.inc:3174`,
  `:3287`) and the loads of EXEC and overlays (`exec.inc:1242`,
  `path_dir.inc:2280`). `docs/site/page_casestudies.jsx:117` says that such a read
  "fails with error 06h, the kernel remounts the volume and retries", `:132`
  "Swaps are seen", and `meta/issues/use-multi-sector-bios-reads-for-fat-io.md`
  asks of the bursts to "Preserve floppy and hard-disk correctness, including
  media-change". `BurstFails` models it, and `SwapsAreNoticed` without its
  exception (`slipped = NoDisk \/ drive_prev # A`) is violated by it. A switch to
  another drive and back loads the new disk's buffers under the old one's geometry
  and working directory; that is the exception of `OneVolume`, which holds of the
  buffers all the same.
* *Media.* A remount inside a switch sets `drive_req` to the old drive, so that
  the switch makes that number active with the floppy's geometry; a remount that
  fails leaves the old buffers and a cleared change line (`kernel.asm:1207`); that
  the old drive's buffers come back after a failed switch is not looked at
  (`kernel.asm:1489`); with a BIOS of the latched kind a switch to an exchanged
  floppy loads its FAT and root but keeps the old geometry and working directory;
  a write in flight is repeated on the new disk (`disk.inc:71`).
* *Site.* `app.js` is bundled from the unresolved docs, so that gutters made in
  the browser show anchors' names (`build_site.jsx:304`); excerpts of the DOS API
  page name their source in a way the resolver does not look for
  (`resolve_doc_anchors.py:37`). The observer's one report of where a jump arrived
  is dropped while its lock holds, so that the panel does not follow
  (`page_boot.jsx:52`). A machine whose download failed is called stalled later,
  and one that was replaced while loading may still report
  (`v86machine.jsx:84`). `app.js` has no version in its URL.

## Proofs

All are for every value of the constants that satisfies the modules' named
assumptions. Where a theorem needs more, its statement says what as a hypothesis,
and the paragraph on it says why: that no program asks for zero paragraphs (four of
`ProgramProofs`), that files can be saved and that a word can count the
references (`HandleTableProofs`), that no transfer fails (six of
`FatVolumeProofs`). Nothing else is assumed. The theorems on directories need no
hypothesis: they hold whichever transfers fail.

**`ProgramProofs`**, of `ProcessMemory` — begins with lemmas about the chain. `Sound(a)`: the
headers tile the arena and only the last is 'Z'. Each operator that changes a chain keeps it sound
and leaves the owner and size of every block outside a stated set alone
(`Untouched`): `CarveSound`, `AbsorbSound`, `SplitLowSound`, `SplitHighSound`,
`MergeFreeForwardSound`, `ReleaseSound`, `SweepSound`, `AllocSound`,
`ResizeSound`. The hard one is `AbsorbSound`, which merges a whole run of free
blocks; its end exists because headers are natural numbers with a maximum. A
second group is about what the chain can grant: no operator makes a block of zero
paragraphs that was not asked for, a block's room survives the release of others
(`Covers`, `Roomier`), and a sweep leaves no two free blocks side by side.

On them stand `Inductive`, and from it `TypeCorrect`, `ChainAlwaysTiles`,
`ProcessesKeepTheirBlocks`, `ResidentsKeepTheirBlocks`, `ExecsAlwaysNest`, `OthersAreUntouched`, about the specification of
`ProcessMemory` (the run checks the same formulas of `ProgramLoader`, which
extends it). The invariant is the conjunction of those parts with two more: a
resident program is no longer a process (so no exit sweeps its block), and before
the boot there is none. No part is inductive alone: an exit keeps residents'
blocks because processes hold their own; it has a process to return to because
EXECs nest; every walk needs the tiling. One lemma per action, each by the arena
lemma it uses.

`OwnersAreAlive`, `LargestIsAlwaysGrantable`, `ExitsCoalesce` and
`FailedExecsRestore` are proved of programs that never ask for zero paragraphs.
The hypothesis names what the code does not guard against: a request of zero gives
a block of zero paragraphs, and the exit's walk stops at one (see Findings), so that
blocks behind it keep a dead owner. The run has no such request either. The invariant
`Alive` adds to the first that no block is empty and that every owner lives. That
a failed EXEC leaves as much room as there was compares the chain before its
first allocation with the one after its last release through what is taken
meanwhile (`Taken`): blocks can only have been merged.

**`SectorProofs`**, of `SectorIo` — `IoTypeCorrect`, `SectorsMoveInOrder`,
`BurstsAlwaysFit`, `UserIsAskedInTime`, `TransfersImplement` (the refinement of
`SectorService`, initial state and steps). The invariant adds to the properties
what each phase of the loop knows: that what is left of the request is the rest
of what is wanted (`Progress`), that failures and tries add up (`TriesAddUp`),
and what a call in flight names (`PhaseInv`). The arithmetic (tracks, pages,
CHS and back) is in lemmas about `div` and `mod` over named quantities. That a
retry's single sectors stay in the page although they skip the page check rests
on the assumption on buffers in `InPage`, which the callers in `int21.inc`,
`exec.inc` and `path_dir.inc` establish. That sectors move in order and that the
user is asked in time are proved and not in a run: the refinement that the run
checks implies the first.

**`SiteProofs`** — of the browser: `Safe`, and from it `SiteTypes`, `JumpsHold`,
`LocksAreTheLastJumps`, `StalledAreTheLastBoots`; and `LinksAlwaysLand`, that no
link of any page leads to the overview that stands in for an unknown route.
`JumpHolds` is inductive only with `LockIsTheLastJumps` (the lock is armed exactly
while the last jump's timer is), and `StalledIsTheLastBoots` only with "no timer
but the last boot's is armed", which is what the effects' cleanups are for.

Of the build: `BuildIsSafe`, and from it `TypeCorrect`, `PublishedIsAlwaysOneBuild`,
`LinksAlwaysNameTheImage`, `NoOlderImageBoots`, `PagesAlwaysShowNumbers`, for any
number of builds. The
invariant is one part for each stage a file goes through: `BuildInv` (what is in
the output at each step is of this build or older, and whole when built),
`SiteInv` (what is published), `ReaderInv` (a cached image is never older than
the URL it is cached under). That pages show numbers is a second invariant
(`NumbersInv`): once the resolver has run, every file the build has written since
is from resolved pages, or from the bundle, which has no gutters.

**`ProgramProofs`**, of `Int21Entry` — `EntryTypeCorrect`, `CountsAlwaysMatch`,
`OnlyHandlersEverNest`, `CallsAlwaysComeHome`, for any number of programs and of
contexts on top of them. The invariant describes how contexts stand on one
another, for the number `w` of EXECs that wait: at the bottom `w` pairs of an EXEC
and its program, whose levels and bases are consecutive (`Waits`); on top of them
only what runs on the innermost program, where of the calls the lowest alone has
switched the stack (`TopRule`); one callback at most, while the flag that refuses
its calls is set (`MouseRule`); and after a call was abandoned only the parent's
EXEC is left to return (`LeakRule`). The counts follow from the first two
(`DepthIs`, a bijection), and so does what a call that switches may overwrite
(`NothingInUse`, `OverrunIs`). `PushKeeps` and `PopKeeps` are the cases of most
actions; EXEC, start, exit and the return to the parent have a lemma each.

**`SectorProofs`**, of `SectorCache` — `Safe`, and from it `TypeCorrect`, `WindowsAlwaysAgree`,
`SavedIsAlwaysOnDisk`, `Implements` (the refinement of `SectorStore`, initial
state and steps), for any drives, sectors and transfers that fail. The
invariant says of the record of caches that it is sound for the active drive
(`Good`: each window that is valid holds what was written last to its sectors),
and between the steps of a call whose sector an unsaved one may be: a call other
than AH=40h writes directory sectors only after it has failed to save another
(`BusyRule`). Each step of the transfers either leaves what is held the same
(`SameHeld`) or changes one sector, which is also what the refinement needs.

**`MediaChangeProofs`** — `Inductive`, and from it `TypeCorrect`, `HoldsOneVolume`,
`NoSwapIsMissed`, for any number of floppies and exchanges. Between calls the
buffers are of one volume; inside one they are not, so the invariant says what
holds at each phase of the switch by what stands on top of the stack of calls:
`Resting`, `Flushing`, `Calling`, `Loading`, `AfterLoad`, and while a load runs
which disk it reads (`Source`). A load begins by forgetting (`LoadBegins`) and is
whole when its last part was read (`LoadMakesWhole`); a floppy that is exchanged
under it raises the change line, and the next transfer of the load sees it. A burst
may clear the line with the old disk still in the buffers, so the invariant speaks
of the floppy that was in the drive when its line was last cleared (`Known`: the
one the drive table has, or the one that has slipped in), and of calls that
switched drives since as having caught up with it (`CaughtUp`). All of it holds
until the first event that the properties exempt (`spoiled`).

**`HandleTableProofs`** — `Inductive`, and from it `TypeCorrect`, `RefsAlwaysExact`,
`NothingLeaks`, `Implements` (the refinement of `OpenFiles`, initial state and
steps), for any number of slots, standard handles, files and programs inside one
another. The references to a root are a set of pairs (`RefSet`): `<<0, h>>` for a
handle h in use, `<<p, h>>` for its copy in the job file table of a descendant p.
Every operation is a lemma on how that set changes: by one pair for a handle made
or closed (`Adding`, `Dropping`), by one level for an EXEC or an exit (`Deeper`,
`DeeperCounts`), by renaming the root when its lowest alias takes its place
(`PlaceTaken`). The invariant `Sound` says that every count is the size of its set
(`Counted`), and four things it cannot do without. `Owned`: what is in use is open in
the process that owns it. `Opened`: what a process has open is its own, inherited,
or the console; from it follow the views of the ancestors, which a descendant that
redirects a standard handle must not change. `ClosedRoots`: a root whose handle is
closed is open in nobody from its owner on, so that reviving it shows nobody a file.
`AliasesOwned`: an alias belongs to the root's owner or a descendant, so that an
exit never leaves a root without an owner. What an exit closes is an induction over
the slots (`CloseOwnedKeeps`). The calls on a handle of the running process's own share
one lemma (`OwnActs`): nothing but that handle of that process looks different, which
is also the step of `OpenFiles`.

Two hypotheses. `NoFailures`: files can be saved; when one cannot, a close through
the last alias has already given the alias up and the counts are not exact (see
Findings). `WordHolds`: (`MaxDepth` + 2) · `MAX_HANDLES` < 65536; the table has 20
slots (`kernel.asm:41`), and of the smallest processes, a PSP and its header of 17
paragraphs, 640 KB hold 2409.

**`FatTableProofs`** — what each routine of `fat.inc` does to the table, for
`FatVolumeProofs` and `DirectoriesProofs`: a transfer, the flush, the load of a
window (`Kept`: what entries read as does not change, and the first copy changes to
what they read as, if at all), an entry set, the search for a free cluster
(`Allocates`), the walk that frees a chain (`FreedUpTo`). A loop is a recursive
function on numbers of turns, about which one lemma (`Upwards`, by `WFMin`) says that
what each turn keeps holds at the end.

**`FatVolumeProofs`** — `Sits`, and from it `VolumeTypes`, `CopiesMirrored`,
`CommitsLast`, for any number of clusters, sectors, copies, files and handles, and
whichever transfers of whichever calls fail. A call is one step that runs a whole
handler over a record of the volume, so that the proof is mostly lemmas on what
each helper does to that record, one for each: the window (`Get`, `Set`, `Flush`:
what a cluster's entry reads as, `View`, changes in the one place it should, and what
is written goes to every copy that the transfer reaches), the search for a free
cluster, the walk along a chain and its cached positions, a chunk of a write, the
cut of a chain, the directory and table saves. The invariant `Sitting` between calls: `Sound` of the table (the
window holds whole sectors of it, and where nothing is unsaved the copies agree
with it and each other), and every cluster number that a handle, an entry or a
cached position holds is a cluster or none, never a table marker that a failed
read left there.

`Rests`, and from it `ChainsAreSeparate`, `NoClusterIsLost`, `SizesAreBacked`,
`PositionsStayRight`, `NoRoomMeansFull`, are about the same specification when no
transfer fails (`Faults = {}`, as in the run `fat_volume`). The hypothesis is what
the code needs: a sector of the FAT that cannot be read is taken for the end of a
chain, and what is written then cuts the chain off (see Findings). What a chain is
would be an induction along the table; instead the invariant `Resting` says that
there is a layout of the clusters: an owner and a place for each, and a first
cluster and a size for each file. `Linked` has all that a table must say for a
layout: an entry that names a cluster names the owner's next, every place but the
first has one that names it, no two clusters have one place, and a first cluster is
at place 0. From it follow that places have no gaps (`NoGaps`), that the last in a
chain has the highest place (`LastOne`), and that there are fewer places than clusters
(`PosBound`, an injection), which is what ends the walk that frees a chain. The rest
of the invariant ties the volume to the layout: a cached position is the place of the
cluster that it names (`Positioned`), open handles and entries have the file's first
cluster and size unless a writer has them unsaved (`HandleAgrees`, `EntryAgrees`), a
writer is the file's only handle (`Exclusive`), and each file has a cluster for its
last unit (`Backed`). What a call does to the table is then a change of layout:
a cluster joins a file at the end or as its first (`JoinedLinked`,
`FirstJoinedLinked`), a file is emptied or cut at a place (`EmptiedLinked`,
`ShortenedLinked`), or has another size; `FreeChainFrees` says that the walk which
frees sets free exactly the clusters from a place on. Each step of each call takes a
volume that is `Fine` for one layout to one that is `Fine` for the next, and the
search that finds no cluster has found none free (`Full`), which is
`ShortOnlyWhenFull`. Last, the chain that the properties follow along the table is
the set of the clusters that a file owns (`ChainIs`).

**`DirectoriesProofs`** — `TypeCorrect`, `Always`, and from it `TreesAreSound`,
`NoNameIsMissed`, `CallsAreWhole` (the refinement of `NameTree`, initial state and
steps), for any number of clusters, slots, names and copies of the FAT, whichever
transfers of whichever calls fail, in searches too as far as other calls go. What the
code does with a directory is to walk: along chains, over slots, down from the root.
None of the walks is followed in the invariant. It says that there is a layout of the
clusters: for each the file or directory it belongs to and its place in that chain,
and for the first of a chain the slot its entry stands in and how deep it is below the
root. Slots, table and layout that fit together are `Good`, in four parts: chains
(`GoodChains`), the dots (`GoodSlots`), entries and the chains they name
(`GoodEntries`), names and unused slots (`GoodNames`). The invariant `IInv` is the
types, a layout that is `Good` for the root in memory, the clusters on the disk and
the table as it reads, no cluster in use outside it unless a call has leaked one, a
current directory in it, and a search that fits it (`SearchFits`): the names given
stand before the place where it goes on, the names due behind.

What the properties walk is then known without walking: `SlotsOfIs` (a directory's
slots along its chain are those at the layout's places), `HoldingsIs` (what is reached
from the root is what the layout holds, by rank). Each routine has a lemma: a scan ends
at the first slot that is sought (`ScanIs`), `find_dir_free` finds a slot with no unused
one before it, grows the directory by a cleared cluster, or takes the growth back
(`FindDirFreeIs`), a removal deletes the entry and frees its chain (`RemoveEntryIs`). A
sector that could not be read makes each of them silent (`unread`): when the call then
changes anything, `mistook` is set, and when it does not, the layout still stands. A
call is a change of `Marks`, the names with their places: one more (`Created`, `Made`),
one fewer (`Unmade`), one changed (`Retitled`), or none; that is a step of `NameTree`,
and it moves no entry across the place where a search goes on (`GrewFits`,
`ShrankFits`).

Only model-checked so far: `DiskIsSound`, which needs a second layout, of the root and
the first FAT copy on the disk, through every step of every call.

Out of the prover's reach: liveness under fairness (`RequestsEnd`,
`BootIsAnswered`); what a function defined by recursion over data computes for
every input. Recursion over natural numbers is within reach where a least
counterexample can be named (`WFMin` over `<`, as `ProgramProofs` does for the end of
a run of free blocks, `HandleTableProofs` for the slots that an exit closes one after
the other, and `FatTableProofs` for the turns of a loop), and a walk along data where
the invariant can say where it leads (the layouts).
No module declares a recursive operator.

## What is left out

Of the modelled parts:

* *Memory.* Relocation, the text fields of the PSP, FCBs and the command tail.
* *Handles.* Load-only children and AH=50h.
* *FAT.* Bad-cluster markers, the guard against cyclic chains, the hint found at
  mount; what data sectors hold.
* *Directories.* The resolution of paths, 8.3 names and their characters,
  attributes, wildcards (a search is for every name), times, and the FCB calls. A
  name is a model value, a directory a number, and a path one step.
* *Sector I/O.* The remount of a changed floppy inside a transfer is one of its
  outcomes here; what it does is in `MediaChange`.
* *Caches.* Segments and offsets in the buffers, the splitting of direct reads at
  clusters.
* *Media.* The cached chain positions, the handles that are open and the writes in
  flight on the disk that was taken out: they stay, and reach the new disk.
* *INT 21h.* What the frames hold, and children that are only loaded.
* *Site.* Its text, layout and styles, and what the emulator shows.

## What is left

Next to model, in order:

1. files on an exchanged disk: `FatVolume` over `MediaChange`, for the chain
   positions, open handles and pending writes that outlive a floppy;
2. `ExtendedMemory`: XMS and EMS tables with the stack of EXECs, where every exit
   frees what a waiting parent holds;
3. `CdCache`: the four sectors and the media state of the CD-ROM;
4. `BatchFiles`: the shell's nested batch files over handles;
5. the installer's sequence; paths and wildcards over `Directories`.

Next to prove: `DiskIsSound`; then which of the properties of chains in files are left
when transfers fail.

## Not modelled

* *Console, clock, FCB and country calls*: I/O and conversions; no state of theirs
  interacts with another component's.
* *Kernel start and boot sector*: run once, in a straight line, before anything
  that could interleave with them.
* *Utilities* (FREE, LOADFIX, TIME), *image builders and tests*: they use the
  system, and keep no state of their own.
* *The site's text, styles and local server*: nothing depends on the order of
  anything there.
* *Extended memory, CD-ROM, shell, installer*: left for later, see above.
