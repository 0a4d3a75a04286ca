------------------------------ MODULE SectorIo ------------------------------
(***************************************************************************)
(* Moving sectors through the BIOS (src/src/kernel/disk.inc): a request is *)
(* cut into bursts that stay in one track and one DMA page; a burst that   *)
(* fails is retried sector by sector, and when the retries are used up     *)
(* INT 24h asks the user.                                                  *)
(*                                                                         *)
(* Memory addresses are in units, of which a sector fills SectorSize and a *)
(* DMA page Page; ES:BX is one linear address.                             *)
(***************************************************************************)
EXTENDS Integers, Sequences

CONSTANTS
    kbio_spt, kbio_heads,   \* geometry: sectors on a track, heads
    Cylinders,              \* cylinders INT 13h can name (1024)
    Word,                   \* 2^16, the first track number DIV cannot give
    Page, SectorSize,       \* units in a 64K page (2^16), in a sector (512)
    MaxBurst,               \* sectors a burst has at most (127)
    Tries,                  \* retries before the user is asked (3)
    Removable,              \* the drive is a floppy (kdrv < 80h)
    Starts, Counts, Addresses,  \* bound: first sectors, lengths and buffers asked for
    MaxAsks                 \* bound: disk changes and users' retries in a request

ASSUME SectorIoAssumption ==
    /\ {kbio_spt, kbio_heads, Cylinders, Word, Page, SectorSize, MaxBurst, Tries}
           \subseteq Nat \ {0}
    /\ MaxBurst * SectorSize <= Page
    /\ Tries < 256
    /\ Removable \in BOOLEAN
    /\ Starts \subseteq Nat /\ Counts \subseteq Nat \ {0} /\ Addresses \subseteq Nat
    /\ MaxAsks \in Nat

VARIABLES
    req,                \* the request: first sector, length and buffer
    klba, kcnt, esbx,   \* the next sector, the number left, and its place
    kret,               \* tries left
    kio_force_single,   \* a burst has failed: one sector at a time from here on
    int13,              \* the INT 13h call: cylinder, head, sector, count, address
    phase,              \* where sector_io_loop is
    asks,               \* history: disk changes and retries by the user so far
    errs,               \* history: calls that failed since the last of these
    moved               \* history: sectors moved, with their addresses

ioVars == <<req, klba, kcnt, esbx, kret, kio_force_single, int13, phase, asks, errs,
          moved>>

-----------------------------------------------------------------------------
(* The size and the place of the next burst *)

Least(S) == CHOOSE n \in S : \A m \in S : n <= m

(* Sectors until the end of the track. *)
TrackCap(lba) == kbio_spt - (lba % kbio_spt)

(* Sectors until the end of the DMA page; none when the next one straddles *)
(* it.                                                                     *)
DmaCapOfOffset(a) == MaxBurst  \* mutant: the page is not looked at

DmaCap(a) ==
    IF a % Page = 0 THEN MaxBurst ELSE (Page - (a % Page)) \div SectorSize

Burst == IF kio_force_single THEN 1 ELSE Least({kcnt, TrackCap(klba), DmaCap(esbx)})

(* INT 13h can name the sector. *)
Addressable(lba) ==
    /\ lba \div kbio_spt < Word
    /\ (lba \div kbio_spt) \div kbio_heads < Cylinders
Straddles(a) == ~kio_force_single /\ DmaCap(a) = 0

Chs(lba) ==
    LET track == lba \div kbio_spt IN
    [cylinder |-> track \div kbio_heads, head |-> track % kbio_heads,
     sector |-> (lba % kbio_spt) + 1]

(* The sector of the disk that the BIOS takes an address for. *)
SectorNumber(c) == (c.cylinder * kbio_heads + c.head) * kbio_spt + c.sector - 1

-----------------------------------------------------------------------------
NoRequest == [lba |-> 0, count |-> 0, addr |-> 0]
NoCall == [at |-> Chs(0), count |-> 0, addr |-> 0]

IoInit ==
    /\ req = NoRequest
    /\ klba = 0 /\ kcnt = 0 /\ esbx = 0
    /\ kret = Tries
    /\ kio_force_single = FALSE
    /\ int13 = NoCall
    /\ phase = "idle"
    /\ asks = 0
    /\ errs = 0
    /\ moved = <<>>

(* What callers ask for: buffers aligned to sectors, or no more sectors    *)
(* than the page holds (the direct reads of AH=3Fh and EXEC).              *)
InPage(n, a) ==
    \/ a % SectorSize = 0 /\ Page % SectorSize = 0
    \/ (a % Page) + n * SectorSize <= Page

Setup(lba, n, a) ==
    /\ phase = "idle"
    /\ InPage(n, a)
    /\ req' = [lba |-> lba, count |-> n, addr |-> a]
    /\ klba' = lba /\ kcnt' = n /\ esbx' = a
    /\ kret' = Tries
    /\ kio_force_single' = FALSE
    /\ phase' = "next"
    /\ asks' = 0
    /\ errs' = 0
    /\ moved' = <<>>
    /\ UNCHANGED int13

(* setup_bios_chs *)
Next13 ==
    /\ phase = "next"
    /\ IF Addressable(klba) /\ ~Straddles(esbx)
       THEN /\ int13' = [at |-> Chs(klba), count |-> Burst, addr |-> esbx]
            /\ phase' = "bios"
       ELSE /\ phase' = "failed"
            /\ UNCHANGED int13
    /\ UNCHANGED <<req, klba, kcnt, esbx, kret, kio_force_single, asks, errs, moved>>

FinishOne ==  \* mutant: one sector is counted, whatever was moved
    /\ phase = "bios"
    /\ moved' = moved \o [i \in 1 .. int13.count |->
                             <<SectorNumber(int13.at) + i - 1, int13.addr + (i - 1) * SectorSize>>]
    /\ esbx' = esbx + SectorSize
    /\ klba' = klba + 1
    /\ kcnt' = kcnt - 1
    /\ phase' = IF kcnt = 1 THEN "done" ELSE "next"
    /\ UNCHANGED <<req, kret, kio_force_single, int13, asks, errs>>

(* finish_sector_io after the BIOS has moved the burst. *)
Finish ==
    /\ phase = "bios"
    /\ moved' = moved \o [i \in 1 .. int13.count |->
                             <<SectorNumber(int13.at) + i - 1, int13.addr + (i - 1) * SectorSize>>]
    /\ esbx' = esbx + int13.count * SectorSize
    /\ klba' = klba + int13.count
    /\ kcnt' = kcnt - int13.count
    /\ phase' = IF kcnt = int13.count THEN "done" ELSE "next"
    /\ UNCHANGED <<req, kret, kio_force_single, int13, asks, errs>>

(* Enough to see a request that has failed too often. *)
Counted(n) == IF n > Tries + 1 THEN n ELSE n + 1

BurstFailsAgain ==  \* mutant: the next try is a burst again
    /\ phase = "bios" /\ int13.count > 1
    /\ phase' = "next"
    /\ errs' = Counted(errs)
    /\ UNCHANGED <<req, klba, kcnt, esbx, kret, kio_force_single, int13, asks, moved>>

(* A burst fails: the rest goes sector by sector. *)
BurstFails ==
    /\ phase = "bios" /\ int13.count > 1
    /\ kio_force_single' = TRUE
    /\ phase' = "next"
    /\ errs' = Counted(errs)
    /\ UNCHANGED <<req, klba, kcnt, esbx, kret, int13, asks, moved>>

(* A single sector fails. *)
SectorFails ==
    /\ phase = "bios" /\ int13.count = 1
    /\ kret' = (kret + 255) % 256
    /\ phase' = IF kret' = 0 THEN "critical" ELSE "next"
    /\ errs' = Counted(errs)
    /\ UNCHANGED <<req, klba, kcnt, esbx, kio_force_single, int13, asks, moved>>

(* The BIOS reports a changed disk: it is mounted, or the request fails.   *)
DiskChanged ==
    /\ phase = "bios" /\ int13.count = 1 /\ Removable
    /\ \/ /\ asks < MaxAsks
          /\ kret' = Tries
          /\ phase' = "next"
          /\ asks' = asks + 1
          /\ errs' = 0
       \/ /\ phase' = "failed"
          /\ UNCHANGED <<kret, asks, errs>>
    /\ UNCHANGED <<req, klba, kcnt, esbx, kio_force_single, int13, moved>>

(* INT 24h: Retry, or anything else, which all fails the request. *)
Critical ==
    /\ phase = "critical"
    /\ \/ /\ asks < MaxAsks
          /\ kret' = Tries
          /\ phase' = "next"
          /\ asks' = asks + 1
          /\ errs' = 0
       \/ /\ phase' = "failed"
          /\ UNCHANGED <<kret, asks, errs>>
    /\ UNCHANGED <<req, klba, kcnt, esbx, kio_force_single, int13, moved>>

(* The caller gets its answer. *)
UserAnswers ==
    /\ phase \in {"done", "failed"}
    /\ phase' = "idle"
    /\ UNCHANGED <<req, klba, kcnt, esbx, kret, kio_force_single, int13, asks, errs, moved>>

Transfer == Next13 \/ Finish \/ BurstFails \/ SectorFails \/ DiskChanged \/ Critical

IoNext ==
    \/ \E lba \in Starts, n \in Counts, a \in Addresses : Setup(lba, n, a)
    \/ Transfer
    \/ UserAnswers

IoSpec == IoInit /\ [][IoNext]_ioVars

(* The kernel waits for nothing but the BIOS and INT 24h, which return. *)
FairSpec == IoSpec /\ WF_ioVars(Transfer)
-----------------------------------------------------------------------------
(* Properties *)

IoTypeOK ==
    /\ req \in [lba : Nat, count : Nat, addr : Nat]
    /\ klba \in Nat /\ kcnt \in Nat /\ esbx \in Nat
    /\ kret \in 0 .. Tries
    /\ kio_force_single \in BOOLEAN
    /\ int13 \in [at : [cylinder : Nat, head : Nat, sector : Nat], count : Nat, addr : Nat]
    /\ phase \in {"idle", "next", "bios", "critical", "done", "failed"}
    /\ asks \in Nat /\ errs \in Nat
    /\ moved \in Seq(Nat \X Nat)

(* What a request asks for: each sector and its place in the buffer. *)
Wanted == [i \in 1 .. req.count |-> <<req.lba + i - 1, req.addr + (i - 1) * SectorSize>>]

(* Whatever bursts fail and wherever tracks and pages end, the sectors     *)
(* moved are the first ones of the request, each once, in order, between   *)
(* the right sector of the disk and the right place in memory; and a       *)
(* request succeeds only when that is all of them.                         *)
MovedInOrder ==
    /\ Len(moved) <= req.count
    /\ moved = SubSeq(Wanted, 1, Len(moved))
    /\ phase = "done" => Len(moved) = req.count

(* use-multi-sector-bios-reads-for-fat-io.md:18: no call crosses a track   *)
(* or a DMA page, not even the single sectors of a retry, and each names   *)
(* sectors that the request still wants.                                   *)
BurstsFit ==
    phase = "bios" =>
        /\ int13.count \in 1 .. kcnt
        /\ int13.at.head < kbio_heads /\ int13.at.cylinder < Cylinders
        /\ int13.at.sector - 1 + int13.count <= kbio_spt
        /\ (int13.addr % Page) + int13.count * SectorSize <= Page

(* The user is asked about a sector after it failed Tries times, and never *)
(* kept waiting for longer than that and one failed burst.                 *)
AskedInTime ==
    /\ errs <= Tries + 1
    /\ phase = "critical" => errs >= Tries

(* A request ends, unless disks are changed or retries asked for without   *)
(* end.                                                                    *)
RequestsEnd == phase = "next" ~> phase \in {"done", "failed"}

(* The transfers are what the rest of the kernel takes them for. *)
Service == INSTANCE SectorService WITH
    want <- Wanted,
    state <- IF phase \in {"next", "bios", "critical"} THEN "busy" ELSE phase

ImplementsService == Service!Spec
=============================================================================
