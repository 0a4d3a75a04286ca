----------------------------- MODULE MediaChange -----------------------------
(***************************************************************************)
(* The switch between drives, and floppies that are exchanged: what the    *)
(* kernel holds of the active drive (its geometry, a floppy's FAT, the     *)
(* root directory, the working directory), how activate_drive loads it,    *)
(* and the two ways in which an exchanged floppy is noticed: the media     *)
(* check of a call on the active floppy, and the change-line error of a    *)
(* transfer of one sector, which remounts the disk in the middle of what   *)
(* was going on.  The error of a burst remounts nothing: the reset before  *)
(* its sectors are tried one by one clears the change line.                *)
(*                                                                         *)
(* stack is what waits for a transfer, innermost last: the transfers       *)
(* themselves by the buffer they are for ("probe", "boot", "fat", "root",  *)
(* "flush", and a call's own: "data" for sectors that may go in bursts,    *)
(* "single" for those that go one by one), and the routines that wait for  *)
(* a load: "switch" and "restore" in activate_drive, "reload" in           *)
(* floppy_media_remount, "check" in floppy_media_check.  ret is what a     *)
(* routine answers to the one below.                                       *)
(*                                                                         *)
(* A sector in a buffer is named by the disk and the place it was read     *)
(* from.  Floppies have one layout.                                        *)
(***************************************************************************)
EXTENDS Naturals, Sequences, SequencesExt

CONSTANTS
    Disks,      \* floppies
    NoDisk,     \* none of them
    kfat_secs,  \* sectors of a floppy's FAT
    krsc,       \* sectors of a root directory
    HardDisk,   \* the disk in C:
    Disc,       \* the disc in D:
    MaxSwaps    \* bound: exchanges of the floppy

ASSUME MediaChangeAssumption ==
    /\ Disks # {} /\ HardDisk # Disc /\ {HardDisk, Disc, NoDisk} \cap Disks = {}
    /\ kfat_secs \in Nat \ {0} /\ krsc \in Nat \ {0}
    /\ MaxSwaps \in Nat

VARIABLES
    bios,               \* "line": transfers report an exchange; "latched": only AH=16h does
    inserted,           \* the floppy in the drive
    line,               \* the change line: exchanged since the last reset
    swaps,              \* exchanges so far
    geometry,           \* kdrv and the disk whose BIOS parameter block is in use
    slots,              \* the drive table: each drive's saved geometry, by its disk
    cwd,                \* drive_cur_clusters: the root, or a directory of a disk
    cur_dir_cluster,    \* the same for the active drive
    active_drive_num, drive_req, drive_prev, drive_load_lba,
    FatBuf,             \* FAT_SEG, by sectors
    RootBuf,            \* ROOT_SEG, by sectors
    root_buf_drive,     \* the drive it is of
    recent,             \* floppy_check_tick is less than 36 ticks ago
    stack, ret,
    answer,             \* what the last call answered
    asked,              \* history: the drive it was for
    verified,           \* history: it looked at the floppy, not exchanged since
    slipped,            \* history: the floppy whose change a burst's reset has cleared,
                        \*          until a remount
    spoiled             \* history: nothing is promised of the buffers any more

driveVars == <<geometry, slots, cwd, cur_dir_cluster, active_drive_num>>
bufferVars == <<FatBuf, RootBuf, root_buf_drive, drive_load_lba>>
floppyVars == <<bios, inserted, line, swaps>>
callVars == <<stack, ret, answer, asked, verified, spoiled>>
vars == <<floppyVars, driveVars, bufferVars, callVars, drive_req, drive_prev, recent, slipped>>

A == 0
C == 2
D == 3
Drives == {A, C, D}
NoDrive == 255
ROOT_CLUSTER == "root"

kfat_start == 1
krsta == kfat_start + kfat_secs

Sector(disk, lba) == [disk |-> disk, lba |-> lba]
(* What is read through the geometry in use. *)
Medium == IF geometry.drive = A THEN inserted ELSE geometry.disk

-----------------------------------------------------------------------------
(* Frames *)

Transfers == {"probe", "boot", "fat", "root", "data", "single", "flush"}
Transfer(at, lba, es) == [at |-> at, lba |-> lba, es |-> es]
Waiting(at) == Transfer(at, 0, 0)

Idle == stack = <<>>
Top == stack[Len(stack)]
Below == Front(stack)
InTransfer(at) == ret = "none" /\ ~Idle /\ Top.at = at
Awaits(at) == ret # "none" /\ ~Idle /\ Top.at = at

(* A call ends. *)
Ends(how) ==
    /\ stack' = <<>>
    /\ ret' = "none"
    /\ answer' = how

(* A routine answers the one that called it. *)
Answers(how) ==
    /\ stack' = Below
    /\ ret' = how
    /\ UNCHANGED answer

Init ==
    /\ bios \in {"line", "latched"}
    /\ inserted \in Disks
    /\ line = FALSE /\ swaps = 0
    /\ geometry = [drive |-> C, disk |-> HardDisk]
    /\ slots = [d \in Drives |-> IF d = A THEN inserted ELSE IF d = C THEN HardDisk ELSE Disc]
    /\ cwd = [d \in Drives |-> ROOT_CLUSTER]
    /\ cur_dir_cluster = ROOT_CLUSTER
    /\ active_drive_num = C /\ drive_req = C /\ drive_prev = A
    /\ drive_load_lba = krsta + krsc
    /\ FatBuf = [i \in 1 .. kfat_secs |-> Sector(HardDisk, 0)]
    /\ RootBuf = [i \in 1 .. krsc |-> Sector(HardDisk, krsta + i - 1)]
    /\ root_buf_drive = C
    /\ recent = FALSE
    /\ stack = <<>> /\ ret = "none" /\ answer = "ok"
    /\ asked = C /\ verified = FALSE /\ slipped = NoDisk /\ spoiled = FALSE

-----------------------------------------------------------------------------
(* load_active_volume_buffers of the drive of geometry g, for drive_req,   *)
(* called by the frames below: a disc has no buffers, a hard disk (FAT16)  *)
(* only the root directory, which may still be there.                      *)
Load(g, req, below) ==
    /\ IF g.drive = D \/ (g.drive = C /\ root_buf_drive = req)
         THEN stack' = below /\ ret' = "ok" /\ UNCHANGED drive_load_lba
         ELSE /\ ret' = "none"
              /\ drive_load_lba' = IF g.drive = A THEN kfat_start ELSE krsta
              /\ stack' = Append(below, Transfer(IF g.drive = A THEN "fat" ELSE "root",
                                                 drive_load_lba', 1))
    /\ UNCHANGED <<FatBuf, RootBuf, root_buf_drive, answer>>

(* activate_drive's .switch after its flushes.  A remount in them has      *)
(* changed drive_req.                                                      *)
SwitchTo(d, below) ==
    /\ cwd' = [cwd EXCEPT ![active_drive_num] = cur_dir_cluster]
    /\ geometry' = [drive |-> d, disk |-> slots[d]]
    /\ Load(geometry', d, Append(below, Waiting("switch")))

(* AH=16h *)
Changed == line \/ bios = "latched"

(* activate_drive: of another drive after its flushes, of which the FAT's  *)
(* may be a transfer to the floppy; of the same after the media check.     *)
Activate(d) ==
    /\ Idle
    /\ asked' = d
    /\ drive_req' = d
    /\ drive_prev' = active_drive_num
    /\ verified' = (d = A /\ (active_drive_num # A \/ ~recent))
    /\ IF d # active_drive_num
         THEN /\ UNCHANGED recent
              /\ \/ SwitchTo(d, <<>>)
                 \/ /\ geometry.drive = A
                    /\ stack' = <<Transfer("flush", kfat_start, 0)>>
                    /\ UNCHANGED <<bufferVars, geometry, cwd, ret, answer>>
         ELSE /\ UNCHANGED <<bufferVars, geometry, cwd>>
              /\ IF geometry.drive = A /\ ~recent /\ Changed
                   THEN /\ stack' = <<Transfer("probe", krsta, 0)>>
                        /\ UNCHANGED <<recent, ret, answer>>
                   ELSE /\ recent' = (recent \/ geometry.drive = A)
                        /\ Ends("ok")
    /\ UNCHANGED <<floppyVars, slots, cur_dir_cluster, active_drive_num, slipped, spoiled>>

(* A call on the active floppy goes on to a request of its own: several    *)
(* sectors of a file or a program, or one sector.                          *)
Access ==
    /\ Idle /\ answer = "ok" /\ geometry.drive = A
    /\ \E at \in {"data", "single"} : stack' = <<Transfer(at, krsta + krsc, 0)>>
    /\ UNCHANGED <<floppyVars, driveVars, bufferVars, drive_req, drive_prev, recent, ret, answer,
                   asked, verified, slipped, spoiled>>

(* AH=3Bh on the active drive. *)
ChDir ==
    /\ Idle /\ answer = "ok"
    /\ cur_dir_cluster' \in {ROOT_CLUSTER, IF active_drive_num = A THEN RootBuf[1].disk
                                                                 ELSE geometry.disk}
    /\ UNCHANGED <<floppyVars, bufferVars, callVars, geometry, slots, cwd, active_drive_num,
                   drive_req, drive_prev, recent, slipped>>

-----------------------------------------------------------------------------
(* Transfers *)

(* A change-line error (06h) is answered before anything is moved. *)
Reported == bios = "line" /\ line /\ geometry.drive = A

Moves(at) == InTransfer(at) /\ ~Reported

Goes == UNCHANGED <<floppyVars, asked, verified, slipped, spoiled>>

(* read_sector_loop *)
ReadFat ==
    /\ Moves("fat")
    /\ FatBuf' = [FatBuf EXCEPT ![Top.es] = Sector(Medium, Top.lba)]
    /\ LET more == Top.es < kfat_secs
           at == IF more THEN "fat" ELSE "root" IN
       /\ drive_load_lba' = IF more THEN drive_load_lba + 1 ELSE krsta
       /\ stack' = Append(Below, Transfer(at, drive_load_lba', IF more THEN Top.es + 1 ELSE 1))
    /\ Goes
    /\ UNCHANGED <<driveVars, drive_req, drive_prev, recent, RootBuf, root_buf_drive, ret, answer>>

ReadRoot ==
    /\ Moves("root")
    /\ RootBuf' = [RootBuf EXCEPT ![Top.es] = Sector(Medium, Top.lba)]
    /\ drive_load_lba' = drive_load_lba + 1
    /\ IF Top.es < krsc
         THEN /\ stack' = Append(Below, Transfer("root", drive_load_lba', Top.es + 1))
              /\ UNCHANGED <<root_buf_drive, ret, answer>>
         ELSE /\ root_buf_drive' = drive_req
              /\ Answers("ok")
    /\ Goes
    /\ UNCHANGED <<driveVars, drive_req, drive_prev, recent, FatBuf>>

(* floppy_media_remount once it has the boot sector. *)
ReadBoot ==
    /\ Moves("boot")
    /\ geometry' = [geometry EXCEPT !.disk = Medium]
    /\ cur_dir_cluster' = ROOT_CLUSTER
    /\ drive_req' = active_drive_num
    /\ Load(geometry', drive_req', Append(Below, Waiting("reload")))
    /\ slipped' = NoDisk
    /\ UNCHANGED <<floppyVars, slots, cwd, active_drive_num, drive_prev, recent, asked, verified,
                   spoiled>>

(* Mutant: the disk is taken for the same without a comparison. *)
StampWithoutComparing ==
    /\ Moves("probe")
    /\ recent' = TRUE
    /\ Ends("ok")
    /\ Goes
    /\ UNCHANGED <<driveVars, bufferVars, drive_req, drive_prev>>

(* floppy_media_check once it has the first sector of the root directory.  *)
ReadProbe ==
    /\ Moves("probe")
    /\ IF RootBuf[1] = Sector(Medium, krsta)
         THEN recent' = TRUE /\ Ends("ok")
         ELSE /\ stack' = <<Waiting("check"), Transfer("boot", 0, 0)>>
              /\ UNCHANGED <<recent, ret, answer>>
    /\ Goes
    /\ UNCHANGED <<driveVars, bufferVars, drive_req, drive_prev>>

(* The last of a request's transfers. *)
ReadData ==
    /\ Moves("data") \/ Moves("single")
    /\ Ends("ok")
    /\ Goes
    /\ UNCHANGED <<driveVars, bufferVars, drive_req, drive_prev, recent>>

(* Any error of a transfer of more than one sector, the change line's too: *)
(* kio_force_single, and a reset of the drive.                             *)
BurstFails ==
    /\ InTransfer("data")
    /\ stack' = <<Transfer("single", Top.lba, 0)>>
    /\ line' = FALSE
    /\ slipped' = IF Reported THEN inserted ELSE slipped
    /\ UNCHANGED <<bios, inserted, swaps, driveVars, bufferVars, drive_req, drive_prev, recent,
                   ret, answer, asked, verified, spoiled>>

FlushFat ==
    /\ Moves("flush")
    /\ SwitchTo(drive_req, <<>>)
    /\ Goes
    /\ UNCHANGED <<slots, cur_dir_cluster, active_drive_num, drive_req, drive_prev, recent>>

(* Mutant: the buffer keeps the tag of what it held. *)
FailsKeepingTag ==
    /\ IF Len(stack) = 1
         THEN Ends("failed")
         ELSE Answers("failed")
    /\ UNCHANGED root_buf_drive

(* A transfer that fails for good: a root directory half read is nobody's. *)
TransferFails ==
    /\ root_buf_drive' = IF Top.at = "root" THEN NoDrive ELSE root_buf_drive
    /\ IF Len(stack) = 1
         THEN Ends("failed")
         ELSE Answers("failed")

Fail ==
    /\ ~Idle /\ Top.at \in Transfers
    /\ (ret = "none" /\ ~Reported) \/ ret = "failed"
    /\ TransferFails
    /\ spoiled' = (spoiled \/ (Top.at = "boot" /\ bios = "line"))
    /\ UNCHANGED <<floppyVars, driveVars, FatBuf, RootBuf, drive_load_lba, drive_req, drive_prev,
                   recent, asked, verified, slipped>>

(* A remount that begins inside the flush or the load of a switch, or of   *)
(* another remount, uses drive_req and drive_load_lba for itself.          *)
Spoils(frames) == \E i \in DOMAIN frames : frames[i].at \in {"fat", "root", "flush"}

(* sector_io_loop on error 06h of one sector: floppy_media_remount, which  *)
(* begins with a reset.                                                    *)
Remount ==
    /\ ~Idle /\ ret = "none" /\ Top.at \in Transfers /\ Reported
    /\ line' = FALSE
    /\ stack' = Append(stack, Transfer("boot", 0, 0))
    /\ spoiled' = (spoiled \/ Spoils(stack))
    /\ UNCHANGED <<bios, inserted, swaps, driveVars, bufferVars, drive_req, drive_prev, recent,
                   ret, answer, asked, verified, slipped>>

(* The transfer is tried again. *)
Retry ==
    /\ ~Idle /\ Top.at \in Transfers /\ ret = "ok"
    /\ ret' = "none"
    /\ UNCHANGED <<floppyVars, driveVars, bufferVars, drive_req, drive_prev, recent, stack,
                   answer, asked, verified, slipped, spoiled>>

(* floppy_media_remount after its load. *)
Reloaded ==
    /\ Awaits("reload")
    /\ IF ret = "ok"
         THEN /\ cwd' = [cwd EXCEPT ![A] = ROOT_CLUSTER]
              /\ slots' = [slots EXCEPT ![A] = geometry.disk]
              /\ UNCHANGED spoiled
         ELSE spoiled' = TRUE /\ UNCHANGED <<cwd, slots>>
    /\ Answers(ret)
    /\ UNCHANGED <<floppyVars, bufferVars, geometry, cur_dir_cluster, active_drive_num, drive_req,
                   drive_prev, recent, asked, verified, slipped>>

Checked ==
    /\ Awaits("check")
    /\ recent' = (recent \/ ret = "ok")
    /\ Ends(ret)
    /\ Goes
    /\ UNCHANGED <<driveVars, bufferVars, drive_req, drive_prev>>

(* activate_drive after the load of the new drive, or back to the old one. *)
Switched ==
    /\ Awaits("switch") /\ ret = "ok"
    /\ active_drive_num' = drive_req
    /\ cur_dir_cluster' = cwd[drive_req]
    /\ Ends("ok")
    /\ Goes
    /\ UNCHANGED <<bufferVars, geometry, slots, cwd, drive_req, drive_prev, recent>>

SwitchBack ==
    /\ Awaits("switch") /\ ret = "failed"
    /\ drive_req' = drive_prev
    /\ geometry' = [drive |-> drive_prev, disk |-> slots[drive_prev]]
    /\ Load(geometry', drive_prev, <<Waiting("restore")>>)
    /\ Goes
    /\ UNCHANGED <<slots, cwd, cur_dir_cluster, active_drive_num, drive_prev, recent>>

(* Whether that worked is not looked at. *)
Restored ==
    /\ Awaits("restore")
    /\ spoiled' = (spoiled \/ ret = "failed")
    /\ Ends("failed")
    /\ UNCHANGED <<floppyVars, driveVars, bufferVars, drive_req, drive_prev, recent, asked,
                   verified, slipped>>

-----------------------------------------------------------------------------
(* The user; a BIOS that reports nothing leaves a load that was under way  *)
(* with sectors of both disks.                                             *)
Swap(disk) ==
    /\ swaps < MaxSwaps
    /\ disk # inserted
    /\ inserted' = disk
    /\ line' = TRUE
    /\ swaps' = swaps + 1
    /\ verified' = FALSE
    /\ spoiled' = (spoiled \/ (bios = "latched" /\ ~Idle))
    /\ UNCHANGED <<bios, driveVars, bufferVars, drive_req, drive_prev, recent, stack, ret, answer,
                   asked, slipped>>

(* Two seconds. *)
TimePasses ==
    /\ recent
    /\ recent' = FALSE
    /\ UNCHANGED <<floppyVars, driveVars, bufferVars, callVars, drive_req, drive_prev, slipped>>

Next ==
    \/ \E d \in Drives : Activate(d)
    \/ Access \/ ChDir
    \/ ReadFat \/ ReadRoot \/ ReadBoot \/ ReadProbe \/ ReadData \/ FlushFat
    \/ BurstFails \/ Fail \/ Remount \/ Retry \/ Reloaded \/ Checked
    \/ Switched \/ SwitchBack \/ Restored
    \/ \E disk \in Disks : Swap(disk)
    \/ TimePasses

Spec == Init /\ [][Next]_vars

-----------------------------------------------------------------------------
SectorsRead == [disk : Disks \cup {HardDisk, Disc}, lba : Nat]

TypeOK ==
    /\ bios \in {"line", "latched"} /\ inserted \in Disks /\ line \in BOOLEAN
    /\ swaps \in 0 .. MaxSwaps
    /\ geometry \in [drive : Drives, disk : Disks \cup {HardDisk, Disc}]
    /\ slots \in [Drives -> Disks \cup {HardDisk, Disc}]
    /\ active_drive_num \in Drives /\ drive_req \in Drives /\ drive_prev \in Drives
    /\ drive_load_lba \in Nat
    /\ FatBuf \in [1 .. kfat_secs -> SectorsRead]
    /\ RootBuf \in [1 .. krsc -> SectorsRead]
    /\ root_buf_drive \in Drives \cup {NoDrive}
    /\ recent \in BOOLEAN /\ verified \in BOOLEAN /\ spoiled \in BOOLEAN
    /\ slipped \in Disks \cup {NoDisk}
    /\ ret \in {"none", "ok", "failed"} /\ answer \in {"ok", "failed"}

FatIsOf(disk) == \A i \in 1 .. kfat_secs : FatBuf[i] = Sector(disk, kfat_start + i - 1)
RootIsOf(disk) == \A i \in 1 .. krsc : RootBuf[i] = Sector(disk, krsta + i - 1)

(* Between calls everything the kernel holds is of the drive it takes for  *)
(* active and of one disk in it, whatever failed on the way there: the     *)
(* geometry, the FAT, the root directory and, when exchanges are reported  *)
(* and no burst has swallowed a report, the working directory.  A call     *)
(* that answers success has the drive it asked for.                        *)
OneVolume ==
    Idle /\ ~spoiled =>
        /\ answer = "ok" => active_drive_num = asked
        /\ geometry.drive = active_drive_num
        /\ active_drive_num = A => FatIsOf(RootBuf[1].disk) /\ RootIsOf(RootBuf[1].disk)
        /\ active_drive_num = C => RootIsOf(HardDisk)
        /\ bios = "line" /\ active_drive_num = A /\ slipped = NoDisk =>
             geometry.disk = RootBuf[1].disk /\ cur_dir_cluster \in {ROOT_CLUSTER, geometry.disk}

HoldsInserted == active_drive_num = A /\ FatIsOf(inserted) /\ RootIsOf(inserted)

(* A call that succeeds and could not rely on the last two seconds works   *)
(* on the floppy that is in the drive, whichever way its BIOS tells of an  *)
(* exchange: always when it switched to the drive, and when it was active  *)
(* already unless a burst has swallowed the report (page_casestudies.jsx:  *)
(* 132, "Swaps are seen", has no such exception; the code has it).         *)
SwapsAreNoticed ==
    Idle /\ ~spoiled /\ verified /\ answer = "ok" /\ (slipped = NoDisk \/ drive_prev # A) =>
        HoldsInserted

(* kernel.asm:1148 of the remount: "The in-flight kio state survives the   *)
(* nested sector reads."  The load that is interrupted should go on where  *)
(* it was, each sector of the FAT in its place.                            *)
InFlightSurvives ==
    Idle /\ answer = "ok" /\ geometry.drive = A =>
        \A i \in 1 .. kfat_secs : FatBuf[i].lba = kfat_start + i - 1
=============================================================================
