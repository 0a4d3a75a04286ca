-------------------------- MODULE MediaChangeProofs --------------------------
(***************************************************************************)
(* Between calls the kernel holds one disk's sectors, and a call that      *)
(* looked at the floppy works on the one in the drive: for any number of   *)
(* floppies and exchanges, and any size of the FAT and the root directory. *)
(*                                                                         *)
(* The invariant says, for each thing the stack can be waiting for, how    *)
(* far the buffers have been loaded and from which disk.                   *)
(***************************************************************************)
EXTENDS MediaChange, SequenceTheorems, TLAPS

(* What a routine waits on a load in. *)
Loads == {"switch", "restore", "reload"}

Ats == Transfers \cup Loads \cup {"check"}
Frame == [at : Ats, lba : Nat, es : Nat]
AllDisks == Disks \cup {HardDisk, Disc}

Types ==
    /\ TypeOK /\ stack \in Seq(Frame) /\ asked \in Drives
    /\ cwd \in [Drives -> AllDisks \cup {ROOT_CLUSTER}]
    /\ cur_dir_cluster \in AllDisks \cup {ROOT_CLUSTER}

(* The stack of a call on the active floppy: its own transfer or its media *)
(* check, and the boot sectors of the remounts that interrupted it.        *)
Calls(s) ==
    /\ s # <<>>
    /\ s[1].at \in {"probe", "data", "single", "check"}
    /\ \A i \in 2 .. Len(s) : s[i].at = "boot"

(* What may wait below the routine w while that waits for a load.         *)
Beneath(s, w) == IF w = "reload" THEN Calls(s) ELSE s = <<>>

(* The disk a load of the geometry in use reads: the floppy in the drive,  *)
(* or what is known of it when exchanges are reported.                     *)
Source ==
    IF geometry.drive # A THEN geometry.disk
    ELSE IF bios = "latched" THEN inserted
    ELSE IF slipped = NoDisk THEN geometry.disk ELSE slipped

(* The floppy in the drive when its change line was last cleared. *)
Known == IF slipped = NoDisk THEN slots[A] ELSE slipped

FatUpTo(n) == \A i \in 1 .. kfat_secs : i < n => FatBuf[i] = Sector(Source, kfat_start + i - 1)
RootUpTo(n) == \A i \in 1 .. krsc : i < n => RootBuf[i] = Sector(Source, krsta + i - 1)

(* The part of the load that is done, when f is its next transfer. *)
PartLoaded(f) ==
    \/ /\ f.at = "fat" /\ geometry.drive = A
       /\ f.es \in 1 .. kfat_secs
       /\ drive_load_lba = kfat_start + f.es - 1
       /\ FatUpTo(f.es)
    \/ /\ f.at = "root" /\ geometry.drive # D
       /\ f.es \in 1 .. krsc
       /\ drive_load_lba = krsta + f.es - 1
       /\ geometry.drive = A => FatUpTo(kfat_secs + 1)
       /\ RootUpTo(f.es)

Loaded ==
    /\ geometry.drive # D => RootUpTo(krsc + 1)
    /\ geometry.drive = A => FatUpTo(kfat_secs + 1)

(* Whom the load is for. *)
LoadFor(w) ==
    /\ drive_req = geometry.drive
    /\ w = "switch" => asked = drive_req /\ active_drive_num = drive_prev
    /\ w = "restore" => drive_req = drive_prev /\ active_drive_num = drive_prev
    /\ w = "reload" => geometry.drive = A /\ active_drive_num = A /\ asked = A
    /\ IF w = "reload" THEN cur_dir_cluster = ROOT_CLUSTER /\ slipped = NoDisk
                       ELSE geometry.disk = slots[geometry.drive]
    /\ bios = "line" /\ geometry.drive = A => line \/ Source = inserted

(* Everything held is of one disk. *)
Whole ==
    /\ geometry.drive = active_drive_num
    /\ active_drive_num = A => FatIsOf(RootBuf[1].disk) /\ RootIsOf(RootBuf[1].disk)
    /\ active_drive_num = C => RootIsOf(HardDisk)
    /\ bios = "line" /\ active_drive_num = A /\ slipped = NoDisk =>
         geometry.disk = RootBuf[1].disk /\ geometry.disk = slots[A]

(* A switch has loaded the floppy that has slipped in. *)
CaughtUp == slipped # NoDisk /\ drive_prev # A => RootBuf[1].disk = slipped

(* The disk held is the one in the drive. *)
Fresh == IF bios = "line" THEN ~line /\ CaughtUp ELSE RootBuf[1].disk = inserted

Resting ==
    /\ stack = <<>> /\ ret = "none" /\ Whole
    /\ answer = "ok" => active_drive_num = asked
    /\ verified /\ answer = "ok" => Fresh

Flushing ==
    /\ Len(stack) = 1 /\ Top.at = "flush" /\ ret = "none" /\ Whole
    /\ drive_req = asked /\ asked # A /\ drive_prev = active_drive_num
    /\ ~verified

Calling ==
    /\ Calls(stack) /\ Whole /\ active_drive_num = A /\ asked = A
    /\ verified => /\ bios = "line" => ~line \/ (Len(stack) = 1 /\ Top.at = "probe")
                   /\ bios = "line" => CaughtUp
                   /\ bios = "latched" /\ (stack[1].at \in {"data", "single"} \/ ret = "ok") => Fresh

Loading ==
    /\ Len(stack) >= 2 /\ ret = "none"
    /\ Top.at \in {"fat", "root"} /\ Top.lba = drive_load_lba
    /\ LET w == stack[Len(stack) - 1].at IN
       /\ w \in Loads
       /\ Beneath(Front(Below), w)
       /\ LoadFor(w)
       /\ verified /\ bios = "line" /\ w # "restore" => ~line \/ (Top.at = "fat" /\ Top.es = 1 /\ w = "switch")
    /\ PartLoaded(Top)

AfterLoad ==
    /\ stack # <<>> /\ ret # "none" /\ Top.at \in Loads
    /\ Beneath(Below, Top.at)
    /\ LoadFor(Top.at)
    /\ ret = "ok" => Loaded
    /\ verified /\ bios = "line" /\ ret = "ok" /\ Top.at # "restore" => ~line

(* A floppy that has been exchanged is being remounted. *)
Remounting == Len(stack) > 1 /\ stack[1].at \in {"probe", "data", "single", "check"}

Sane ==
    /\ Resting \/ Flushing \/ Calling \/ Loading \/ AfterLoad
    /\ slots[C] = HardDisk
    /\ geometry.drive = C => geometry.disk = HardDisk
    /\ verified => asked = A
    /\ root_buf_drive = C /\ (stack = <<>> \/ Top.at # "root") => RootIsOf(HardDisk)
    /\ bios = "line" => line \/ Known = inserted \/ Remounting
    /\ bios = "line" /\ slipped = NoDisk =>
         /\ cwd[A] \in {ROOT_CLUSTER, slots[A]} \/ Remounting
         /\ active_drive_num = A => cur_dir_cluster \in {ROOT_CLUSTER, slots[A]}

IInv == Types /\ (~spoiled => Sane)

-----------------------------------------------------------------------------
(* Constants and sequences of frames *)

LEMMA Places ==
    /\ krsta \in Nat /\ krsta = kfat_start + kfat_secs /\ kfat_start \in Nat
    /\ kfat_secs \in Nat /\ kfat_secs > 0 /\ krsc \in Nat /\ krsc > 0
BY MediaChangeAssumption DEF krsta, kfat_start

LEMMA DrivesDiffer ==
    /\ A \in Drives /\ C \in Drives /\ D \in Drives
    /\ A # C /\ A # D /\ C # D /\ NoDrive \notin Drives
    /\ \A d \in Drives : d = A \/ d = C \/ d = D
BY DEF A, C, D, Drives, NoDrive

LEMMA Appended ==
  ASSUME NEW s \in Seq(Frame), NEW f \in Frame
  PROVE  /\ Append(s, f) \in Seq(Frame) /\ Append(s, f) # <<>>
         /\ Len(s) \in Nat /\ Len(Append(s, f)) = Len(s) + 1
         /\ Append(s, f)[Len(Append(s, f))] = f
         /\ \A i \in 1 .. Len(s) : Append(s, f)[i] = s[i]
         /\ Front(Append(s, f)) = s
<1>1. /\ Append(s, f) \in Seq(Frame) /\ Append(s, f) # <<>>
      /\ Len(Append(s, f)) = Len(s) + 1 /\ Len(s) \in Nat
      /\ \A i \in 1 .. Len(s) : Append(s, f)[i] = s[i]
      /\ Append(s, f)[Len(s) + 1] = f
  BY AppendProperties
<1> DEFINE t == Append(s, f)
<1> HIDE DEF t
<1>2. Front(t) = SubSeq(t, 1, Len(s))
  <2>1. Len(t) - 1 = Len(s)
    BY <1>1 DEF t
  <2> QED BY <2>1 DEF Front
<1>3. \A i \in 1 .. Len(s) : t[i] \in Frame
  BY <1>1 DEF t
<1>4. /\ SubSeq(t, 1, Len(s)) \in Seq(Frame)
      /\ Len(SubSeq(t, 1, Len(s))) = IF 1 <= Len(s) THEN Len(s) - 1 + 1 ELSE 0
      /\ \A i \in 1 .. Len(s) - 1 + 1 : SubSeq(t, 1, Len(s))[i] = t[1 + i - 1]
  BY <1>1, <1>3, SubSeqProperties
<1>5. Len(SubSeq(t, 1, Len(s))) = Len(s)
  BY <1>1, <1>4
<1>6. \A i \in 1 .. Len(s) : SubSeq(t, 1, Len(s))[i] = s[i]
  <2> TAKE i \in 1 .. Len(s)
  <2>1. i \in 1 .. Len(s) - 1 + 1 /\ 1 + i - 1 = i
    BY <1>1
  <2>2. SubSeq(t, 1, Len(s))[i] = t[i]
    BY <1>4, <2>1
  <2> QED BY <1>1, <2>2 DEF t
<1>7. SubSeq(t, 1, Len(s)) = s
  BY <1>4, <1>5, <1>6, SeqEqual
<1> QED BY <1>1, <1>2, <1>7 DEF t

LEMMA Fronted ==
  ASSUME NEW s \in Seq(Frame), s # <<>>
  PROVE  /\ Front(s) \in Seq(Frame) /\ Len(s) \in Nat /\ Len(s) > 0
         /\ Len(Front(s)) = Len(s) - 1
         /\ \A i \in 1 .. Len(s) - 1 : Front(s)[i] = s[i]
         /\ s[Len(s)] \in Frame
         /\ s = Append(Front(s), s[Len(s)])
         /\ Len(s) = 1 <=> Front(s) = <<>>
<1>1. PICK t \in Seq(Frame), f \in Frame : s = Append(t, f)
  BY SequenceEmptyOrAppend
<1>2. Front(s) = t /\ s[Len(s)] = f /\ Len(s) = Len(t) + 1 /\ Len(t) \in Nat
  BY <1>1, Appended
<1>3. \A i \in 1 .. Len(t) : s[i] = t[i]
  BY <1>1, Appended
<1>4. Len(s) - 1 = Len(t)
  BY <1>2
<1>5. Len(t) = 0 <=> t = <<>>
  BY EmptySeq
<1> QED BY <1>1, <1>2, <1>3, <1>4, <1>5

LEMMA StaysFirst ==
  ASSUME NEW s \in Seq(Frame), s # <<>>, NEW f \in Frame
  PROVE  Append(s, f)[1] = s[1] /\ Len(Append(s, f)) > 1
<1>1. Len(s) \in Nat /\ Len(s) > 0
  BY Fronted
<1>2. 1 \in 1 .. Len(s)
  BY <1>1
<1> QED BY <1>1, <1>2, Appended

(* A remount interrupts a call, and the remounts that interrupted it. *)
LEMMA CallsGrow ==
  ASSUME NEW s \in Seq(Frame), Calls(s), NEW f \in Frame, f.at = "boot"
  PROVE  Calls(Append(s, f)) /\ Append(s, f)[1] = s[1] /\ Len(Append(s, f)) > 1
<1>1. /\ Append(s, f) # <<>> /\ Len(Append(s, f)) = Len(s) + 1 /\ Len(s) \in Nat
      /\ Append(s, f)[Len(s) + 1] = f
      /\ \A i \in 1 .. Len(s) : Append(s, f)[i] = s[i]
  BY Appended
<1>2. Len(s) > 0
  BY Fronted DEF Calls
<1> DEFINE t == Append(s, f)
<1> HIDE DEF t
<1>3. \A i \in 2 .. Len(t) : t[i].at = "boot"
  <2> TAKE i \in 2 .. Len(t)
  <2>1. i = Len(s) + 1 \/ i \in 2 .. Len(s)
    BY <1>1 DEF t
  <2> QED BY <1>1, <2>1 DEF Calls, t
<1> QED BY <1>1, <1>2, <1>3 DEF Calls, t

LEMMA CallsShrink ==
  ASSUME NEW s \in Seq(Frame), Calls(s)
  PROVE  /\ s # <<>> /\ Len(s) \in Nat /\ Len(s) > 0
         /\ IF Len(s) = 1
            THEN s[Len(s)].at \in {"probe", "data", "single", "check"}
            ELSE /\ s[Len(s)].at = "boot" /\ Len(s) > 1
                 /\ Calls(Front(s)) /\ Front(s)[1] = s[1]
<1>1. /\ Len(s) \in Nat /\ Len(s) > 0 /\ Len(Front(s)) = Len(s) - 1
      /\ \A i \in 1 .. Len(s) - 1 : Front(s)[i] = s[i]
      /\ Len(s) = 1 <=> Front(s) = <<>>
  BY Fronted DEF Calls
<1>2. CASE Len(s) = 1
  BY <1>1, <1>2 DEF Calls
<1>3. CASE Len(s) # 1
  <2>1. Len(s) > 1 /\ 1 \in 1 .. Len(s) - 1 /\ Len(s) \in 2 .. Len(s)
    BY <1>1, <1>3
  <2>2. \A i \in 2 .. Len(s) - 1 : i \in 1 .. Len(s) - 1 /\ i \in 2 .. Len(s)
    BY <1>1
  <2>3. Calls(Front(s))
    BY <1>1, <1>3, <2>1, <2>2 DEF Calls
  <2> QED BY <1>1, <1>3, <2>1, <2>3 DEF Calls
<1> QED BY <1>2, <1>3

LEMMA TwoUp ==
  ASSUME NEW s \in Seq(Frame), NEW e \in Frame, NEW f \in Frame
  PROVE  LET t == Append(Append(s, e), f) IN
         /\ t \in Seq(Frame) /\ t # <<>> /\ Len(t) >= 2 /\ Len(t) \in Nat
         /\ t[Len(t)] = f /\ t[Len(t) - 1] = e
         /\ Front(t) = Append(s, e) /\ Front(Front(t)) = s
<1> DEFINE u == Append(s, e)
           t == Append(u, f)
<1>1. u \in Seq(Frame) /\ Len(s) \in Nat /\ Len(u) = Len(s) + 1 /\ u[Len(u)] = e /\ Front(u) = s
  BY Appended
<1> HIDE DEF u
<1>2. /\ Append(u, f) \in Seq(Frame) /\ Append(u, f) # <<>>
      /\ Len(Append(u, f)) = Len(u) + 1
      /\ Append(u, f)[Len(Append(u, f))] = f
      /\ \A i \in 1 .. Len(u) : Append(u, f)[i] = u[i]
      /\ Front(Append(u, f)) = u
  BY <1>1, Appended
<1> HIDE DEF t
<1>3. t = Append(u, f)
  BY DEF t
<1>4. Len(u) \in 1 .. Len(u) /\ Len(t) - 1 = Len(u)
  BY <1>1, <1>2, <1>3
<1>5. t[Len(t) - 1] = e
  BY <1>1, <1>2, <1>3, <1>4
<1>6. t = Append(Append(s, e), f)
  BY DEF t, u
<1>7. /\ t \in Seq(Frame) /\ t # <<>> /\ Len(t) >= 2 /\ Len(t) \in Nat
      /\ t[Len(t)] = f /\ Front(t) = u /\ Front(Front(t)) = s
  BY <1>1, <1>2, <1>3
<1> QED BY <1>5, <1>6, <1>7 DEF u

LEMMA TwoDown ==
  ASSUME NEW t \in Seq(Frame), Len(t) >= 2
  PROVE  LET s == Front(Front(t))
             e == t[Len(t) - 1]
         IN  /\ s \in Seq(Frame) /\ e \in Frame /\ t[Len(t)] \in Frame
             /\ t # <<>> /\ Front(t) = Append(s, e) /\ Front(t) # <<>>
             /\ Front(t) \in Seq(Frame) /\ Len(Front(t)) # 0
             /\ Front(t)[Len(Front(t))] = e
<1>1. t # <<>> /\ Len(t) \in Nat
  BY EmptySeq
<1> DEFINE u == Front(t)
<1>2. /\ u \in Seq(Frame) /\ Len(u) = Len(t) - 1 /\ t[Len(t)] \in Frame
      /\ \A i \in 1 .. Len(t) - 1 : u[i] = t[i]
  BY <1>1, Fronted
<1> HIDE DEF u
<1>3. u # <<>> /\ Len(u) \in 1 .. Len(t) - 1
  BY <1>1, <1>2, EmptySeq
<1>4. /\ Front(u) \in Seq(Frame) /\ u = Append(Front(u), u[Len(u)]) /\ u[Len(u)] \in Frame
  BY <1>2, <1>3, Fronted
<1>5. u[Len(u)] = t[Len(t) - 1]
  BY <1>1, <1>2, <1>3
<1> QED BY <1>1, <1>2, <1>3, <1>4, <1>5 DEF u

LEMMA FrameIs ==
  /\ \A at \in Ats, lba \in Nat, es \in Nat :
        /\ Transfer(at, lba, es) \in Frame
        /\ Transfer(at, lba, es).at = at
        /\ Transfer(at, lba, es).lba = lba
        /\ Transfer(at, lba, es).es = es
  /\ \A at \in Ats : Waiting(at) \in Frame /\ Waiting(at).at = at
BY DEF Frame, Transfer, Waiting

-----------------------------------------------------------------------------
(* Types *)

LEMMA LoadTypes ==
  ASSUME Types, NEW g, g.drive \in Drives, NEW req, NEW below \in Seq(Frame), Load(g, req, below)
  PROVE  /\ stack' \in Seq(Frame) /\ ret' \in {"none", "ok", "failed"} /\ drive_load_lba' \in Nat
         /\ UNCHANGED <<FatBuf, RootBuf, root_buf_drive, answer>>
<1>1. UNCHANGED <<FatBuf, RootBuf, root_buf_drive, answer>>
  BY DEF Load
<1>2. CASE g.drive = D \/ (g.drive = C /\ root_buf_drive = req)
  BY <1>1, <1>2 DEF Load, Types, TypeOK
<1>3. CASE ~(g.drive = D \/ (g.drive = C /\ root_buf_drive = req))
  <2>1. /\ ret' = "none"
        /\ drive_load_lba' = IF g.drive = A THEN kfat_start ELSE krsta
        /\ stack' = Append(below, Transfer(IF g.drive = A THEN "fat" ELSE "root",
                                           drive_load_lba', 1))
    BY <1>3 DEF Load
  <2>2. drive_load_lba' \in Nat
    BY <2>1, Places
  <2>3. Transfer(IF g.drive = A THEN "fat" ELSE "root", drive_load_lba', 1) \in Frame
    BY <2>2, FrameIs DEF Ats, Transfers
  <2> QED BY <1>1, <2>1, <2>2, <2>3, Appended
<1> QED BY <1>2, <1>3

LEMMA SectorIs ==
  ASSUME Types
  PROVE  /\ Medium \in AllDisks
         /\ \A disk \in AllDisks, lba \in Nat : Sector(disk, lba) \in SectorsRead
         /\ RootBuf[1].disk \in AllDisks
<1>1. 1 \in 1 .. krsc
  BY Places
<1> QED BY <1>1 DEF Types, TypeOK, Medium, AllDisks, SectorsRead, Sector

LEMMA StackTypes ==
  ASSUME Types, ~Idle
  PROVE  Below \in Seq(Frame) /\ Top \in Frame /\ Top.lba \in Nat /\ Top.es \in Nat /\ stack # <<>>
BY Fronted DEF Types, Idle, Below, Top, Frame

LEMMA SwitchTypes ==
  ASSUME Types, NEW d \in Drives, NEW below \in Seq(Frame), SwitchTo(d, below)
  PROVE  /\ stack' \in Seq(Frame) /\ ret' \in {"none", "ok", "failed"} /\ drive_load_lba' \in Nat
         /\ geometry' \in [drive : Drives, disk : AllDisks]
         /\ cwd' \in [Drives -> AllDisks \cup {ROOT_CLUSTER}]
         /\ UNCHANGED <<FatBuf, RootBuf, root_buf_drive, answer>>
<1>1. geometry' = [drive |-> d, disk |-> slots[d]] /\ slots[d] \in AllDisks
  BY DEF SwitchTo, Types, TypeOK, AllDisks
<1>2. Append(below, Waiting("switch")) \in Seq(Frame)
  BY Appended, FrameIs DEF Ats, Loads
<1>3. Load(geometry', d, Append(below, Waiting("switch")))
  BY DEF SwitchTo
<1>4. geometry'.drive \in Drives
  BY <1>1
<1>5. /\ stack' \in Seq(Frame) /\ ret' \in {"none", "ok", "failed"} /\ drive_load_lba' \in Nat
      /\ UNCHANGED <<FatBuf, RootBuf, root_buf_drive, answer>>
  BY <1>2, <1>3, <1>4, LoadTypes
<1>6. cwd' \in [Drives -> AllDisks \cup {ROOT_CLUSTER}]
  BY DEF SwitchTo, Types
<1> QED BY <1>1, <1>5, <1>6

LEMMA TypesNext ==
  ASSUME Types, Next
  PROVE  Types'
<1> USE SectorIs, Places, DrivesDiffer
<1>1. ASSUME NEW d \in Drives, Activate(d) PROVE Types'
  <2>1. <<>> \in Seq(Frame)
    BY EmptySeq
  <2>2. CASE d # active_drive_num /\ SwitchTo(d, <<>>)
    BY <1>1, <2>1, <2>2, SwitchTypes DEF Activate, Types, TypeOK, AllDisks, floppyVars
  <2>3. CASE d # active_drive_num /\ stack' = <<Transfer("flush", kfat_start, 0)>>
             /\ UNCHANGED <<bufferVars, geometry, cwd, ret, answer>>
    <3>1. Transfer("flush", kfat_start, 0) \in Frame
      BY FrameIs DEF Ats, Transfers
    <3> QED BY <1>1, <2>3, <3>1 DEF Activate, Types, TypeOK, AllDisks, floppyVars, bufferVars
  <2>4. CASE d = active_drive_num
    <3>1. Transfer("probe", krsta, 0) \in Frame
      BY FrameIs DEF Ats, Transfers
    <3>2. recent' \in BOOLEAN /\ verified' \in BOOLEAN
      BY <1>1, <2>4 DEF Activate, Types, TypeOK
    <3>3. /\ stack' \in Seq(Frame) /\ ret' \in {"none", "ok", "failed"}
          /\ answer' \in {"ok", "failed"}
      <4>1. \/ Ends("ok")
            \/ stack' = <<Transfer("probe", krsta, 0)>> /\ UNCHANGED <<ret, answer>>
        BY <1>1, <2>4 DEF Activate
      <4>2. <<Transfer("probe", krsta, 0)>> \in Seq(Frame)
        BY <3>1
      <4> QED BY <2>1, <4>1, <4>2 DEF Ends, Types, TypeOK
    <3> QED BY <1>1, <2>4, <3>2, <3>3 DEF Activate, Types, TypeOK, AllDisks, floppyVars, bufferVars
  <2> QED BY <1>1, <2>2, <2>3, <2>4 DEF Activate
<1>2. CASE Access
  <2>1. \A at \in {"data", "single"} : Transfer(at, krsta + krsc, 0) \in Frame
    BY FrameIs DEF Ats, Transfers
  <2>2. stack' \in Seq(Frame)
    BY <1>2, <2>1 DEF Access
  <2> QED BY <1>2, <2>2 DEF Access, Types, TypeOK, AllDisks, floppyVars, driveVars, bufferVars
<1>3. CASE ChDir
  BY <1>3 DEF ChDir, Types, TypeOK, AllDisks, floppyVars, bufferVars, callVars
<1>4. CASE ReadFat
  <2>1. Below \in Seq(Frame) /\ Top.lba \in Nat /\ Top.es \in Nat
    BY <1>4, StackTypes DEF ReadFat, Moves, InTransfer
  <2>2. drive_load_lba' \in Nat
    BY <1>4 DEF ReadFat, Types, TypeOK
  <2>3. stack' \in Seq(Frame)
    <3>1. PICK at \in {"fat", "root"}, es \in Nat : stack' = Append(Below, Transfer(at, drive_load_lba', es))
      BY <1>4, <2>1 DEF ReadFat
    <3>2. Transfer(at, drive_load_lba', es) \in Frame
      BY <2>2, FrameIs DEF Ats, Transfers
    <3> QED BY <2>1, <3>1, <3>2, Appended
  <2>4. Sector(Medium, Top.lba) \in SectorsRead
    BY <2>1
  <2>5. FatBuf' \in [1 .. kfat_secs -> SectorsRead]
    BY <1>4, <2>4 DEF ReadFat, Types, TypeOK
  <2> QED BY <1>4, <2>2, <2>3, <2>5 DEF ReadFat, Goes, Types, TypeOK, AllDisks, floppyVars, driveVars
<1>5. CASE ReadRoot
  <2>1. Below \in Seq(Frame) /\ Top.lba \in Nat /\ Top.es \in Nat
    BY <1>5, StackTypes DEF ReadRoot, Moves, InTransfer
  <2>2. drive_load_lba' \in Nat
    BY <1>5 DEF ReadRoot, Types, TypeOK
  <2>3. stack' \in Seq(Frame) /\ root_buf_drive' \in Drives \cup {NoDrive}
        /\ ret' \in {"none", "ok", "failed"} /\ answer' \in {"ok", "failed"}
    <3>1. CASE stack' = Append(Below, Transfer("root", drive_load_lba', Top.es + 1))
               /\ UNCHANGED <<root_buf_drive, ret, answer>>
      <4>1. Transfer("root", drive_load_lba', Top.es + 1) \in Frame
        BY <2>1, <2>2, FrameIs DEF Ats, Transfers
      <4> QED BY <2>1, <3>1, <4>1, Appended DEF Types, TypeOK
    <3>2. CASE root_buf_drive' = drive_req /\ Answers("ok")
      BY <2>1, <3>2 DEF Answers, Types, TypeOK
    <3> QED BY <1>5, <3>1, <3>2 DEF ReadRoot
  <2>4. Sector(Medium, Top.lba) \in SectorsRead
    BY <2>1
  <2>5. RootBuf' \in [1 .. krsc -> SectorsRead]
    BY <1>5, <2>4 DEF ReadRoot, Types, TypeOK
  <2> QED BY <1>5, <2>2, <2>3, <2>5 DEF ReadRoot, Goes, Types, TypeOK, AllDisks, floppyVars, driveVars
<1>6. CASE ReadBoot
  <2>1. Append(Below, Waiting("reload")) \in Seq(Frame)
    BY <1>6, StackTypes, Appended, FrameIs DEF ReadBoot, Moves, InTransfer, Ats, Loads
  <2>2. geometry' \in [drive : Drives, disk : AllDisks] /\ geometry'.drive \in Drives
    BY <1>6 DEF ReadBoot, Types, TypeOK, AllDisks
  <2>3. /\ stack' \in Seq(Frame) /\ ret' \in {"none", "ok", "failed"} /\ drive_load_lba' \in Nat
        /\ UNCHANGED <<FatBuf, RootBuf, root_buf_drive, answer>>
    BY <1>6, <2>1, <2>2, LoadTypes DEF ReadBoot
  <2> QED BY <1>6, <2>2, <2>3 DEF ReadBoot, Goes, Types, TypeOK, AllDisks, floppyVars
<1>7. CASE ReadProbe
  <2>1. Waiting("check") \in Frame /\ Transfer("boot", 0, 0) \in Frame /\ <<>> \in Seq(Frame)
    BY FrameIs, EmptySeq DEF Ats, Transfers
  <2>2. /\ stack' \in Seq(Frame) /\ ret' \in {"none", "ok", "failed"}
        /\ answer' \in {"ok", "failed"} /\ recent' \in BOOLEAN
    <3>1. CASE RootBuf[1] = Sector(Medium, krsta)
      BY <1>7, <2>1, <3>1 DEF ReadProbe, Ends
    <3>2. CASE RootBuf[1] # Sector(Medium, krsta)
      <4>1. <<Waiting("check"), Transfer("boot", 0, 0)>> \in Seq(Frame)
        BY <2>1
      <4>2. /\ stack' = <<Waiting("check"), Transfer("boot", 0, 0)>>
            /\ UNCHANGED <<recent, ret, answer>>
        BY <1>7, <3>2 DEF ReadProbe
      <4> QED BY <4>1, <4>2 DEF Types, TypeOK
    <3> QED BY <3>1, <3>2
  <2> QED BY <1>7, <2>2 DEF ReadProbe, Goes, Types, TypeOK, AllDisks, floppyVars, driveVars, bufferVars
<1>8. CASE ReadData
  BY <1>8, EmptySeq DEF ReadData, Ends, Goes, Types, TypeOK, AllDisks, floppyVars, driveVars, bufferVars
<1>9. CASE FlushFat
  <2>1. <<>> \in Seq(Frame) /\ drive_req \in Drives
    BY EmptySeq DEF Types, TypeOK
  <2>2. /\ stack' \in Seq(Frame) /\ ret' \in {"none", "ok", "failed"} /\ drive_load_lba' \in Nat
        /\ geometry' \in [drive : Drives, disk : AllDisks]
        /\ cwd' \in [Drives -> AllDisks \cup {ROOT_CLUSTER}]
        /\ UNCHANGED <<FatBuf, RootBuf, root_buf_drive, answer>>
    <3>1. SwitchTo(drive_req, <<>>)
      BY <1>9 DEF FlushFat
    <3> QED BY <2>1, <3>1, SwitchTypes, Zenon
  <2> QED BY <1>9, <2>2 DEF FlushFat, Goes, Types, TypeOK, AllDisks, floppyVars
<1>10. CASE Fail
  <2>1. Below \in Seq(Frame) /\ <<>> \in Seq(Frame)
    BY <1>10, StackTypes, EmptySeq DEF Fail
  <2>2. stack' \in Seq(Frame) /\ ret' \in {"none", "ok", "failed"} /\ answer' \in {"ok", "failed"}
        /\ root_buf_drive' \in Drives \cup {NoDrive}
    BY <1>10, <2>1 DEF Fail, TransferFails, Ends, Answers, Types, TypeOK
  <2> QED BY <1>10, <2>2 DEF Fail, Types, TypeOK, AllDisks, floppyVars, driveVars
<1>11. CASE Remount
  <2>1. stack' \in Seq(Frame)
    BY <1>11, Appended, FrameIs DEF Remount, Types, Ats, Transfers
  <2> QED BY <1>11, <2>1 DEF Remount, Types, TypeOK, AllDisks, driveVars, bufferVars
<1>12. CASE Retry
  BY <1>12 DEF Retry, Types, TypeOK, AllDisks, floppyVars, driveVars, bufferVars
<1>13. CASE Reloaded
  <2>1. Below \in Seq(Frame)
    BY <1>13, StackTypes DEF Reloaded, Awaits
  <2>2. geometry.disk \in AllDisks
    BY DEF Types, TypeOK, AllDisks
  <2>3. /\ cwd' \in [Drives -> AllDisks \cup {ROOT_CLUSTER}]
        /\ slots' \in [Drives -> AllDisks] /\ spoiled' \in BOOLEAN
    <3>1. CASE ret = "ok"
      BY <1>13, <2>2, <3>1 DEF Reloaded, Types, TypeOK, AllDisks
    <3>2. CASE ret # "ok"
      BY <1>13, <3>2 DEF Reloaded, Types, TypeOK, AllDisks
    <3> QED BY <3>1, <3>2
  <2> QED BY <1>13, <2>1, <2>3 DEF Reloaded, Answers, Types, TypeOK, AllDisks, floppyVars, bufferVars
<1>14. CASE Checked
  BY <1>14, EmptySeq
     DEF Checked, Awaits, Ends, Goes, Types, TypeOK, AllDisks, floppyVars, driveVars, bufferVars
<1>15. CASE Switched
  BY <1>15, EmptySeq DEF Switched, Ends, Goes, Types, TypeOK, AllDisks, floppyVars, bufferVars
<1>16. CASE SwitchBack
  <2>1. drive_prev \in Drives /\ <<Waiting("restore")>> \in Seq(Frame)
    BY FrameIs DEF Types, TypeOK, Ats, Loads
  <2>2. geometry' \in [drive : Drives, disk : AllDisks] /\ geometry'.drive \in Drives
    BY <1>16, <2>1 DEF SwitchBack, Types, TypeOK, AllDisks
  <2>3. /\ stack' \in Seq(Frame) /\ ret' \in {"none", "ok", "failed"} /\ drive_load_lba' \in Nat
        /\ UNCHANGED <<FatBuf, RootBuf, root_buf_drive, answer>>
    BY <1>16, <2>1, <2>2, LoadTypes DEF SwitchBack
  <2> QED BY <1>16, <2>1, <2>2, <2>3 DEF SwitchBack, Goes, Types, TypeOK, AllDisks, floppyVars
<1>17. CASE Restored
  <2>1. spoiled' \in BOOLEAN
    BY <1>17 DEF Restored, Types, TypeOK
  <2>2. stack' \in Seq(Frame) /\ ret' = "none" /\ answer' = "failed"
    BY <1>17, EmptySeq DEF Restored, Ends
  <2>3. UNCHANGED <<floppyVars, driveVars, bufferVars, drive_req, drive_prev, recent, asked,
                    verified, slipped>>
    BY <1>17 DEF Restored
  <2>4. stack' \in Seq(Frame) /\ asked' \in Drives /\ cwd' = cwd /\ cur_dir_cluster' = cur_dir_cluster
    BY <2>2, <2>3 DEF Types, driveVars
  <2>5. TypeOK'
    BY <2>1, <2>2, <2>3 DEF Types, TypeOK, floppyVars, driveVars, bufferVars
  <2> QED BY <2>4, <2>5 DEF Types, AllDisks
<1>18. ASSUME NEW disk \in Disks, Swap(disk) PROVE Types'
  <2>1. spoiled' \in BOOLEAN
    BY <1>18 DEF Swap, Types, TypeOK
  <2>2. /\ inserted' \in Disks /\ line' = TRUE /\ verified' = FALSE /\ swaps' \in 0 .. MaxSwaps
        /\ UNCHANGED <<bios, driveVars, bufferVars, drive_req, drive_prev, recent, stack, ret,
                       answer, asked, slipped>>
    <3>1. swaps \in 0 .. MaxSwaps /\ MaxSwaps \in Nat
      BY MediaChangeAssumption DEF Types, TypeOK
    <3>2. swaps < MaxSwaps /\ swaps' = swaps + 1
      BY <1>18 DEF Swap
    <3> QED BY <1>18, <3>1, <3>2 DEF Swap
  <2>3. TypeOK'
    BY <2>1, <2>2 DEF Types, TypeOK, driveVars, bufferVars
  <2> QED BY <2>2, <2>3 DEF Types, AllDisks, driveVars
<1>19. CASE TimePasses
  <2>1. /\ UNCHANGED <<floppyVars, driveVars, bufferVars, callVars, drive_req, drive_prev, slipped>>
        /\ recent' \in BOOLEAN
    BY <1>19 DEF TimePasses
  <2>2. TypeOK'
    BY <2>1 DEF Types, TypeOK, floppyVars, driveVars, bufferVars, callVars
  <2> QED BY <2>1, <2>2 DEF Types, AllDisks, driveVars, callVars
<1>20. CASE BurstFails
  <2>1. Top.lba \in Nat
    BY <1>20, StackTypes DEF BurstFails, InTransfer
  <2>2. Transfer("single", Top.lba, 0) \in Frame
    BY <2>1, FrameIs DEF Ats, Transfers
  <2>3. stack' \in Seq(Frame) /\ slipped' \in Disks \cup {NoDisk} /\ line' = FALSE
    BY <1>20, <2>2 DEF BurstFails, Types, TypeOK
  <2>4. UNCHANGED <<bios, inserted, swaps, driveVars, bufferVars, drive_req, drive_prev, recent,
                    ret, answer, asked, verified, spoiled>>
    BY <1>20 DEF BurstFails
  <2>5. TypeOK'
    BY <2>3, <2>4 DEF Types, TypeOK, driveVars, bufferVars
  <2> QED BY <2>3, <2>4, <2>5 DEF Types, AllDisks, driveVars
<1> QED BY <1>1, <1>2, <1>3, <1>4, <1>5, <1>6, <1>7, <1>8, <1>9, <1>10, <1>11, <1>12, <1>13,
           <1>14, <1>15, <1>16, <1>17, <1>18, <1>19, <1>20 DEF Next

-----------------------------------------------------------------------------
(* Phases *)

(* The top of the stack tells which. *)
LEMMA PhaseIs ==
  ASSUME Types, Sane
  PROVE  /\ Idle => Resting
         /\ ~Idle /\ Top.at \in {"fat", "root"} => Loading
         /\ ~Idle /\ Top.at \in Loads => AfterLoad
         /\ ~Idle /\ Top.at \in {"probe", "data", "single", "check", "boot"} => Calling
         /\ ~Idle /\ Top.at = "flush" => Flushing
<1>1. Resting \/ Flushing \/ Calling \/ Loading \/ AfterLoad
  BY DEF Sane
<1>2. ASSUME Resting PROVE Idle
  BY <1>2 DEF Resting, Idle
<1>3. ASSUME Flushing PROVE ~Idle /\ Top.at = "flush"
  BY <1>3 DEF Flushing, Idle
<1>4. ASSUME Calling PROVE ~Idle /\ Top.at \in {"probe", "data", "single", "check", "boot"}
  <2>1. stack \in Seq(Frame) /\ Calls(stack)
    BY <1>4 DEF Calling, Types
  <2> QED BY <2>1, CallsShrink DEF Idle, Top
<1>5. ASSUME Loading PROVE ~Idle /\ Top.at \in {"fat", "root"}
  BY <1>5 DEF Loading, Idle
<1>6. ASSUME AfterLoad PROVE ~Idle /\ Top.at \in Loads
  BY <1>6 DEF AfterLoad, Idle
<1> QED BY <1>1, <1>2, <1>3, <1>4, <1>5, <1>6 DEF Loads

(* The transfer f, on top of w, goes on with w's load. *)
LEMMA LoadingIs ==
  ASSUME NEW s \in Seq(Frame), NEW w \in Loads, NEW e \in Frame, e.at = w, NEW f \in Frame,
         stack' = Append(Append(s, e), f), ret' = "none",
         f.at \in {"fat", "root"}, f.lba = drive_load_lba',
         Beneath(s, w), LoadFor(w)', PartLoaded(f)',
         verified' /\ bios' = "line" /\ w # "restore" =>
            ~line' \/ (f.at = "fat" /\ f.es = 1 /\ w = "switch")
  PROVE  Loading' /\ Top' = f /\ stack' # <<>>
<1>1. /\ stack' # <<>> /\ Len(stack') >= 2 /\ stack'[Len(stack')] = f
      /\ stack'[Len(stack') - 1] = e
      /\ Front(Front(stack')) = s
  <2>1. LET t == Append(Append(s, e), f) IN
        /\ t # <<>> /\ Len(t) >= 2 /\ t[Len(t)] = f /\ t[Len(t) - 1] = e
        /\ Front(Front(t)) = s
    BY TwoUp
  <2> QED BY <2>1
<1>2. Top' = f /\ (Front(Below))' = s
  BY <1>1 DEF Top, Below
<1> QED BY <1>1, <1>2 DEF Loading

(* A load begins, or has nothing to do. *)
LEMMA LoadBegins ==
  ASSUME Types, Sane, Types', NEW s \in Seq(Frame), NEW w \in Loads,
         Beneath(s, w), LoadFor(w)',
         Load(geometry', drive_req', Append(s, Waiting(w))),
         geometry'.drive = C => geometry'.disk = HardDisk,
         Idle \/ Top.at # "root",
         verified' /\ bios' = "line" /\ w # "restore" =>
            geometry'.drive = A /\ (w = "switch" \/ ~line')
  PROVE  /\ Loading' \/ AfterLoad'
         /\ root_buf_drive' = C /\ (stack' = <<>> \/ Top'.at # "root") => RootIsOf(HardDisk)'
         /\ w = "reload" => Remounting'
<1> DEFINE e == Waiting(w)
<1>1. e \in Frame /\ e.at = w
  BY FrameIs DEF Ats
<1>2. UNCHANGED <<FatBuf, RootBuf, root_buf_drive, answer>>
  BY DEF Load
<1>3. root_buf_drive = C => RootIsOf(HardDisk)
  BY DEF Sane, Idle
<1>4. RootIsOf(HardDisk) => RootIsOf(HardDisk)'
  BY <1>2 DEF RootIsOf
<1>5. ASSUME w = "reload"
      PROVE  s # <<>> /\ s[1].at \in {"probe", "data", "single", "check"}
  BY <1>5 DEF Beneath, Calls
<1>6. CASE geometry'.drive = D \/ (geometry'.drive = C /\ root_buf_drive = drive_req')
  <2>1. stack' = Append(s, e) /\ ret' = "ok"
    BY <1>6 DEF Load
  <2> HIDE DEF e
  <2>2. stack' # <<>> /\ stack'[Len(stack')] = e /\ Front(stack') = s /\ Len(stack') = Len(s) + 1
    BY <1>1, <2>1, Appended
  <2>3. Top' = e /\ Below' = s
    BY <2>2 DEF Top, Below
  <2>4. Loaded'
    <3>1. CASE geometry'.drive = D
      BY <3>1, DrivesDiffer DEF Loaded
    <3>2. CASE geometry'.drive = C /\ root_buf_drive = drive_req'
      <4>1. drive_req' = C
        BY <3>2 DEF LoadFor
      <4>2. RootIsOf(HardDisk)' /\ Source' = HardDisk
        BY <1>3, <1>4, <3>2, <4>1, DrivesDiffer DEF Source
      <4>3. (RootUpTo(krsc + 1))'
        BY <4>2 DEF RootUpTo, RootIsOf
      <4> QED BY <3>2, <4>3, DrivesDiffer DEF Loaded
    <3> QED BY <1>6, <3>1, <3>2
  <2>5. ~(verified' /\ bios' = "line" /\ w # "restore")
    BY <1>6, DrivesDiffer
  <2>6. AfterLoad'
    BY <1>1, <2>1, <2>2, <2>3, <2>4, <2>5 DEF AfterLoad
  <2>7. ASSUME w = "reload" PROVE Remounting'
    BY <1>1, <1>5, <2>1, <2>7, StaysFirst DEF Remounting
  <2> QED BY <1>2, <1>3, <1>4, <2>6, <2>7
<1>7. CASE ~(geometry'.drive = D \/ (geometry'.drive = C /\ root_buf_drive = drive_req'))
  <2>0. PICK f : f = Transfer(IF geometry'.drive = A THEN "fat" ELSE "root", drive_load_lba', 1)
    OBVIOUS
  <2>1. /\ ret' = "none"
        /\ drive_load_lba' = IF geometry'.drive = A THEN kfat_start ELSE krsta
        /\ stack' = Append(Append(s, e), f)
    BY <1>7, <2>0 DEF Load
  <2>2. drive_load_lba' \in Nat
    BY <2>1, Places
  <2>3. /\ f \in Frame /\ f.lba = drive_load_lba' /\ f.es = 1
        /\ f.at = IF geometry'.drive = A THEN "fat" ELSE "root"
    BY <2>0, <2>2, FrameIs DEF Ats, Transfers
  <2>4. geometry'.drive = A \/ geometry'.drive = C
    BY <1>7, DrivesDiffer DEF Types, TypeOK
  <2> HIDE DEF e
  <2>5. PartLoaded(f)'
    <3>1. CASE geometry'.drive = A
      <4>1. f.at = "fat" /\ f.es \in 1 .. kfat_secs /\ drive_load_lba' = kfat_start + f.es - 1
        BY <2>1, <2>3, <3>1, Places
      <4>2. (FatUpTo(f.es))'
        BY <2>3, Places DEF FatUpTo
      <4> QED BY <3>1, <4>1, <4>2 DEF PartLoaded
    <3>2. CASE geometry'.drive = C
      <4>1. f.at = "root" /\ f.es \in 1 .. krsc /\ drive_load_lba' = krsta + f.es - 1
        BY <2>1, <2>3, <3>2, Places, DrivesDiffer
      <4>2. (RootUpTo(f.es))'
        BY <2>3, Places DEF RootUpTo
      <4> QED BY <3>2, <4>1, <4>2, DrivesDiffer DEF PartLoaded
    <3> QED BY <2>4, <3>1, <3>2
  <2>6. Loading'
    BY <1>1, <2>1, <2>3, <2>5, LoadingIs
  <2>7. ASSUME w = "reload" PROVE Remounting'
    <3>1. Append(s, e) \in Seq(Frame) /\ Append(s, e) # <<>> /\ Append(s, e)[1] = s[1]
      BY <1>1, <1>5, <2>7, Appended, StaysFirst
    <3> QED BY <1>5, <2>1, <2>3, <2>7, <3>1, StaysFirst DEF Remounting
  <2> QED BY <1>2, <1>3, <1>4, <2>6, <2>7
<1> QED BY <1>6, <1>7

-----------------------------------------------------------------------------
(* Calls *)

LEMMA NotRemounting ==
  ASSUME Sane, Idle, bios = "line"
  PROVE  /\ line \/ Known = inserted
         /\ slipped = NoDisk => cwd[A] \in {ROOT_CLUSTER, slots[A]}
BY DEF Sane, Remounting, Idle

LEMMA HasSwitched ==
  ASSUME Types, Sane, Types', NEW d \in Drives, SwitchTo(d, <<>>), drive_req' = d, asked' = d,
         active_drive_num' = active_drive_num, drive_prev' = active_drive_num,
         UNCHANGED <<floppyVars, slots, cur_dir_cluster, slipped>>,
         bios = "line" => line \/ Known = inserted,
         bios = "line" /\ slipped = NoDisk => cwd[A] \in {ROOT_CLUSTER, slots[A]},
         verified' => d = A, Idle \/ Top.at # "root"
  PROVE  Sane'
<1>1. geometry' = [drive |-> d, disk |-> slots[d]] /\ Load(geometry', d, Append(<<>>, Waiting("switch")))
  BY DEF SwitchTo
<1>2. slots[C] = HardDisk /\ geometry'.drive = d /\ geometry'.disk = slots[d]
  BY <1>1 DEF Sane
<1>3. LoadFor("switch")'
  BY <1>2 DEF LoadFor, Known, Source, floppyVars
<1>4. <<>> \in Seq(Frame) /\ "switch" \in Loads /\ Beneath(<<>>, "switch")
  BY EmptySeq DEF Loads, Beneath
<1>5. geometry'.drive = C => geometry'.disk = HardDisk
  BY <1>2
<1>6. /\ Loading' \/ AfterLoad'
      /\ root_buf_drive' = C /\ (stack' = <<>> \/ Top'.at # "root") => RootIsOf(HardDisk)'
  BY <1>1, <1>2, <1>3, <1>4, <1>5, LoadBegins
<1>7. bios = "line" /\ slipped = NoDisk => cwd'[A] \in {ROOT_CLUSTER, slots[A]}
  <2>1. cwd' = [cwd EXCEPT ![active_drive_num] = cur_dir_cluster]
    BY DEF SwitchTo
  <2> QED BY <2>1, DrivesDiffer DEF Sane, Types
<1>8. Known' = Known
  BY DEF Known
<1> QED BY <1>2, <1>5, <1>6, <1>7, <1>8 DEF Sane, floppyVars

LEMMA ActivateSane ==
  ASSUME Types, Sane, Types', NEW d \in Drives, Activate(d)
  PROVE  Sane'
<1>1. Resting
  BY PhaseIs DEF Activate
<1>2. UNCHANGED <<floppyVars, slots, cur_dir_cluster, active_drive_num, slipped, spoiled>> /\ Idle
      /\ asked' = d /\ drive_req' = d /\ drive_prev' = active_drive_num
      /\ verified' = (d = A /\ (active_drive_num # A \/ ~recent))
  BY DEF Activate
<1>3. /\ bios = "line" => line \/ Known = inserted
      /\ bios = "line" /\ slipped = NoDisk => cwd[A] \in {ROOT_CLUSTER, slots[A]}
      /\ Known' = Known
  BY <1>2, NotRemounting DEF Known
<1>4. CASE d # active_drive_num /\ SwitchTo(d, <<>>)
  BY <1>2, <1>3, <1>4, HasSwitched
<1>5. CASE /\ d # active_drive_num /\ geometry.drive = A
           /\ stack' = <<Transfer("flush", kfat_start, 0)>>
           /\ UNCHANGED <<bufferVars, geometry, cwd, ret, answer>>
  <2>1. Transfer("flush", kfat_start, 0).at = "flush"
    BY FrameIs, Places DEF Ats, Transfers
  <2>2. Len(stack') = 1 /\ Top'.at = "flush" /\ stack' # <<>>
    BY <1>5, <2>1 DEF Top
  <2>3. geometry.drive = active_drive_num
    BY <1>1 DEF Resting, Whole
  <2>4. Whole'
    BY <1>1, <1>2, <1>5 DEF Resting, Whole, FatIsOf, RootIsOf, bufferVars, floppyVars
  <2>5. ~verified' /\ d # A
    BY <1>2, <1>5, <2>3
  <2>6. Flushing'
    BY <1>1, <1>2, <1>5, <2>2, <2>4, <2>5 DEF Flushing, Resting
  <2>7. root_buf_drive' = C => RootIsOf(HardDisk)'
    BY <1>1, <1>2, <1>5 DEF Sane, RootIsOf, bufferVars, Idle
  <2> QED BY <1>2, <1>3, <1>5, <2>5, <2>6, <2>7 DEF Sane, floppyVars
<1>6. CASE d = active_drive_num
  <2>1. UNCHANGED <<bufferVars, geometry, cwd>>
    BY <1>6 DEF Activate
  <2>2. /\ Whole' /\ Whole
        /\ root_buf_drive' = C => RootIsOf(HardDisk)'
    BY <1>1, <1>2, <2>1
       DEF Resting, Sane, Idle, Whole, FatIsOf, RootIsOf, bufferVars, floppyVars
  <2>3. ASSUME Resting' \/ Calling' PROVE Sane'
    <3>1. verified' => asked' = A
      BY <1>2
    <3> QED BY <1>2, <1>3, <2>1, <2>2, <2>3, <3>1 DEF Sane, floppyVars
  <2>4. CASE geometry.drive = A /\ ~recent /\ Changed
    <3>1. stack' = <<Transfer("probe", krsta, 0)>> /\ UNCHANGED <<ret, answer>>
      BY <1>6, <2>4 DEF Activate
    <3>2. Transfer("probe", krsta, 0).at = "probe"
      BY FrameIs, Places DEF Ats, Transfers
    <3>3. /\ Len(stack') = 1 /\ Top'.at = "probe" /\ stack'[1].at = "probe" /\ stack' # <<>>
          /\ ret' = "none"
      BY <1>1, <3>1, <3>2 DEF Top, Resting
    <3>4. Calls(stack')
      BY <3>3 DEF Calls
    <3>5. active_drive_num = A
      BY <1>1, <2>4 DEF Resting, Whole
    <3>6. Calling'
      BY <1>2, <1>6, <2>2, <3>3, <3>4, <3>5 DEF Calling, CaughtUp
    <3> QED BY <2>3, <3>6
  <2>5. CASE ~(geometry.drive = A /\ ~recent /\ Changed)
    <3>1. Ends("ok")
      BY <1>6, <2>5 DEF Activate
    <3>2. ASSUME verified' PROVE Fresh'
      <4>1. d = A /\ ~recent
        BY <1>2, <1>6, <3>2
      <4>2. geometry.drive = A
        BY <1>1, <1>6, <4>1 DEF Resting, Whole
      <4>3. ~Changed
        BY <2>5, <4>1, <4>2
      <4>4. ~line /\ bios = "line"
        BY <4>3 DEF Changed, Types, TypeOK
      <4>5. drive_prev' = A
        BY <1>2, <1>6, <4>1
      <4> QED BY <1>2, <4>4, <4>5 DEF Fresh, CaughtUp, floppyVars
    <3>3. Resting'
      BY <1>2, <1>6, <2>2, <3>1, <3>2 DEF Resting, Ends
    <3> QED BY <2>3, <3>3
  <2> QED BY <2>4, <2>5
<1> QED BY <1>4, <1>5, <1>6 DEF Activate

LEMMA AccessSane ==
  ASSUME Types, Sane, Types', Access
  PROVE  Sane'
<1>1. Resting
  BY PhaseIs DEF Access
<1>2. /\ UNCHANGED <<floppyVars, driveVars, bufferVars, drive_prev, slipped, ret, answer, asked,
                     verified>>
      /\ Idle /\ answer = "ok" /\ geometry.drive = A
  BY DEF Access
<1>3. PICK at \in {"data", "single"} : stack' = <<Transfer(at, krsta + krsc, 0)>>
  BY DEF Access
<1>4. /\ Len(stack') = 1 /\ stack'[1].at = at /\ stack' # <<>> /\ Top'.at = at
      /\ ret' = "none"
  <2>1. Transfer(at, krsta + krsc, 0).at = at
    BY FrameIs, Places DEF Ats, Transfers
  <2> QED BY <1>1, <1>2, <1>3, <2>1 DEF Resting, Top
<1>5. Calls(stack')
  BY <1>4 DEF Calls
<1>6. /\ Whole' /\ Whole /\ asked = A /\ active_drive_num = A
      /\ verified => Fresh' /\ Fresh
      /\ root_buf_drive' = C => RootIsOf(HardDisk)'
  BY <1>1, <1>2
     DEF Resting, Sane, Idle, Whole, FatIsOf, RootIsOf, Fresh, CaughtUp, bufferVars, floppyVars, driveVars
<1>7. verified => (bios = "line" => ~line /\ CaughtUp)
  BY <1>6 DEF Fresh
<1>8. Calling'
  <2>1. verified' => (bios' = "line" => ~line' /\ CaughtUp') /\ Fresh'
    BY <1>2, <1>6, <1>7 DEF CaughtUp, bufferVars, floppyVars
  <2>2. active_drive_num' = A /\ asked' = A
    BY <1>2, <1>6 DEF driveVars
  <2> QED BY <1>5, <1>6, <2>1, <2>2 DEF Calling
<1>9. /\ bios = "line" => line \/ Known = inserted
      /\ bios = "line" /\ slipped = NoDisk => cwd[A] \in {ROOT_CLUSTER, slots[A]}
      /\ Known' = Known
  BY <1>2, NotRemounting DEF Known, driveVars
<1> QED BY <1>2, <1>6, <1>8, <1>9 DEF Sane, floppyVars, driveVars

LEMMA ChDirSane ==
  ASSUME Types, Sane, Types', ChDir
  PROVE  Sane'
<1>1. Resting
  BY PhaseIs DEF ChDir
<1>2. /\ UNCHANGED <<floppyVars, bufferVars, callVars, geometry, slots, cwd, active_drive_num,
                     drive_prev, slipped>>
      /\ Idle
      /\ cur_dir_cluster' \in {ROOT_CLUSTER, IF active_drive_num = A THEN RootBuf[1].disk
                                                                   ELSE geometry.disk}
  BY DEF ChDir
<1>3. Resting'
  BY <1>1, <1>2 DEF Resting, Whole, FatIsOf, RootIsOf, Fresh, CaughtUp, bufferVars, floppyVars, callVars
<1>4. bios = "line" /\ slipped = NoDisk /\ active_drive_num = A => cur_dir_cluster' \in {ROOT_CLUSTER, slots[A]}
  BY <1>1, <1>2 DEF Resting, Whole
<1>5. root_buf_drive' = C => RootIsOf(HardDisk)'
  BY <1>2 DEF Sane, Idle, RootIsOf, bufferVars
<1>6. /\ bios = "line" => line \/ Known = inserted
      /\ bios = "line" /\ slipped = NoDisk => cwd[A] \in {ROOT_CLUSTER, slots[A]}
      /\ Known' = Known
  BY <1>2, NotRemounting DEF Known
<1>7. verified' => asked' = A
  BY <1>2 DEF Sane, callVars
<1> QED BY <1>2, <1>3, <1>4, <1>5, <1>6, <1>7 DEF Sane, floppyVars


-----------------------------------------------------------------------------
(* Transfers *)

(* Another transfer, or what waited for this one, is on top. *)
LEMMA StaysRemounting ==
  ASSUME Types, Remounting, NEW f \in Frame,
         stack' = Append(Below, f) \/ (stack' = Below /\ (Len(stack) = 2 => Below[1].at \in Loads))
  PROVE  Remounting'
<1>1. stack \in Seq(Frame) /\ stack # <<>> /\ Len(stack) \in Nat /\ Len(stack) > 1
      /\ stack[1].at \in {"probe", "data", "single", "check"}
  BY EmptySeq DEF Types, Remounting
<1>2. /\ Below \in Seq(Frame) /\ Len(Below) = Len(stack) - 1
      /\ \A i \in 1 .. Len(stack) - 1 : Below[i] = stack[i]
  BY <1>1, Fronted DEF Below
<1>3. Below[1] = stack[1] /\ Below # <<>>
  <2>1. 1 \in 1 .. Len(stack) - 1
    BY <1>1
  <2> QED BY <1>1, <1>2, <2>1, EmptySeq
<1>4. CASE stack' = Append(Below, f)
  BY <1>1, <1>2, <1>3, <1>4, StaysFirst DEF Remounting
<1>5. CASE stack' = Below /\ (Len(stack) = 2 => Below[1].at \in Loads)
  <2>1. Len(stack) # 2
    BY <1>1, <1>3, <1>5 DEF Loads
  <2>2. Len(Below) > 1
    BY <1>1, <1>2, <2>1
  <2> QED BY <1>1, <1>3, <1>5, <2>2 DEF Remounting
<1> QED BY <1>4, <1>5

(* What a transfer leaves alone. *)
LEMMA StillSane ==
  ASSUME Sane, UNCHANGED <<floppyVars, driveVars, slipped, asked, verified>>,
         Resting' \/ Flushing' \/ Calling' \/ Loading' \/ AfterLoad',
         root_buf_drive' = C /\ (stack' = <<>> \/ Top'.at # "root") => RootIsOf(HardDisk)',
         bios = "line" /\ Remounting => Remounting'
  PROVE  Sane'
<1>1. /\ UNCHANGED <<bios, inserted, line, geometry, slots, cwd, cur_dir_cluster, active_drive_num,
                     asked, verified, slipped>>
      /\ Known' = Known
  BY DEF floppyVars, driveVars, Known
<1> QED BY <1>1 DEF Sane

(* A load reads the disk it is a load of. *)
LEMMA LoadReadsSource ==
  ASSUME Types, Loading, ~Reported
  PROVE  Medium = Source
<1>1. bios = "line" /\ geometry.drive = A => line \/ Source = inserted
  BY DEF Loading, LoadFor
<1>2. bios = "line" \/ bios = "latched"
  BY DEF Types, TypeOK
<1> QED BY <1>1, <1>2 DEF Medium, Source, Reported

LEMMA LoadingHas ==
  ASSUME Types, Loading
  PROVE  \E s \in Seq(Frame), w \in Loads, e \in Frame :
            /\ e.at = w /\ Below = Append(s, e) /\ Front(Below) = s /\ e = stack[Len(stack) - 1]
            /\ Below # <<>> /\ Below[Len(Below)] = e
            /\ Beneath(s, w) /\ LoadFor(w)
            /\ verified /\ bios = "line" /\ w # "restore" =>
                  ~line \/ (Top.at = "fat" /\ Top.es = 1 /\ w = "switch")
            /\ Len(stack) = 2 => Below[1].at \in Loads
<1> DEFINE s == Front(Front(stack))
           e == stack[Len(stack) - 1]
<1>1. stack \in Seq(Frame) /\ Len(stack) >= 2
  BY DEF Types, Loading
<1>2. /\ s \in Seq(Frame) /\ e \in Frame /\ Front(stack) = Append(s, e) /\ Front(stack) # <<>>
      /\ Front(stack)[Len(Front(stack))] = e
  BY <1>1, TwoDown
<1>3. Len(Front(stack)) = Len(stack) - 1
  BY <1>1, Fronted, EmptySeq
<1>4. e.at \in Loads /\ Beneath(s, e.at) /\ LoadFor(e.at)
      /\ (verified /\ bios = "line" /\ e.at # "restore" =>
                  ~line \/ (Top.at = "fat" /\ Top.es = 1 /\ e.at = "switch"))
  BY DEF Loading, Below
<1> HIDE DEF e, s
<1>5. Len(stack) = 2 => Front(stack)[1] = e
  BY <1>2, <1>3
<1>6. e = stack[Len(stack) - 1] /\ Front(Front(stack)) = s
  BY DEF e, s
<1> QED BY <1>2, <1>4, <1>5, <1>6 DEF Below

LEMMA SameLoadFor ==
  ASSUME NEW w, LoadFor(w), UNCHANGED <<floppyVars, driveVars, drive_req, drive_prev, slipped, asked>>
  PROVE  LoadFor(w)'
BY DEF LoadFor, Source, floppyVars, driveVars

LEMMA ReadFatSane ==
  ASSUME Types, Sane, Types', ReadFat
  PROVE  Sane'
<1>1. /\ ret = "none" /\ ~Idle /\ Top.at = "fat" /\ ~Reported
      /\ UNCHANGED <<floppyVars, driveVars, drive_req, drive_prev, RootBuf, root_buf_drive, ret,
                     asked, verified, slipped>>
      /\ FatBuf' = [FatBuf EXCEPT ![Top.es] = Sector(Medium, Top.lba)]
  BY DEF ReadFat, Moves, InTransfer, Goes
<1>2. Loading
  BY <1>1, PhaseIs
<1>3. /\ geometry.drive = A /\ Top.es \in 1 .. kfat_secs
      /\ drive_load_lba = kfat_start + Top.es - 1 /\ Top.lba = drive_load_lba
      /\ FatUpTo(Top.es)
  BY <1>1, <1>2 DEF Loading, PartLoaded
<1>4. PICK s \in Seq(Frame), w \in Loads, e \in Frame :
            /\ e.at = w /\ Below = Append(s, e)
            /\ Beneath(s, w) /\ LoadFor(w)
  BY <1>2, LoadingHas
<1>5. LoadFor(w)'
  BY <1>1, <1>4, SameLoadFor
<1>6. Source' = Source /\ Medium = Source
  BY <1>1, <1>2, LoadReadsSource DEF Source, floppyVars, driveVars
<1>8. PICK es : es = Top.es
  OBVIOUS
<1>9. FatUpTo(es + 1)'
  <2>1. FatBuf' = [FatBuf EXCEPT ![es] = Sector(Source, kfat_start + es - 1)]
    BY <1>1, <1>3, <1>6, <1>8
  <2>2. \A i \in 1 .. kfat_secs : i < es => FatBuf[i] = Sector(Source, kfat_start + i - 1)
    BY <1>3, <1>8 DEF FatUpTo
  <2>3. DOMAIN FatBuf = 1 .. kfat_secs /\ es \in 1 .. kfat_secs
    BY <1>3, <1>8 DEF Types, TypeOK
  <2>4. \A i \in 1 .. kfat_secs : i < es + 1 => FatBuf'[i] = Sector(Source, kfat_start + i - 1)
    <3> TAKE i \in 1 .. kfat_secs
    <3> HAVE i < es + 1
    <3>1. CASE i = es
      BY <2>1, <2>3, <3>1
    <3>2. CASE i # es
      <4>1. i < es
        BY <2>3, <3>2, Places
      <4> QED BY <2>1, <2>2, <2>3, <3>2, <4>1
    <3> QED BY <3>1, <3>2
  <2> QED BY <1>6, <2>4 DEF FatUpTo
<1>10. PICK f : /\ f = Transfer(IF es < kfat_secs THEN "fat" ELSE "root", drive_load_lba',
                                IF es < kfat_secs THEN es + 1 ELSE 1)
                /\ drive_load_lba' = IF es < kfat_secs THEN drive_load_lba + 1 ELSE krsta
                /\ stack' = Append(Below, f)
  BY <1>8 DEF ReadFat
<1>11. /\ f \in Frame /\ f.lba = drive_load_lba' /\ f.at \in {"fat", "root"}
       /\ f.at = IF es < kfat_secs THEN "fat" ELSE "root"
       /\ f.es = IF es < kfat_secs THEN es + 1 ELSE 1
  <2>1. drive_load_lba' \in Nat /\ es \in Nat
    BY <1>3, <1>8 DEF Types, TypeOK
  <2> QED BY <1>10, <2>1, FrameIs DEF Ats, Transfers
<1>12. PartLoaded(f)'
  <2>1. geometry'.drive = A
    BY <1>1, <1>3 DEF driveVars
  <2>2. CASE es < kfat_secs
    <3>0. /\ f.at = "fat" /\ f.es = es + 1 /\ drive_load_lba' = drive_load_lba + 1
          /\ es \in 1 .. kfat_secs /\ drive_load_lba = kfat_start + es - 1
      BY <1>3, <1>8, <1>10, <1>11, <2>2
    <3>1. f.at = "fat" /\ f.es = es + 1 /\ f.es \in 1 .. kfat_secs
          /\ drive_load_lba' = kfat_start + f.es - 1
      BY <2>2, <3>0, Places
    <3>2. FatUpTo(f.es)'
      BY <1>9, <3>1
    <3> QED BY <2>1, <3>1, <3>2 DEF PartLoaded
  <2>3. CASE ~(es < kfat_secs)
    <3>1. es = kfat_secs
      BY <1>3, <1>8, <2>3, Places
    <3>2. f.at = "root" /\ f.es = 1 /\ f.es \in 1 .. krsc /\ drive_load_lba' = krsta + f.es - 1
      BY <1>10, <1>11, <2>3, Places
    <3>3. FatUpTo(kfat_secs + 1)'
      BY <1>9, <3>1
    <3>4. RootUpTo(f.es)'
      BY <3>2, Places DEF RootUpTo
    <3> QED BY <2>1, <3>2, <3>3, <3>4, DrivesDiffer DEF PartLoaded
  <2> QED BY <2>2, <2>3
<1>13. bios' = "line" => ~line'
  BY <1>1, <1>3 DEF Reported, floppyVars
<1>14. stack' = Append(Append(s, e), f) /\ ret' = "none"
  BY <1>1, <1>4, <1>10
<1>15. Loading'
  BY <1>4, <1>5, <1>11, <1>12, <1>13, <1>14, LoadingIs
<1>16. root_buf_drive = C => RootIsOf(HardDisk)
  BY <1>1 DEF Sane
<1>17. root_buf_drive' = C => RootIsOf(HardDisk)'
  BY <1>1, <1>16 DEF RootIsOf
<1>18. Remounting => Remounting'
  BY <1>10, <1>11, StaysRemounting
<1> QED BY <1>1, <1>15, <1>17, <1>18, StillSane

LEMMA ReadRootSane ==
  ASSUME Types, Sane, Types', ReadRoot
  PROVE  Sane'
<1>1. /\ ret = "none" /\ ~Idle /\ Top.at = "root" /\ ~Reported
      /\ UNCHANGED <<floppyVars, driveVars, drive_req, drive_prev, FatBuf, asked, verified,
                     slipped>>
      /\ RootBuf' = [RootBuf EXCEPT ![Top.es] = Sector(Medium, Top.lba)]
      /\ drive_load_lba' = drive_load_lba + 1
  BY DEF ReadRoot, Moves, InTransfer, Goes
<1>2. Loading
  BY <1>1, PhaseIs
<1>3. /\ geometry.drive # D /\ Top.es \in 1 .. krsc
      /\ drive_load_lba = krsta + Top.es - 1 /\ Top.lba = drive_load_lba
      /\ geometry.drive = A => FatUpTo(kfat_secs + 1)
      /\ RootUpTo(Top.es)
  BY <1>1, <1>2 DEF Loading, PartLoaded
<1>4. PICK s \in Seq(Frame), w \in Loads, e \in Frame :
            /\ e.at = w /\ Below = Append(s, e) /\ Front(Below) = s
            /\ Below # <<>> /\ Below[Len(Below)] = e
            /\ Beneath(s, w) /\ LoadFor(w)
            /\ verified /\ bios = "line" /\ w # "restore" =>
                  ~line \/ (Top.at = "fat" /\ Top.es = 1 /\ w = "switch")
            /\ Len(stack) = 2 => Below[1].at \in Loads
  BY <1>2, LoadingHas
<1>5. LoadFor(w)'
  BY <1>1, <1>4, SameLoadFor
<1>6. Source' = Source /\ Medium = Source
  BY <1>1, <1>2, LoadReadsSource DEF Source, floppyVars, driveVars
<1>7. FatUpTo(kfat_secs + 1) => FatUpTo(kfat_secs + 1)'
  BY <1>1, <1>6 DEF FatUpTo
<1>8. PICK es : es = Top.es
  OBVIOUS
<1>9. RootUpTo(es + 1)'
  <2>1. RootBuf' = [RootBuf EXCEPT ![es] = Sector(Source, krsta + es - 1)]
    BY <1>1, <1>3, <1>6, <1>8
  <2>2. \A i \in 1 .. krsc : i < es => RootBuf[i] = Sector(Source, krsta + i - 1)
    BY <1>3, <1>8 DEF RootUpTo
  <2>3. DOMAIN RootBuf = 1 .. krsc /\ es \in 1 .. krsc
    BY <1>3, <1>8 DEF Types, TypeOK
  <2>4. \A i \in 1 .. krsc : i < es + 1 => RootBuf'[i] = Sector(Source, krsta + i - 1)
    <3> TAKE i \in 1 .. krsc
    <3> HAVE i < es + 1
    <3>1. CASE i = es
      BY <2>1, <2>3, <3>1
    <3>2. CASE i # es
      <4>1. i < es
        BY <2>3, <3>2, Places
      <4> QED BY <2>1, <2>2, <2>3, <3>2, <4>1
    <3> QED BY <3>1, <3>2
  <2> QED BY <1>6, <2>4 DEF RootUpTo
<1>10. verified' /\ bios' = "line" /\ w # "restore" => ~line'
  BY <1>1, <1>4 DEF floppyVars
<1>11. geometry' = geometry
  BY <1>1 DEF driveVars
<1>12. CASE es < krsc
  <2>1. PICK f : /\ f = Transfer("root", drive_load_lba', es + 1)
                 /\ stack' = Append(Below, f) /\ ret' = "none"
    BY <1>1, <1>8, <1>12 DEF ReadRoot
  <2>2. f \in Frame /\ f.lba = drive_load_lba' /\ f.at = "root" /\ f.es = es + 1
    <3>1. drive_load_lba' \in Nat /\ es + 1 \in Nat
      BY <1>3, <1>8 DEF Types, TypeOK
    <3> QED BY <2>1, <3>1, FrameIs DEF Ats, Transfers
  <2>3. PartLoaded(f)'
    <3>0. /\ f.es = es + 1 /\ drive_load_lba' = drive_load_lba + 1
          /\ es \in 1 .. krsc /\ drive_load_lba = krsta + es - 1
      BY <1>1, <1>3, <1>8, <2>2
    <3>1. f.es \in 1 .. krsc /\ drive_load_lba' = krsta + f.es - 1
      BY <1>12, <3>0, Places
    <3>2. RootUpTo(f.es)'
      BY <1>9, <2>2
    <3> QED BY <1>3, <1>7, <1>11, <2>2, <3>1, <3>2 DEF PartLoaded
  <2>4. stack' = Append(Append(s, e), f)
    BY <1>4, <2>1
  <2>5. Loading' /\ Top' = f /\ stack' # <<>>
    BY <1>4, <1>5, <1>10, <2>1, <2>2, <2>3, <2>4, LoadingIs
  <2>6. Remounting => Remounting'
    BY <2>1, <2>2, StaysRemounting
  <2> QED BY <1>1, <2>2, <2>5, <2>6, StillSane
<1>13. CASE ~(es < krsc)
  <2>1. es + 1 = krsc + 1
    BY <1>3, <1>8, <1>13, Places
  <2>2. root_buf_drive' = drive_req /\ stack' = Below /\ ret' = "ok"
    BY <1>8, <1>13 DEF ReadRoot, Answers
  <2>3. RootUpTo(krsc + 1)'
    BY <1>9, <2>1
  <2>4. Top' = e /\ Below' = s /\ stack' # <<>>
    BY <1>4, <2>2 DEF Top, Below
  <2>5. Loaded'
    BY <1>3, <1>7, <1>11, <2>3 DEF Loaded
  <2>6. AfterLoad'
    BY <1>4, <1>5, <1>10, <2>2, <2>4, <2>5 DEF AfterLoad
  <2>7. root_buf_drive' = C => RootIsOf(HardDisk)'
    <3>1. ASSUME drive_req = C PROVE Source = HardDisk
      BY <1>4, <3>1, DrivesDiffer DEF LoadFor, Source, Sane
    <3>2. \A i \in 1 .. krsc : RootBuf'[i] = Sector(Source, krsta + i - 1)
      BY <1>6, <2>3, Places DEF RootUpTo
    <3> QED BY <2>2, <3>1, <3>2 DEF RootIsOf
  <2>8. Remounting => Remounting'
    BY <1>4, <2>2, StaysRemounting
  <2> QED BY <1>1, <2>6, <2>7, <2>8, StillSane
<1> QED BY <1>12, <1>13

(* A call. *)
LEMMA CallHas ==
  ASSUME Types, Calling
  PROVE  /\ Calls(stack) /\ stack # <<>> /\ ~Idle /\ Below \in Seq(Frame)
         /\ Whole /\ active_drive_num = A /\ asked = A /\ geometry.drive = A
         /\ stack[1].at \in {"probe", "data", "single", "check"}
         /\ IF Len(stack) = 1
            THEN Top = stack[1] /\ ~Remounting
            ELSE /\ Top.at = "boot" /\ Remounting /\ Calls(Below) /\ Below[1] = stack[1]
                 /\ Below # <<>> /\ Below[Len(Below)].at # "root"
<1>1. Calls(stack) /\ stack \in Seq(Frame)
  BY DEF Calling, Types
<1>2. /\ stack # <<>> /\ Len(stack) \in Nat /\ Len(stack) > 0
      /\ IF Len(stack) = 1
         THEN stack[Len(stack)].at \in {"probe", "data", "single", "check"}
         ELSE /\ stack[Len(stack)].at = "boot" /\ Len(stack) > 1
              /\ Calls(Front(stack)) /\ Front(stack)[1] = stack[1]
  BY <1>1, CallsShrink
<1>3. Front(stack) \in Seq(Frame)
  BY <1>1, <1>2, Fronted
<1>4. ASSUME Calls(Front(stack))
      PROVE  Front(stack) # <<>> /\ Front(stack)[Len(Front(stack))].at # "root"
  BY <1>3, <1>4, CallsShrink
<1> QED BY <1>1, <1>2, <1>3, <1>4 DEF Calling, Calls, Idle, Below, Top, Remounting, Whole

LEMMA SameWhole ==
  ASSUME Whole, UNCHANGED <<bios, geometry, slots, active_drive_num, slipped, FatBuf, RootBuf>>
  PROVE  Whole'
BY DEF Whole, FatIsOf, RootIsOf

LEMMA SameFresh ==
  ASSUME Fresh, UNCHANGED <<bios, inserted, line, drive_prev, slipped, RootBuf>>
  PROVE  Fresh'
BY DEF Fresh, CaughtUp

LEMMA SameRoot ==
  ASSUME Sane, Idle \/ Top.at # "root", UNCHANGED RootBuf,
         UNCHANGED root_buf_drive \/ root_buf_drive' = NoDrive
  PROVE  root_buf_drive' = C => RootIsOf(HardDisk)'
BY DEF Sane, RootIsOf, Idle, NoDrive, C

LEMMA ReadBootSane ==
  ASSUME Types, Sane, Types', ReadBoot
  PROVE  Sane'
<1>1. /\ ~Idle /\ Top.at = "boot" /\ ~Reported
      /\ geometry' = [geometry EXCEPT !.disk = Medium]
      /\ cur_dir_cluster' = ROOT_CLUSTER
      /\ drive_req' = active_drive_num
      /\ Load(geometry', drive_req', Append(Below, Waiting("reload")))
      /\ UNCHANGED <<floppyVars, asked, verified, slots, cwd, active_drive_num, drive_prev>>
      /\ slipped' = NoDisk
  BY DEF ReadBoot, Moves, InTransfer
<1>2. Calling
  BY <1>1, PhaseIs
<1>3. /\ Below \in Seq(Frame) /\ active_drive_num = A /\ asked = A /\ geometry.drive = A
      /\ Top.at # "root"
      /\ Calls(Below)
  BY <1>1, <1>2, CallHas
<1>4. Medium = inserted
  BY <1>3 DEF Medium
<1>5. bios = "line" => ~line
  BY <1>1, <1>3 DEF Reported
<1>6. geometry'.drive = A /\ geometry'.disk = inserted
  BY <1>1, <1>3, <1>4 DEF Types, TypeOK
<1>7. LoadFor("reload")'
  BY <1>1, <1>3, <1>6 DEF LoadFor, Source, floppyVars
<1>8. "reload" \in Loads /\ Beneath(Below, "reload")
  BY <1>3 DEF Loads, Beneath
<1>9. /\ geometry'.drive # C
      /\ verified' /\ bios' = "line" => geometry'.drive = A /\ ~line'
  BY <1>1, <1>5, <1>6, DrivesDiffer DEF floppyVars
<1>10. /\ Loading' \/ AfterLoad'
       /\ root_buf_drive' = C /\ (stack' = <<>> \/ Top'.at # "root") => RootIsOf(HardDisk)'
       /\ Remounting'
  BY <1>1, <1>3, <1>7, <1>8, <1>9, LoadBegins
<1> QED BY <1>1, <1>3, <1>6, <1>9, <1>10 DEF Sane, floppyVars

LEMMA ReadProbeSane ==
  ASSUME Types, Sane, Types', ReadProbe
  PROVE  Sane'
<1>1. /\ ret = "none" /\ ~Idle /\ Top.at = "probe" /\ ~Reported
      /\ UNCHANGED <<floppyVars, asked, verified, slipped, driveVars, bufferVars, drive_prev>>
  BY DEF ReadProbe, Moves, InTransfer, Goes
<1>2. Calling
  BY <1>1, PhaseIs
<1>3. /\ Whole /\ active_drive_num = A /\ asked = A /\ geometry.drive = A /\ ~Remounting
      /\ Top.at # "root"
  BY <1>1, <1>2, CallHas
<1>4. /\ Whole'
      /\ root_buf_drive' = C => RootIsOf(HardDisk)'
  BY <1>1, <1>3, SameWhole, SameRoot DEF floppyVars, driveVars, bufferVars
<1>5. bios = "line" => ~line
  BY <1>1, <1>3 DEF Reported
<1>6. Resting' \/ Calling'
  <2>1. CASE RootBuf[1] = Sector(Medium, krsta)
    <3>1. Ends("ok")
      BY <2>1 DEF ReadProbe
    <3>2. RootBuf[1].disk = inserted
      BY <1>3, <2>1 DEF Medium, Sector
    <3>3. verified => Fresh
      BY <1>2, <1>5, <3>2 DEF Fresh, Calling
    <3>4. verified' => Fresh'
      BY <1>1, <3>3, SameFresh DEF floppyVars, bufferVars
    <3>5. active_drive_num' = asked'
      BY <1>1, <1>3 DEF driveVars
    <3> QED BY <1>4, <3>1, <3>4, <3>5 DEF Resting, Ends
  <2>2. CASE RootBuf[1] # Sector(Medium, krsta)
    <3>1. PICK c, b : c = Waiting("check") /\ b = Transfer("boot", 0, 0)
      OBVIOUS
    <3>2. stack' = <<c, b>> /\ ret' = "none" /\ c.at = "check" /\ b.at = "boot"
      <4>1. stack' = <<c, b>> /\ ret' = "none"
        BY <1>1, <2>2, <3>1 DEF ReadProbe
      <4> QED BY <3>1, <4>1, FrameIs DEF Ats, Transfers
    <3>3. Calls(stack') /\ stack'[1] = c
      BY <3>2 DEF Calls
    <3>4. active_drive_num' = A /\ asked' = A
      BY <1>1, <1>3 DEF driveVars
    <3>5. /\ bios' = "line" => ~line'
          /\ verified' /\ bios' = "line" => CaughtUp'
      BY <1>1, <1>2, <1>5 DEF Calling, CaughtUp, bufferVars, floppyVars
    <3> QED BY <1>4, <3>2, <3>3, <3>4, <3>5 DEF Calling
  <2> QED BY <2>1, <2>2
<1> QED BY <1>1, <1>3, <1>4, <1>6, StillSane

LEMMA ReadDataSane ==
  ASSUME Types, Sane, Types', ReadData
  PROVE  Sane'
<1>1. /\ ~Idle /\ Top.at \in {"data", "single"} /\ ~Reported /\ Ends("ok")
      /\ UNCHANGED <<floppyVars, asked, verified, slipped, driveVars, bufferVars, drive_prev>>
  BY DEF ReadData, Moves, InTransfer, Goes
<1>2. Calling
  BY <1>1, PhaseIs
<1>3. /\ Whole /\ active_drive_num = A /\ asked = A /\ geometry.drive = A /\ ~Remounting
      /\ Top.at # "root" /\ stack[1].at \in {"data", "single"}
  BY <1>1, <1>2, CallHas
<1>4. /\ Whole'
      /\ root_buf_drive' = C => RootIsOf(HardDisk)'
  BY <1>1, <1>3, SameWhole, SameRoot DEF floppyVars, driveVars, bufferVars
<1>5. ASSUME verified PROVE Fresh
  <2>1. bios = "line" => ~line /\ CaughtUp
    BY <1>1, <1>2, <1>3, <1>5 DEF Reported, Calling
  <2>2. bios = "latched" => Fresh
    BY <1>2, <1>3, <1>5 DEF Calling
  <2>3. bios = "line" \/ bios = "latched"
    BY DEF Types, TypeOK
  <2> QED BY <2>1, <2>2, <2>3 DEF Fresh
<1>6. verified' => Fresh'
  BY <1>1, <1>5, SameFresh DEF floppyVars, bufferVars
<1>7. active_drive_num' = asked'
  BY <1>1, <1>3 DEF driveVars
<1>8. Resting'
  BY <1>1, <1>4, <1>6, <1>7 DEF Resting, Ends
<1> QED BY <1>1, <1>3, <1>4, <1>8, StillSane

(* A burst that fails is tried sector by sector; when it was the change    *)
(* line's error, what is known of the floppy is now that it slipped in.    *)
LEMMA BurstFailsSane ==
  ASSUME Types, Sane, Types', BurstFails
  PROVE  Sane'
<1>1. /\ ~Idle /\ Top.at = "data" /\ ret = "none"
      /\ stack' = <<Transfer("single", Top.lba, 0)>> /\ line' = FALSE
      /\ slipped' = IF Reported THEN inserted ELSE slipped
      /\ UNCHANGED <<bios, inserted, driveVars, bufferVars, drive_prev, ret, asked, verified>>
  BY DEF BurstFails, InTransfer
<1>2. Calling
  BY <1>1, PhaseIs
<1>3. /\ Whole /\ active_drive_num = A /\ asked = A /\ geometry.drive = A /\ ~Remounting
      /\ stack[1].at = "data" /\ Top.lba \in Nat
  BY <1>1, <1>2, CallHas, StackTypes
<1>4. /\ Len(stack') = 1 /\ stack'[1].at = "single" /\ stack' # <<>> /\ Top'.at = "single"
  <2>1. Transfer("single", Top.lba, 0).at = "single"
    BY <1>3, FrameIs DEF Ats, Transfers
  <2> QED BY <1>1, <2>1 DEF Top
<1>5. Calls(stack')
  BY <1>4 DEF Calls
<1>6. Reported <=> bios = "line" /\ line
  BY <1>3 DEF Reported
<1>7. slipped' = NoDisk => slipped = NoDisk
  BY <1>1, MediaChangeAssumption DEF Types, TypeOK
<1>8. UNCHANGED <<bios, inserted, geometry, slots, cwd, cur_dir_cluster, active_drive_num,
                  FatBuf, RootBuf, root_buf_drive, drive_prev, ret, asked, verified>>
  BY <1>1 DEF driveVars, bufferVars
<1>9. Whole'
  BY <1>3, <1>7, <1>8 DEF Whole, FatIsOf, RootIsOf
<1>10. bios = "line" => Known' = inserted
  <2>1. CASE Reported
    BY <1>1, <1>7, <2>1, MediaChangeAssumption DEF Known, Types, TypeOK
  <2>2. CASE ~Reported
    BY <1>1, <1>3, <1>6, <1>8, <2>2 DEF Sane, Known
  <2> QED BY <2>1, <2>2
<1>11. verified => (bios = "line" => ~line /\ CaughtUp) /\ (bios = "latched" => Fresh)
  BY <1>1, <1>2, <1>3 DEF Calling
<1>12. verified' => (bios' = "line" => CaughtUp') /\ (bios' = "latched" => Fresh')
  <2>1. bios = "latched" => (Fresh => Fresh')
    BY <1>8 DEF Fresh
  <2>2. bios = "line" /\ ~line /\ CaughtUp => CaughtUp'
    BY <1>1, <1>6, <1>8 DEF CaughtUp
  <2> QED BY <1>8, <1>11, <2>1, <2>2
<1>13. Calling'
  BY <1>1, <1>3, <1>4, <1>5, <1>8, <1>9, <1>12 DEF Calling
<1>14. root_buf_drive' = C => RootIsOf(HardDisk)'
  BY <1>1, <1>8 DEF Sane, Idle, RootIsOf
<1> QED BY <1>3, <1>7, <1>8, <1>10, <1>13, <1>14 DEF Sane

LEMMA FlushFatSane ==
  ASSUME Types, Sane, Types', FlushFat
  PROVE  Sane'
<1>1. /\ ~Idle /\ Top.at = "flush" /\ SwitchTo(drive_req, <<>>)
      /\ UNCHANGED <<floppyVars, asked, verified, slipped, slots, cur_dir_cluster, active_drive_num,
                     drive_req, drive_prev>>
  BY DEF FlushFat, Moves, InTransfer, Goes
<1>2. Flushing
  BY <1>1, PhaseIs
<1>3. drive_req \in Drives /\ drive_prev = active_drive_num /\ drive_req = asked /\ ~verified
      /\ Len(stack) = 1
  BY <1>2 DEF Flushing, Types, TypeOK
<1>4. /\ bios = "line" => line \/ Known = inserted
      /\ bios = "line" /\ slipped = NoDisk => cwd[A] \in {ROOT_CLUSTER, slots[A]}
  BY <1>3 DEF Sane, Remounting
<1> QED BY <1>1, <1>3, <1>4, HasSwitched

LEMMA FailSane ==
  ASSUME Types, Sane, Types', Fail, ~spoiled'
  PROVE  Sane'
<1>1. /\ ~Idle /\ Top.at \in Transfers /\ TransferFails
      /\ Top.at = "boot" => bios # "line"
      /\ UNCHANGED <<floppyVars, driveVars, FatBuf, RootBuf, drive_load_lba, drive_req, drive_prev,
                     asked, verified, slipped>>
  BY DEF Fail
<1>2. UNCHANGED root_buf_drive \/ root_buf_drive' = NoDrive
  BY <1>1 DEF TransferFails
<1>3. root_buf_drive' = C => RootIsOf(HardDisk)'
  <2>1. CASE Top.at = "root"
    BY <1>1, <2>1 DEF TransferFails, NoDrive, C
  <2>2. CASE Top.at # "root"
    BY <1>1, <1>2, <2>2, SameRoot
  <2> QED BY <2>1, <2>2
<1>4. Whole => Whole'
  BY <1>1, SameWhole DEF floppyVars, driveVars
<1>5. CASE Top.at \in {"probe", "data", "single"}
  <2>1. Calling
    BY <1>1, <1>5, PhaseIs
  <2>2. Whole /\ Len(stack) = 1 /\ ~Remounting
    BY <1>5, <2>1, CallHas
  <2>3. Resting'
    BY <1>1, <1>4, <2>2 DEF TransferFails, Ends, Resting
  <2> QED BY <1>1, <1>3, <2>2, <2>3, StillSane
<1>6. CASE Top.at = "flush"
  <2>1. Flushing
    BY <1>1, <1>6, PhaseIs
  <2>2. Whole /\ Len(stack) = 1 /\ ~Remounting
    BY <2>1 DEF Flushing, Remounting
  <2>3. Resting'
    BY <1>1, <1>4, <2>2 DEF TransferFails, Ends, Resting
  <2> QED BY <1>1, <1>3, <2>2, <2>3, StillSane
<1>7. CASE Top.at = "boot"
  <2>1. Calling
    BY <1>1, <1>7, PhaseIs
  <2>2. /\ Whole /\ Len(stack) # 1 /\ Calls(Below) /\ Below[1] = stack[1]
        /\ active_drive_num = A /\ asked = A
    BY <1>7, <2>1, CallHas
  <2>3. stack' = Below /\ ret' = "failed"
    BY <1>1, <2>2 DEF TransferFails, Answers
  <2>4. verified => (bios = "latched" /\ stack[1].at \in {"data", "single"} => Fresh)
    BY <2>1 DEF Calling
  <2>5. Fresh => Fresh'
    BY <1>1, SameFresh DEF floppyVars
  <2>6. bios' # "line" /\ bios' = bios /\ verified' = verified /\ active_drive_num' = A /\ asked' = A
    BY <1>1, <1>7, <2>2 DEF floppyVars, driveVars
  <2>7. Calling'
    BY <1>4, <2>2, <2>3, <2>4, <2>5, <2>6 DEF Calling
  <2> QED BY <1>1, <1>3, <1>7, <2>7, StillSane
<1>8. CASE Top.at \in {"fat", "root"}
  <2>1. Loading
    BY <1>1, <1>8, PhaseIs
  <2>2. PICK s \in Seq(Frame), w \in Loads, e \in Frame :
            /\ e.at = w /\ Below = Append(s, e) /\ Front(Below) = s
            /\ Below # <<>> /\ Below[Len(Below)] = e
            /\ Beneath(s, w) /\ LoadFor(w)
            /\ Len(stack) = 2 => Below[1].at \in Loads
    BY <2>1, LoadingHas
  <2>3. stack' = Below /\ ret' = "failed"
    <3>1. PICK n \in Nat : n = Len(stack) /\ n >= 2
      BY <2>1 DEF Loading, Types
    <3>2. n # 1
      BY <3>1
    <3> QED BY <1>1, <3>1, <3>2 DEF TransferFails, Answers
  <2>4. Top' = e /\ Below' = s /\ stack' # <<>>
    BY <2>2, <2>3 DEF Top, Below
  <2>5. LoadFor(w)'
    BY <1>1, <2>2, SameLoadFor
  <2>6. AfterLoad'
    BY <2>2, <2>3, <2>4, <2>5 DEF AfterLoad
  <2>7. Remounting => Remounting'
    BY <2>2, <2>3, StaysRemounting
  <2> QED BY <1>1, <1>3, <2>6, <2>7, StillSane
<1> QED BY <1>1, <1>5, <1>6, <1>7, <1>8 DEF Transfers

LEMMA RemountSane ==
  ASSUME Types, Sane, Types', Remount, ~spoiled'
  PROVE  Sane'
<1>1. /\ ~Idle /\ Top.at \in Transfers /\ Reported /\ ~Spoils(stack) /\ ret = "none"
      /\ line' = FALSE /\ stack' = Append(stack, Transfer("boot", 0, 0))
      /\ UNCHANGED <<bios, inserted, driveVars, bufferVars, ret, asked, verified, drive_prev, slipped>>
  BY DEF Remount
<1>2. bios = "line" /\ line
  BY <1>1 DEF Reported
<1>3. Top.at \notin {"fat", "root", "flush"}
  <2>1. Len(stack) \in DOMAIN stack
    BY <1>1, Fronted DEF Idle, Types
  <2> QED BY <1>1, <2>1 DEF Spoils, Top
<1>4. Calling
  BY <1>1, <1>3, PhaseIs DEF Transfers
<1>5. /\ Calls(stack) /\ Whole /\ active_drive_num = A /\ asked = A
      /\ stack[1].at \in {"probe", "data", "single", "check"}
      /\ Top.at # "root"
  BY <1>3, <1>4, CallHas
<1>6. PICK f : f = Transfer("boot", 0, 0)
  OBVIOUS
<1>7. f \in Frame /\ f.at = "boot"
  BY <1>6, FrameIs DEF Ats, Transfers
<1>8. /\ Calls(stack') /\ stack'[1] = stack[1] /\ Len(stack') > 1
      /\ stack' # <<>> /\ stack'[Len(stack')] = f
  <2>1. stack \in Seq(Frame)
    BY DEF Types
  <2> QED BY <1>1, <1>5, <1>6, <1>7, <2>1, CallsGrow, Appended
<1>9. Whole'
  BY <1>1, <1>5, SameWhole DEF driveVars, bufferVars
<1>10. Remounting' /\ Top'.at = "boot"
  BY <1>5, <1>7, <1>8 DEF Remounting, Top
<1>11. active_drive_num' = A /\ asked' = A /\ bios' = "line" /\ ~line'
  BY <1>1, <1>2, <1>5 DEF driveVars
<1>12. Calling'
  <2>1. verified' => CaughtUp'
    BY <1>1, <1>2, <1>4 DEF Calling, CaughtUp, bufferVars
  <2> QED BY <1>8, <1>9, <1>11, <2>1 DEF Calling
<1>13. root_buf_drive' = C => RootIsOf(HardDisk)'
  BY <1>1, <1>5, SameRoot DEF bufferVars
<1>14. UNCHANGED <<bios, inserted, geometry, slots, cwd, cur_dir_cluster, active_drive_num,
                   asked, verified, slipped>>
  BY <1>1 DEF driveVars
<1> QED BY <1>10, <1>12, <1>13, <1>14 DEF Sane

LEMMA RetrySane ==
  ASSUME Types, Sane, Types', Retry
  PROVE  Sane'
<1>1. /\ ~Idle /\ Top.at \in Transfers /\ ret = "ok" /\ ret' = "none"
      /\ UNCHANGED <<floppyVars, driveVars, bufferVars, stack, asked, verified, drive_prev, slipped>>
  BY DEF Retry
<1>2. Calling
  <2>1. ~Loading /\ ~Flushing /\ ~Resting
    BY <1>1 DEF Loading, Flushing, Resting
  <2>2. ~AfterLoad
    BY <1>1 DEF AfterLoad, Transfers, Loads
  <2> QED BY <2>1, <2>2 DEF Sane
<1>3. /\ Whole /\ Calls(stack) /\ active_drive_num = A /\ asked = A
      /\ Top.at # "root"
  BY <1>1, <1>2, CallHas DEF Transfers
<1>4. Whole'
  BY <1>1, <1>3, SameWhole DEF floppyVars, driveVars, bufferVars
<1>5. /\ Fresh => Fresh'
      /\ CaughtUp => CaughtUp'
      /\ Remounting => Remounting'
      /\ Top' = Top /\ Len(stack') = Len(stack)
  BY <1>1, SameFresh DEF CaughtUp, floppyVars, bufferVars, Remounting, Top
<1>6. /\ active_drive_num' = active_drive_num /\ bios' = bios /\ line' = line
      /\ stack' = stack /\ asked' = asked
  BY <1>1 DEF floppyVars, driveVars
<1>7. verified' => /\ bios' = "line" => ~line' \/ (Len(stack') = 1 /\ Top'.at = "probe")
                   /\ bios' = "line" => CaughtUp'
                   /\ bios' = "latched" /\ (stack'[1].at \in {"data", "single"} \/ ret' = "ok") => Fresh'
  BY <1>1, <1>2, <1>5, <1>6 DEF Calling
<1>8. Calling'
  BY <1>3, <1>4, <1>6, <1>7 DEF Calling
<1>9. root_buf_drive' = C => RootIsOf(HardDisk)'
  BY <1>1, <1>3, SameRoot DEF bufferVars
<1> QED BY <1>1, <1>5, <1>8, <1>9, StillSane

-----------------------------------------------------------------------------
(* What waited for a load *)

LEMMA LoadMakesWhole ==
  ASSUME Types, Sane, AfterLoad, ret = "ok"
  PROVE  /\ geometry.drive = A => FatIsOf(RootBuf[1].disk) /\ RootIsOf(RootBuf[1].disk)
                                  /\ RootBuf[1].disk = Source
         /\ geometry.drive = C => RootIsOf(HardDisk)
<1>1. Loaded
  BY DEF AfterLoad
<1>2. ASSUME geometry.drive # D PROVE RootIsOf(Source) /\ RootBuf[1].disk = Source
  <2>1. \A i \in 1 .. krsc : i < krsc + 1
    BY Places
  <2>2. \A i \in 1 .. krsc : RootBuf[i] = Sector(Source, krsta + i - 1)
    BY <1>1, <1>2, <2>1 DEF Loaded, RootUpTo
  <2>3. 1 \in 1 .. krsc
    BY Places
  <2>4. RootBuf[1] = Sector(Source, krsta + 1 - 1)
    BY <2>2, <2>3
  <2>5. RootBuf[1].disk = Source
    <3>1. \A disk, lba : Sector(disk, lba).disk = disk
      BY DEF Sector
    <3> QED BY <2>4, <3>1, Zenon
  <2> QED BY <2>2, <2>5 DEF RootIsOf
<1>3. ASSUME geometry.drive = A PROVE FatIsOf(Source)
  <2>1. \A i \in 1 .. kfat_secs : i < kfat_secs + 1
    BY Places
  <2> QED BY <1>1, <1>3, <2>1 DEF Loaded, FatUpTo, FatIsOf
<1>4. ASSUME geometry.drive = C PROVE Source = HardDisk
  BY <1>4, DrivesDiffer DEF Source, Sane
<1> QED BY <1>2, <1>3, <1>4, DrivesDiffer

(* The routine that waits is alone, or the reload of a call's remount. *)
LEMMA AfterLoadHas ==
  ASSUME Types, AfterLoad
  PROVE  /\ Beneath(Below, Top.at) /\ LoadFor(Top.at) /\ Top.at \in Loads /\ Top.at # "root"
         /\ Top.at # "reload" => /\ Below = <<>> /\ ~Remounting
                                 /\ (bios = "line" /\ Sane => line \/ Known = inserted)
                                 /\ (bios = "line" /\ Sane /\ slipped = NoDisk =>
                                       cwd[A] \in {ROOT_CLUSTER, slots[A]})
         /\ verified /\ bios = "line" /\ ret = "ok" /\ Top.at # "restore" => ~line
<1>1. Beneath(Below, Top.at) /\ LoadFor(Top.at) /\ Top.at \in Loads
  BY DEF AfterLoad
<1>2. ASSUME Top.at # "reload" PROVE Below = <<>> /\ ~Remounting
  <2>1. Below = <<>>
    BY <1>1, <1>2 DEF Beneath
  <2>2. Len(stack) = 1
    BY <2>1, Fronted DEF AfterLoad, Types, Below
  <2> QED BY <2>1, <2>2 DEF Remounting
<1>3. ASSUME bios = "line", Sane, ~Remounting
      PROVE  /\ line \/ Known = inserted
             /\ slipped = NoDisk => cwd[A] \in {ROOT_CLUSTER, slots[A]}
  BY <1>3 DEF Sane
<1> QED BY <1>1, <1>2, <1>3 DEF AfterLoad, Loads

LEMMA ReloadedSane ==
  ASSUME Types, Sane, Types', Reloaded, ~spoiled'
  PROVE  Sane'
<1>1. /\ ~Idle /\ Top.at = "reload" /\ ret = "ok"
      /\ cwd' = [cwd EXCEPT ![A] = ROOT_CLUSTER]
      /\ slots' = [slots EXCEPT ![A] = geometry.disk]
      /\ stack' = Below /\ ret' = "ok"
      /\ UNCHANGED <<floppyVars, bufferVars, geometry, cur_dir_cluster, active_drive_num, asked,
                     verified, drive_prev, slipped>>
  BY DEF Reloaded, Awaits, Answers
<1>2. AfterLoad
  BY <1>1, PhaseIs DEF Loads
<1>3. Calls(Below) /\ LoadFor("reload") /\ (verified /\ bios = "line" => ~line)
  BY <1>1, <1>2, AfterLoadHas DEF Beneath
<1>4. /\ geometry.drive = A /\ active_drive_num = A /\ asked = A
      /\ cur_dir_cluster = ROOT_CLUSTER /\ slipped = NoDisk
      /\ bios = "line" => line \/ Source = inserted
  BY <1>3 DEF LoadFor
<1>5. /\ FatIsOf(RootBuf[1].disk) /\ RootIsOf(RootBuf[1].disk) /\ RootBuf[1].disk = Source
  BY <1>1, <1>2, <1>4, LoadMakesWhole
<1>6. slots'[A] = geometry.disk /\ slots'[C] = HardDisk /\ cwd'[A] = ROOT_CLUSTER
  BY <1>1, DrivesDiffer DEF Types, TypeOK, Sane
<1>7. FatIsOf(RootBuf[1].disk)' /\ RootIsOf(RootBuf[1].disk)' /\ RootBuf' = RootBuf
  BY <1>1, <1>5 DEF FatIsOf, RootIsOf, bufferVars
<1>8. bios' = bios /\ inserted' = inserted /\ line' = line /\ geometry' = geometry
      /\ active_drive_num' = A /\ asked' = A /\ verified' = verified
      /\ cur_dir_cluster' = ROOT_CLUSTER /\ slipped' = NoDisk
  BY <1>1, <1>4 DEF floppyVars
<1>9. bios = "line" => geometry.disk = RootBuf[1].disk
  BY <1>4, <1>5 DEF Source
<1>10. Whole'
  BY <1>4, <1>6, <1>7, <1>8, <1>9, DrivesDiffer DEF Whole
<1>11. bios = "latched" => Fresh'
  BY <1>4, <1>5, <1>7, <1>8 DEF Fresh, Source
<1>12. Calling'
  <2>1. CaughtUp'
    BY <1>8 DEF CaughtUp
  <2> QED BY <1>1, <1>3, <1>8, <1>10, <1>11, <2>1 DEF Calling
<1>13. root_buf_drive' = C => RootIsOf(HardDisk)'
  BY <1>1, SameRoot DEF bufferVars
<1>14. bios = "line" => line' \/ Known' = inserted'
  BY <1>4, <1>6, <1>8 DEF Known, Source
<1> QED BY <1>4, <1>6, <1>8, <1>12, <1>13, <1>14, DrivesDiffer DEF Sane

LEMMA CheckedSane ==
  ASSUME Types, Sane, Types', Checked
  PROVE  Sane'
<1>1. /\ ~Idle /\ Top.at = "check" /\ Ends(ret)
      /\ UNCHANGED <<floppyVars, asked, verified, slipped, driveVars, bufferVars, drive_prev>>
  BY DEF Checked, Awaits, Goes
<1>2. Calling
  BY <1>1, PhaseIs
<1>3. /\ Whole /\ active_drive_num = A /\ asked = A /\ ~Remounting /\ Top.at # "root"
  BY <1>1, <1>2, CallHas
<1>4. /\ Whole'
      /\ root_buf_drive' = C => RootIsOf(HardDisk)'
  BY <1>1, <1>3, SameWhole, SameRoot DEF floppyVars, driveVars, bufferVars
<1>5. ASSUME verified, ret = "ok" PROVE Fresh
  <2>1. bios = "line" => ~line /\ CaughtUp
    BY <1>1, <1>2, <1>5 DEF Calling
  <2>2. bios = "latched" => Fresh
    BY <1>2, <1>5 DEF Calling
  <2>3. bios = "line" \/ bios = "latched"
    BY DEF Types, TypeOK
  <2> QED BY <2>1, <2>2, <2>3 DEF Fresh
<1>6. verified' /\ ret = "ok" => Fresh'
  BY <1>1, <1>5, SameFresh DEF floppyVars, bufferVars
<1>7. active_drive_num' = asked'
  BY <1>1, <1>3 DEF driveVars
<1>8. Resting'
  BY <1>1, <1>4, <1>6, <1>7 DEF Resting, Ends
<1> QED BY <1>1, <1>3, <1>4, <1>8, StillSane

LEMMA SwitchedSane ==
  ASSUME Types, Sane, Types', Switched
  PROVE  Sane'
<1>1. /\ ~Idle /\ Top.at = "switch" /\ ret = "ok" /\ Ends("ok")
      /\ active_drive_num' = drive_req /\ cur_dir_cluster' = cwd[drive_req]
      /\ UNCHANGED <<floppyVars, asked, verified, slipped, drive_prev, bufferVars, geometry, slots, cwd>>
  BY DEF Switched, Awaits, Goes
<1>2. AfterLoad
  BY <1>1, PhaseIs DEF Loads
<1>3. /\ LoadFor("switch") /\ Top.at # "root"
      /\ bios = "line" => line \/ Known = inserted
      /\ bios = "line" /\ slipped = NoDisk => cwd[A] \in {ROOT_CLUSTER, slots[A]}
      /\ verified /\ bios = "line" => ~line
  BY <1>1, <1>2, AfterLoadHas
<1>4. drive_req = geometry.drive /\ asked = drive_req /\ geometry.disk = slots[geometry.drive]
  BY <1>3 DEF LoadFor
<1>5. /\ geometry.drive = A => FatIsOf(RootBuf[1].disk) /\ RootIsOf(RootBuf[1].disk)
                               /\ RootBuf[1].disk = Source
      /\ geometry.drive = C => RootIsOf(HardDisk)
  BY <1>1, <1>2, LoadMakesWhole
<1>6. /\ UNCHANGED <<FatBuf, RootBuf, bios, inserted, line, geometry, slots, cwd, asked, verified, slipped,
                     drive_prev>>
  BY <1>1 DEF floppyVars, bufferVars
<1>7. Whole'
  <2>1. bios = "line" /\ geometry.drive = A /\ slipped = NoDisk =>
          geometry.disk = RootBuf[1].disk /\ geometry.disk = slots[A]
    BY <1>4, <1>5 DEF Source
  <2> QED BY <1>1, <1>4, <1>5, <1>6, <2>1 DEF Whole, FatIsOf, RootIsOf
<1>8. ASSUME verified PROVE Fresh
  <2>1. geometry.drive = A
    BY <1>4, <1>8 DEF Sane
  <2> QED BY <1>3, <1>5, <1>8, <2>1 DEF Fresh, CaughtUp, Source, Types, TypeOK
<1>9. verified' => Fresh'
  BY <1>6, <1>8, SameFresh
<1>10. Resting'
  BY <1>1, <1>4, <1>6, <1>7, <1>9 DEF Resting, Ends
<1>11. root_buf_drive' = C => RootIsOf(HardDisk)'
  BY <1>1, <1>3, SameRoot DEF bufferVars
<1>12. bios = "line" /\ slipped = NoDisk =>
         /\ cwd[A] \in {ROOT_CLUSTER, slots[A]}
         /\ active_drive_num' = A => cur_dir_cluster' \in {ROOT_CLUSTER, slots[A]}
  BY <1>1, <1>3
<1>13. Known' = Known
  BY <1>6 DEF Known
<1> QED BY <1>3, <1>6, <1>10, <1>11, <1>12, <1>13 DEF Sane

LEMMA SwitchBackSane ==
  ASSUME Types, Sane, Types', SwitchBack
  PROVE  Sane'
<1>1. /\ ~Idle /\ Top.at = "switch" /\ drive_req' = drive_prev
      /\ geometry' = [drive |-> drive_prev, disk |-> slots[drive_prev]]
      /\ Load(geometry', drive_prev, <<Waiting("restore")>>)
      /\ UNCHANGED <<floppyVars, asked, verified, slipped, slots, cwd, cur_dir_cluster, active_drive_num,
                     drive_prev>>
  BY DEF SwitchBack, Awaits, Goes
<1>2. AfterLoad
  BY <1>1, PhaseIs DEF Loads
<1>3. /\ LoadFor("switch") /\ Top.at # "root"
      /\ bios = "line" => line \/ Known = inserted
      /\ bios = "line" /\ slipped = NoDisk => cwd[A] \in {ROOT_CLUSTER, slots[A]}
  BY <1>1, <1>2, AfterLoadHas
<1>4. active_drive_num = drive_prev
  BY <1>3 DEF LoadFor
<1>5. geometry'.drive = drive_prev /\ geometry'.disk = slots[drive_prev] /\ slots[C] = HardDisk
  BY <1>1 DEF Sane
<1>6. LoadFor("restore")'
  BY <1>1, <1>3, <1>4, <1>5 DEF LoadFor, Known, Source, floppyVars
<1>7. <<>> \in Seq(Frame) /\ "restore" \in Loads /\ Beneath(<<>>, "restore")
      /\ Append(<<>>, Waiting("restore")) = <<Waiting("restore")>>
  BY EmptySeq DEF Loads, Beneath
<1>8. Load(geometry', drive_req', Append(<<>>, Waiting("restore")))
  BY <1>1, <1>7
<1>9. geometry'.drive = C => geometry'.disk = HardDisk
  BY <1>5
<1>10. /\ Loading' \/ AfterLoad'
       /\ root_buf_drive' = C /\ (stack' = <<>> \/ Top'.at # "root") => RootIsOf(HardDisk)'
  BY <1>3, <1>6, <1>7, <1>8, <1>9, LoadBegins
<1>11. Known' = Known
  BY <1>1 DEF Known
<1> QED BY <1>1, <1>3, <1>5, <1>9, <1>10, <1>11 DEF Sane, floppyVars

LEMMA RestoredSane ==
  ASSUME Types, Sane, Types', Restored, ~spoiled'
  PROVE  Sane'
<1>1. /\ ~Idle /\ Top.at = "restore" /\ ret = "ok" /\ Ends("failed")
      /\ UNCHANGED <<floppyVars, driveVars, bufferVars, asked, verified, drive_prev, slipped>>
  BY DEF Restored, Awaits, Types, TypeOK
<1>2. AfterLoad
  BY <1>1, PhaseIs DEF Loads
<1>3. LoadFor("restore") /\ Top.at # "root" /\ ~Remounting
  BY <1>1, <1>2, AfterLoadHas
<1>4. geometry.drive = active_drive_num /\ geometry.disk = slots[geometry.drive]
  BY <1>3 DEF LoadFor
<1>5. /\ geometry.drive = A => FatIsOf(RootBuf[1].disk) /\ RootIsOf(RootBuf[1].disk)
                               /\ RootBuf[1].disk = Source
      /\ geometry.drive = C => RootIsOf(HardDisk)
  BY <1>1, <1>2, LoadMakesWhole
<1>6. bios = "line" /\ geometry.drive = A /\ slipped = NoDisk =>
          geometry.disk = RootBuf[1].disk /\ geometry.disk = slots[A]
  BY <1>4, <1>5 DEF Source
<1>7. Whole
  BY <1>4, <1>5, <1>6 DEF Whole
<1>8. Whole'
  BY <1>1, <1>7, SameWhole DEF floppyVars, driveVars, bufferVars
<1>9. Resting'
  BY <1>1, <1>8 DEF Resting, Ends
<1>10. root_buf_drive' = C => RootIsOf(HardDisk)'
  BY <1>1, <1>3, SameRoot DEF bufferVars
<1> QED BY <1>1, <1>3, <1>9, <1>10, StillSane

-----------------------------------------------------------------------------
(* The user, and the clock *)

LEMMA SwapSane ==
  ASSUME Types, Sane, Types', NEW disk \in Disks, Swap(disk), ~spoiled'
  PROVE  Sane'
<1>1. /\ bios = "line" \/ Idle
      /\ line' /\ ~verified'
      /\ UNCHANGED <<bios, driveVars, bufferVars, drive_req, drive_prev, stack, ret, answer,
                     asked, slipped>>
  BY DEF Swap, Types, TypeOK
<1>2. UNCHANGED <<bios, geometry, slots, cwd, cur_dir_cluster, active_drive_num, FatBuf, RootBuf,
                  root_buf_drive, drive_load_lba, drive_req, drive_prev, stack, ret, answer,
                  asked, slipped>>
  BY <1>1 DEF driveVars, bufferVars
<1>3. Whole => Whole'
  BY <1>2, SameWhole
<1>4. Top' = Top /\ Below' = Below /\ (Idle)' = Idle
  BY <1>2 DEF Top, Below, Idle
<1>5. ASSUME NEW w, LoadFor(w) PROVE LoadFor(w)'
  BY <1>1, <1>2, <1>5 DEF LoadFor, Source
<1>6. ASSUME ~Idle PROVE Source' = Source
  BY <1>1, <1>2, <1>6 DEF Source
<1>7. Resting => Resting'
  BY <1>1, <1>2, <1>3 DEF Resting
<1>8. Flushing => Flushing'
  BY <1>1, <1>2, <1>3, <1>4 DEF Flushing
<1>9. Calling => Calling'
  BY <1>1, <1>2, <1>3 DEF Calling
<1>10. ASSUME Loading PROVE Loading'
  <2>1. Source' = Source
    BY <1>6, <1>10, PhaseIs, EmptySeq DEF Loading, Idle
  <2>2. FatBuf' = FatBuf /\ RootBuf' = RootBuf /\ geometry' = geometry
        /\ drive_load_lba' = drive_load_lba
    BY <1>2
  <2>3. PartLoaded(Top) => PartLoaded(Top)'
    BY <1>4, <2>1, <2>2 DEF PartLoaded, FatUpTo, RootUpTo
  <2>4. LoadFor(stack[Len(stack) - 1].at) => LoadFor(stack[Len(stack) - 1].at)'
    BY <1>2, <1>5
  <2> QED BY <1>1, <1>2, <1>4, <1>10, <2>3, <2>4 DEF Loading
<1>11. ASSUME AfterLoad PROVE AfterLoad'
  <2>1. Source' = Source
    BY <1>6, <1>11 DEF AfterLoad, Idle
  <2>2. FatBuf' = FatBuf /\ RootBuf' = RootBuf /\ geometry' = geometry
    BY <1>2
  <2>3. Loaded => Loaded'
    BY <2>1, <2>2 DEF Loaded, FatUpTo, RootUpTo
  <2>4. LoadFor(Top.at) => LoadFor(Top.at)'
    BY <1>4, <1>5
  <2> QED BY <1>1, <1>2, <1>4, <1>11, <2>3, <2>4 DEF AfterLoad
<1>12. RootIsOf(HardDisk) => RootIsOf(HardDisk)'
  BY <1>2 DEF RootIsOf
<1>13. Remounting => Remounting'
  BY <1>2 DEF Remounting
<1>14. slipped' = slipped
  BY <1>1
<1> QED BY <1>1, <1>2, <1>4, <1>7, <1>8, <1>9, <1>10, <1>11, <1>12, <1>13, <1>14 DEF Sane

(* Only the stamp of the last check ages. *)
LEMMA TimePassesSane ==
  ASSUME Types, Sane,
         UNCHANGED <<floppyVars, driveVars, bufferVars, callVars, drive_req, drive_prev, slipped>>
  PROVE  Sane'
<1>1. UNCHANGED <<bios, inserted, line, geometry, slots, cwd, cur_dir_cluster, active_drive_num,
                  FatBuf, RootBuf, root_buf_drive, drive_load_lba, drive_req, drive_prev, stack,
                  ret, answer, asked, verified, slipped>>
  BY DEF floppyVars, driveVars, bufferVars, callVars
<1>2. Whole => Whole'
  BY <1>1, SameWhole
<1>3. (Fresh => Fresh') /\ (CaughtUp => CaughtUp') /\ Known' = Known
  BY <1>1, SameFresh DEF CaughtUp, Known
<1>4. Top' = Top /\ Below' = Below /\ Source' = Source
  BY <1>1 DEF Top, Below, Source
<1>5. ASSUME NEW w, LoadFor(w) PROVE LoadFor(w)'
  BY <1>1, <1>4, <1>5 DEF LoadFor
<1>6. Resting => Resting'
  BY <1>1, <1>2, <1>3 DEF Resting
<1>7. Flushing => Flushing'
  BY <1>1, <1>2, <1>4 DEF Flushing
<1>8. Calling => Calling'
  BY <1>1, <1>2, <1>3, <1>4 DEF Calling
<1>9. ASSUME Loading PROVE Loading'
  <2>1. PartLoaded(Top) => PartLoaded(Top)'
    BY <1>1, <1>4 DEF PartLoaded, FatUpTo, RootUpTo
  <2>2. LoadFor(stack[Len(stack) - 1].at) => LoadFor(stack[Len(stack) - 1].at)'
    BY <1>1, <1>5
  <2> QED BY <1>1, <1>4, <1>9, <2>1, <2>2 DEF Loading
<1>10. ASSUME AfterLoad PROVE AfterLoad'
  <2>1. Loaded => Loaded'
    BY <1>1, <1>4 DEF Loaded, FatUpTo, RootUpTo
  <2>2. LoadFor(Top.at) => LoadFor(Top.at)'
    BY <1>4, <1>5
  <2> QED BY <1>1, <1>4, <1>10, <2>1, <2>2 DEF AfterLoad
<1>11. RootIsOf(HardDisk) => RootIsOf(HardDisk)'
  BY <1>1 DEF RootIsOf
<1>12. Remounting => Remounting'
  BY <1>1 DEF Remounting
<1> QED BY <1>1, <1>3, <1>4, <1>6, <1>7, <1>8, <1>9, <1>10, <1>11, <1>12 DEF Sane

-----------------------------------------------------------------------------
(* The invariant *)

LEMMA InitIInv == Init => IInv
<1> SUFFICES ASSUME Init PROVE IInv
  OBVIOUS
<1> USE DEF Init
<1>1. slots \in [Drives -> AllDisks]
  BY DrivesDiffer DEF AllDisks
<1>2. Sector(HardDisk, 0) \in SectorsRead /\ \A i \in 1 .. krsc : Sector(HardDisk, krsta + i - 1) \in SectorsRead
  BY Places DEF Sector, SectorsRead
<1>3. FatBuf \in [1 .. kfat_secs -> SectorsRead] /\ RootBuf \in [1 .. krsc -> SectorsRead]
  BY <1>2
<1>4. drive_load_lba \in Nat
  BY Places
<1>5. geometry \in [drive : Drives, disk : Disks \cup {HardDisk, Disc}]
  BY DrivesDiffer
<1>6. swaps \in 0 .. MaxSwaps
  BY MediaChangeAssumption
<1>7. TypeOK
  BY <1>1, <1>3, <1>4, <1>5, <1>6, DrivesDiffer DEF TypeOK, AllDisks
<1>8. Types
  BY <1>7, DrivesDiffer, EmptySeq DEF Types
<1>9. RootIsOf(HardDisk)
  BY DEF RootIsOf
<1>10. slots[C] = HardDisk /\ Known = inserted /\ cwd[A] = ROOT_CLUSTER
  BY DrivesDiffer DEF Known
<1>11. Resting
  BY <1>9, DrivesDiffer DEF Resting, Whole
<1>12. Sane
  BY <1>9, <1>10, <1>11, DrivesDiffer DEF Sane, Known
<1> QED BY <1>8, <1>12 DEF IInv

LEMMA NextIInv ==
  ASSUME IInv, [Next]_vars
  PROVE  IInv'
<1>1. Types
  BY DEF IInv
<1>2. CASE Next
  <2>1. Types'
    BY <1>1, <1>2, TypesNext
  <2>2. ASSUME ~spoiled' PROVE Sane /\ ~spoiled
    <3>1. spoiled => spoiled'
      BY <1>2
         DEF Next, Activate, Access, ChDir, ReadFat, ReadRoot, ReadBoot, ReadProbe, ReadData,
             FlushFat, BurstFails, Fail, Remount, Retry, Reloaded, Checked, Switched, SwitchBack, Restored,
             Swap, TimePasses, Goes, callVars
    <3> QED BY <2>2, <3>1 DEF IInv
  <2>3. ASSUME ~spoiled' PROVE Sane'
    <3>1. Sane
      BY <2>2, <2>3
    <3>2. ASSUME NEW d \in Drives, Activate(d) PROVE Sane'
      BY <1>1, <2>1, <3>1, <3>2, ActivateSane
    <3>3. CASE Access
      BY <1>1, <2>1, <3>1, <3>3, AccessSane
    <3>4. CASE ChDir
      BY <1>1, <2>1, <3>1, <3>4, ChDirSane
    <3>5. CASE ReadFat
      BY <1>1, <2>1, <3>1, <3>5, ReadFatSane
    <3>6. CASE ReadRoot
      BY <1>1, <2>1, <3>1, <3>6, ReadRootSane
    <3>7. CASE ReadBoot
      BY <1>1, <2>1, <3>1, <3>7, ReadBootSane
    <3>8. CASE ReadProbe
      BY <1>1, <2>1, <3>1, <3>8, ReadProbeSane
    <3>9. CASE ReadData
      BY <1>1, <2>1, <3>1, <3>9, ReadDataSane
    <3>10. CASE FlushFat
      BY <1>1, <2>1, <3>1, <3>10, FlushFatSane
    <3>11. CASE Fail
      BY <1>1, <2>1, <2>3, <3>1, <3>11, FailSane
    <3>12. CASE Remount
      BY <1>1, <2>1, <2>3, <3>1, <3>12, RemountSane
    <3>13. CASE Retry
      BY <1>1, <2>1, <3>1, <3>13, RetrySane
    <3>14. CASE Reloaded
      BY <1>1, <2>1, <2>3, <3>1, <3>14, ReloadedSane
    <3>15. CASE Checked
      BY <1>1, <2>1, <3>1, <3>15, CheckedSane
    <3>16. CASE Switched
      BY <1>1, <2>1, <3>1, <3>16, SwitchedSane
    <3>17. CASE SwitchBack
      BY <1>1, <2>1, <3>1, <3>17, SwitchBackSane
    <3>18. CASE Restored
      BY <1>1, <2>1, <2>3, <3>1, <3>18, RestoredSane
    <3>19. ASSUME NEW disk \in Disks, Swap(disk) PROVE Sane'
      BY <1>1, <2>1, <2>3, <3>1, <3>19, SwapSane
    <3>20. CASE TimePasses
      BY <1>1, <3>1, <3>20, TimePassesSane DEF TimePasses
    <3>21. CASE BurstFails
      BY <1>1, <2>1, <3>1, <3>21, BurstFailsSane
    <3> QED BY <1>2, <3>2, <3>3, <3>4, <3>5, <3>6, <3>7, <3>8, <3>9, <3>10, <3>11, <3>12, <3>13,
               <3>14, <3>15, <3>16, <3>17, <3>18, <3>19, <3>20, <3>21 DEF Next
  <2> QED BY <2>1, <2>3 DEF IInv
<1>3. CASE UNCHANGED vars
  <2>1. UNCHANGED <<floppyVars, driveVars, bufferVars, callVars, drive_req, drive_prev, recent,
                    slipped>>
    BY <1>3 DEF vars
  <2>2. Types'
    BY <1>1, <2>1 DEF Types, TypeOK, AllDisks, floppyVars, driveVars, bufferVars, callVars
  <2>3. Sane => Sane'
    BY <1>1, <2>1, TimePassesSane
  <2>4. spoiled' = spoiled
    BY <2>1 DEF callVars
  <2> QED BY <2>2, <2>3, <2>4 DEF IInv
<1> QED BY <1>2, <1>3

(* Whatever a load, a retry or a remount waits for, the part of the        *)
(* buffers that is loaded is of one disk, the one that is being read,      *)
(* until something has happened of which nothing is promised.              *)
THEOREM Inductive == Spec => []IInv
<1>1. IInv /\ [Next]_vars => IInv'
  BY NextIInv
<1> QED BY <1>1, InitIInv, PTL DEF Spec

(* The state keeps its types. *)
THEOREM TypeCorrect == Spec => []TypeOK
<1>1. IInv => TypeOK
  BY DEF IInv, Types
<1> QED BY <1>1, Inductive, PTL

LEMMA RestIs ==
  ASSUME IInv, Idle, ~spoiled
  PROVE  Sane /\ Resting /\ active_drive_num \in Drives /\ asked \in Drives
BY PhaseIs DEF IInv, Types, TypeOK

(* Between calls, after any exchanges, failed transfers, retries and       *)
(* remounts, the kernel holds the sectors of one disk, in the drive it     *)
(* takes for active; a call that answered success has its drive.           *)
THEOREM HoldsOneVolume == Spec => []OneVolume
<1>1. ASSUME IInv PROVE OneVolume
  <2>1. SUFFICES ASSUME Idle, ~spoiled
                 PROVE  /\ answer = "ok" => active_drive_num = asked
                        /\ geometry.drive = active_drive_num
                        /\ active_drive_num = A => FatIsOf(RootBuf[1].disk) /\ RootIsOf(RootBuf[1].disk)
                        /\ active_drive_num = C => RootIsOf(HardDisk)
                        /\ bios = "line" /\ active_drive_num = A /\ slipped = NoDisk =>
                             geometry.disk = RootBuf[1].disk /\ cur_dir_cluster \in {ROOT_CLUSTER, geometry.disk}
    BY DEF OneVolume
  <2>2. Sane /\ Resting
    BY <1>1, <2>1, RestIs
  <2>3. bios = "line" /\ active_drive_num = A /\ slipped = NoDisk => cur_dir_cluster \in {ROOT_CLUSTER, slots[A]}
    BY <2>2 DEF Sane
  <2> QED BY <2>2, <2>3 DEF Resting, Whole
<1> QED BY <1>1, Inductive, PTL

(* A call that succeeds, and looked at the drive, works on the floppy in   *)
(* it: a switch always, the media check unless a burst has cleared the     *)
(* change line of an exchange before it.                                   *)
THEOREM NoSwapIsMissed == Spec => []SwapsAreNoticed
<1>1. ASSUME IInv PROVE SwapsAreNoticed
  <2>1. SUFFICES ASSUME Idle, ~spoiled, verified, answer = "ok",
                        slipped = NoDisk \/ drive_prev # A
                 PROVE  active_drive_num = A /\ FatIsOf(inserted) /\ RootIsOf(inserted)
    BY DEF SwapsAreNoticed, HoldsInserted
  <2>2. Sane /\ Resting
    BY <1>1, <2>1, RestIs
  <2>3. active_drive_num = A /\ Whole /\ Fresh
    BY <2>1, <2>2 DEF Resting, Sane
  <2>4. RootBuf[1].disk = inserted
    <3>1. CASE bios = "line"
      <4>1. ~line /\ CaughtUp /\ Known = inserted
        BY <2>1, <2>2, <2>3, <3>1, NotRemounting DEF Fresh
      <4>2. CASE slipped = NoDisk
        BY <2>3, <3>1, <4>1, <4>2 DEF Whole, Known
      <4>3. CASE slipped # NoDisk
        BY <2>1, <4>1, <4>3 DEF CaughtUp, Known
      <4> QED BY <4>2, <4>3
    <3>2. CASE bios # "line"
      BY <2>3, <3>2 DEF Fresh
    <3> QED BY <3>1, <3>2
  <2> QED BY <2>3, <2>4 DEF Whole
<1> QED BY <1>1, Inductive, PTL
=============================================================================
