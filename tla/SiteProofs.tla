----------------------------- MODULE SiteProofs -----------------------------
(* What holds of the site: in the browser for every band and any number of *)
(* jumps and boots, and of its builds and their readers for any number of  *)
(* builds.                                                                 *)
EXTENDS SiteApp, SiteBuild, TLAPS

(* What the emulator's status needs besides: only the last boot's timer is *)
(* ever armed.                                                             *)
OneTimer == pending \subseteq {bootKey}

IInv == TypeOK /\ JumpHolds /\ LockIsTheLastJumps /\ StalledIsTheLastBoots /\ OneTimer

-----------------------------------------------------------------------------
(* The pages *)

(* The stages, one by one. *)
LEMMA StagesAre == StageIds = {"s0", "s1", "s1b", "s2", "s3", "s4", "s5", "s6", "s7"}
<1>1. DOMAIN STAGES = 1 .. 9 BY DEF STAGES
<1>2. STAGES[1] = "s0" /\ STAGES[2] = "s1" /\ STAGES[3] = "s1b" /\ STAGES[4] = "s2"
      /\ STAGES[5] = "s3" /\ STAGES[6] = "s4" /\ STAGES[7] = "s5" /\ STAGES[8] = "s6"
      /\ STAGES[9] = "s7"
  BY DEF STAGES
<1>3. StageIds = {STAGES[i] : i \in 1 .. 9} BY <1>1 DEF StageIds, ToSet
<1> QED BY <1>2, <1>3, SMTT(30)

LEMMA RoutesAre ==
    Routes = {"overview", "boot", "dosapi", "tests", "fs", "mem", "prog", "shell",
              "mouse", "emulators", "cases", "glossary", "run"}
BY DEF Routes, PAGE_BY_ROUTE

(* A link names a page, and only on the boot page a part of it: a stage. *)
IsLink(t) ==
    /\ t.route \in Routes
    /\ t.sub \in StageIds \cup {NoSub}
    /\ t.sub # NoSub => t.route = "boot"
AreLinks(targets) == \A t \in targets : IsLink(t)

LEMMA ToIsLink == \A r \in Routes : IsLink(To(r))
BY DEF To, IsLink

LEMMA ToStageIsLink == \A s \in StageIds : IsLink(ToStage(s))
BY RoutesAre DEF ToStage, IsLink

LEMMA NavAreRoutes == ToSet(NAV) \subseteq Routes
<1>1. DOMAIN NAV = 1 .. 13 BY DEF NAV
<1>2. \A i \in 1 .. 13 : NAV[i] \in Routes BY RoutesAre DEF NAV
<1> QED BY <1>1, <1>2 DEF ToSet

LEMMA SidebarLinks == \A r : AreLinks(SidebarTargets(r))
<1>1. BootChildren \subseteq StageIds BY StagesAre DEF BootChildren
<1> QED BY <1>1, NavAreRoutes, ToIsLink, ToStageIsLink DEF SidebarTargets, AreLinks

LEMMA PageLinks == \A r \in Routes : AreLinks(PageTargets(r))
<1>1. "s4" \in StageIds /\ "s5" \in StageIds /\ "s7" \in StageIds BY StagesAre
<1>2. /\ IsLink(To("boot")) /\ IsLink(To("dosapi")) /\ IsLink(To("tests")) /\ IsLink(To("fs"))
      /\ IsLink(To("prog")) /\ IsLink(To("emulators")) /\ IsLink(To("run"))
  BY RoutesAre, ToIsLink
<1>3. IsLink(ToStage("s4")) /\ IsLink(ToStage("s5")) /\ IsLink(ToStage("s7"))
  BY <1>1, ToStageIsLink
<1>4. AreLinks(OverviewTargets)
  BY <1>2, NavAreRoutes, ToIsLink DEF OverviewTargets, Tracks, AreLinks
<1>5. AreLinks(BootTargets) BY <1>2, ToStageIsLink DEF BootTargets, AreLinks
<1>6. AreLinks(DosApiTargets) /\ AreLinks(TestsTargets) /\ AreLinks(FilesystemTargets)
  BY <1>2, <1>3 DEF DosApiTargets, TestsTargets, FilesystemTargets, AreLinks
<1>7. AreLinks(MemoryTargets) /\ AreLinks(ProgramsTargets)
  BY <1>2, <1>3 DEF MemoryTargets, ProgramsTargets, AreLinks
<1>8. AreLinks(ShellTargets) /\ AreLinks(MouseTargets) /\ AreLinks(EmulatorsTargets)
  BY <1>2 DEF ShellTargets, MouseTargets, EmulatorsTargets, AreLinks
<1>9. AreLinks(CasesTargets) /\ AreLinks(GlossaryTargets) /\ AreLinks(RunTargets)
  BY <1>2 DEF CasesTargets, GlossaryTargets, RunTargets, AreLinks
<1> QED
  <2> TAKE r \in Routes
  <2>1. CASE r \in {"overview", "boot", "dosapi", "tests"}
    BY <1>4, <1>5, <1>6, <2>1 DEF PageTargets
  <2>2. CASE r \in {"fs", "mem", "prog"} BY <1>6, <1>7, <2>2 DEF PageTargets
  <2>3. CASE r \in {"shell", "mouse", "emulators"} BY <1>8, <2>3 DEF PageTargets
  <2>4. CASE r \in {"cases", "glossary", "run"} BY <1>9, <2>4 DEF PageTargets
  <2> QED BY <2>1, <2>2, <2>3, <2>4, RoutesAre

LEMMA TargetsAreLinks == \A r \in Routes : \A t \in Targets(r) : IsLink(t)
BY SidebarLinks, PageLinks DEF Targets, AreLinks

(* Whatever a target names, its URL has the file of a page. *)
LEMMA HrefsAreFiles == \A target : hrefFor(target).file \in Files /\ hrefFor(target).hash = target.sub
<1>1. "overview" \in Routes BY RoutesAre
<1> QED BY <1>1 DEF hrefFor, Files

LEMMA RouteOfFile == \A file \in Files : ROUTE_BY_FILE(file) \in Routes
BY DEF ROUTE_BY_FILE, Files

(* No two routes share a file, so that a file gives back its route. *)
LEMMA FilesDiffer == \A r, s \in Routes : PAGE_BY_ROUTE[r] = PAGE_BY_ROUTE[s] => r = s
BY RoutesAre, SMTT(30) DEF PAGE_BY_ROUTE

LEMMA RouteOfPage == \A r \in Routes : ROUTE_BY_FILE(PAGE_BY_ROUTE[r]) = r
BY FilesDiffer DEF ROUTE_BY_FILE

(* The old names of routes are not routes. *)
LEMMA RoutesAreNormal == \A r \in Routes : normalizeRoute(r) = r
BY RoutesAre DEF normalizeRoute

-----------------------------------------------------------------------------
(* Loads *)

(* A new document starts with the invariant, whatever came before. *)
LEMMA LoadIsFresh ==
    ASSUME NEW file \in Files, NEW hash \in Hashes \cup {NoSub}, Load(file, hash)
    PROVE  IInv'
<1> DEFINE first == IF route' = "boot" THEN bootStageFromHash(hash) ELSE "s0"
<1>1. route' \in Routes BY RouteOfFile DEF Load
<1>2. /\ first \in Hashes
      /\ \E bands : (bands = Bands \/ bands = {{}}) /\ MountBoot(first, bands)
  <2>1. "s0" \in StageIds BY StagesAre
  <2>2. bootStageFromHash(hash) \in Hashes BY <2>1 DEF bootStageFromHash, Hashes
  <2> QED BY <2>1, <2>2 DEF Load, Hashes
<1> HIDE DEF first
<1>3. /\ sub' = first /\ lockRef' = (first \in StageIds /\ first # "s0")
      /\ timers' = (IF first \in StageIds /\ first # "s0" THEN {0} ELSE {})
      /\ IF first = "s0" THEN scrollReq' = NoRequest
                         ELSE scrollReq' = [id |-> first, n |-> 0]
      /\ reqN' \in Nat /\ active' = "s0" /\ band' \in Bands /\ seen' = {}
  <2>1. PICK bands : (bands = Bands \/ bands = {{}}) /\ MountBoot(first, bands) BY <1>2
  <2>2. band' \in Bands /\ seen' = {} /\ active' = "s0" /\ sub' = first /\ reqN' \in Nat
    BY <2>1, BootPageAssumption DEF MountBoot
  <2>3. CASE first = "s0" BY <2>1, <2>2, <2>3 DEF MountBoot
  <2>4. CASE first # "s0"
    BY <2>1, <2>2, <2>4 DEF MountBoot, ScrollEffect, Lock, ClearTimeout, NoRequest
  <2> QED BY <2>3, <2>4
<1>4. BootTypeOK'
  <2>1. scrollReq' \in [id : Hashes \cup {NoSub}, n : Nat]
    BY <1>2, <1>3 DEF NoRequest
  <2>2. "s0" \in StageIds BY StagesAre
  <2> QED BY <1>2, <1>3, <2>1, <2>2, BootPageAssumption DEF BootTypeOK
<1>5. JumpHolds' /\ LockIsTheLastJumps'
  <2>1. CASE timers' = {} BY <1>3, <2>1 DEF JumpHolds, LockIsTheLastJumps
  <2>2. CASE timers' = {0}
    <3>1. scrollReq' = [id |-> first, n |-> 0] /\ lockRef' = TRUE BY <1>3, <2>2
    <3>2. scrollReq'.id = first /\ scrollReq'.n = 0 BY <3>1
    <3> QED BY <1>3, <2>2, <3>1, <3>2 DEF JumpHolds, LockIsTheLastJumps
  <2> QED BY <1>3, <2>1, <2>2
<1>6. PICK present \in BOOLEAN : MountRun(present) BY DEF Load
<1>7. RunTypeOK' /\ StalledIsTheLastBoots' /\ OneTimer'
  <2>1. lib' \in BOOLEAN BY <1>6, Zenon DEF MountRun
  <2>2. phase' \in Phases /\ errMsg' \in Messages /\ view' = "screen"
    BY <1>6 DEF MountRun, Phases, Messages
  <2>3. bootKey' \in 0 .. MaxBoots /\ pending' = {}
    <3>1. bootKey' = 0 /\ pending' = {} BY <1>6, Zenon DEF MountRun
    <3> QED BY <3>1, EmulatorPageAssumption
  <2>4. emus' = [k \in Boots |-> "none"] BY <1>6 DEF MountRun
  <2>5. RunTypeOK' BY <2>1, <2>2, <2>3, <2>4 DEF RunTypeOK
  <2> QED BY <1>6, <2>3, <2>5 DEF MountRun, StalledIsTheLastBoots, OneTimer
<1> QED BY <1>1, <1>4, <1>5, <1>7 DEF IInv, TypeOK

LEMMA InitIsSafe == Init => IInv
<1> SUFFICES ASSUME Init PROVE IInv OBVIOUS
<1>1. "s0" \in StageIds BY StagesAre
<1>2. route \in Routes BY RoutesAre DEF Init
<1>3. BootTypeOK
  BY <1>1, BootPageAssumption DEF Init, BootInit, BootTypeOK, NoRequest, Hashes
<1>4. JumpHolds /\ LockIsTheLastJumps
  BY DEF Init, BootInit, JumpHolds, LockIsTheLastJumps
<1>5. RunTypeOK /\ StalledIsTheLastBoots /\ OneTimer
  <2>1. RunTypeOK
    <3>1. lib \in BOOLEAN BY Zenon DEF Init, RunInit
    <3>2. bootKey = 0 /\ emus = [k \in Boots |-> "none"] /\ pending = {}
      BY Zenon DEF Init, RunInit
    <3>3. phase = "idle" /\ errMsg = "" /\ view = "screen" BY Zenon DEF Init, RunInit
    <3>4. bootKey \in 0 .. MaxBoots BY <3>2, EmulatorPageAssumption
    <3> QED BY <3>1, <3>2, <3>3, <3>4 DEF RunTypeOK, Phases, Messages
  <2> QED BY <2>1 DEF Init, RunInit, StalledIsTheLastBoots, OneTimer
<1> QED BY <1>2, <1>3, <1>4, <1>5 DEF IInv, TypeOK

-----------------------------------------------------------------------------
(* The boot page *)

BootInv == BootTypeOK /\ JumpHolds /\ LockIsTheLastJumps

LEMMA JumpIsSafe == ASSUME BootInv, NEW s \in StageIds, Jump(s) PROVE BootInv'
<1>1. /\ sub' = s /\ scrollReq' = [id |-> s, n |-> reqN + 1] /\ reqN' = reqN + 1
      /\ band' \in Bands /\ active' = active /\ seen' = seen
  BY DEF Jump
<1>2. lockRef' = TRUE /\ timers' = {reqN + 1}
  <2>1. lockRef' = Lock(lockRef, scrollReq') /\ Lock(lockRef, scrollReq') = TRUE
    BY <1>1 DEF Jump, ScrollEffect, Lock, BootInv, BootTypeOK
  <2>2. timers' = ClearTimeout(timers, scrollReq) \cup {reqN + 1}
    BY <1>1 DEF Jump, ScrollEffect
  <2>3. ClearTimeout(timers, scrollReq) = {}
    BY DEF ClearTimeout, BootInv, LockIsTheLastJumps
  <2> QED BY <2>1, <2>2, <2>3
<1>3. BootTypeOK' BY <1>1, <1>2 DEF BootInv, BootTypeOK, Hashes
<1> QED BY <1>1, <1>2, <1>3 DEF BootInv, JumpHolds, LockIsTheLastJumps

LEMMA LockExpiresIsSafe == ASSUME BootInv, LockExpires PROVE BootInv'
<1>1. timers' = {} /\ lockRef' = FALSE
  BY DEF LockExpires, BootInv, LockIsTheLastJumps
<1>2. UNCHANGED <<sub, scrollReq, reqN, active, band, seen>> BY DEF LockExpires
<1> QED BY <1>1, <1>2 DEF BootInv, BootTypeOK, JumpHolds, LockIsTheLastJumps

LEMMA ScrollIsSafe == ASSUME BootInv, Scroll PROVE BootInv'
BY DEF Scroll, BootInv, BootTypeOK, JumpHolds, LockIsTheLastJumps

(* A report changes the sidebar only when no jump's time runs. *)
LEMMA ReportIsSafe == ASSUME BootInv, NEW entries, Report(entries) PROVE BootInv'
<1>1. /\ seen' = band /\ UNCHANGED <<scrollReq, reqN, lockRef, timers, band>> BY DEF Report
<1>2. \/ UNCHANGED <<active, sub>>
      \/ ~lockRef /\ \E id \in band : active' = id /\ sub' = navOf(id)
  BY DEF Report
<1>3. active' \in StageIds /\ sub' \in Hashes
  <2>1. band \subseteq StageIds BY BootPageAssumption DEF BootInv, BootTypeOK
  <2>2. \A id \in StageIds : navOf(id) \in Hashes BY StagesAre DEF navOf, Hashes
  <2> QED BY <1>2, <2>1, <2>2 DEF BootInv, BootTypeOK
<1>4. BootTypeOK' BY <1>1, <1>3 DEF BootInv, BootTypeOK
<1>5. LockIsTheLastJumps' BY <1>1 DEF BootInv, LockIsTheLastJumps
<1>6. JumpHolds' BY <1>1, <1>2 DEF BootInv, JumpHolds, LockIsTheLastJumps
<1> QED BY <1>4, <1>5, <1>6 DEF BootInv

LEMMA BootUnchanged == ASSUME BootInv, UNCHANGED bootVars PROVE BootInv'
BY DEF bootVars, BootInv, BootTypeOK, JumpHolds, LockIsTheLastJumps

-----------------------------------------------------------------------------
(* The run page *)

RunInv == RunTypeOK /\ StalledIsTheLastBoots /\ OneTimer

(* A boot first clears the only timer that can be armed. *)
LEMMA BootIsSafe ==
    ASSUME RunInv, NEW throws \in BOOLEAN, NEW orphaned \in BOOLEAN, Boot(throws, orphaned)
    PROVE  RunInv'
<1> DEFINE k == bootKey + 1
           before == IF bootKey = 0 THEN emus ELSE Destroyed(bootKey, orphaned)
           States == {"none", "loading", "started", "failed", "orphan", "gone"}
<1>1. k \in Boots /\ bootKey' = k /\ lib' = lib
  <2>1. bootKey' = k /\ lib' = lib /\ bootKey < MaxBoots BY Zenon DEF Boot
  <2>2. bootKey \in 0 .. MaxBoots BY Zenon DEF RunInv, RunTypeOK
  <2>3. k \in Boots BY <2>1, <2>2, EmulatorPageAssumption DEF Boots
  <2> QED BY <2>1, <2>3
<1>2. before \in [Boots -> States]
  <2>1. emus \in [Boots -> States] BY DEF RunInv, RunTypeOK
  <2>2. \A e \in Boots : Destroyed(bootKey, orphaned)[e] \in {emus[e], "orphan", "gone"}
    BY DEF Destroyed
  <2>3. \A e \in Boots : Destroyed(bootKey, orphaned)[e] \in States BY <2>1, <2>2
  <2>4. Destroyed(bootKey, orphaned) \in [Boots -> States] BY <2>3 DEF Destroyed
  <2> QED BY <2>1, <2>4
<1>3. CancelTimer(pending, bootKey) = {} BY DEF CancelTimer, RunInv, OneTimer
<1> HIDE DEF before
<1>4. \/ phase' = "error" /\ errMsg' \in Messages /\ emus' = before /\ pending' = {}
         /\ view' \in {view, "screen"}
      \/ phase' = "booting" /\ errMsg' \in Messages /\ emus' = [before EXCEPT ![k] = "loading"]
         /\ pending' = {k} /\ view' = "screen"
  <2>1. CASE ~lib BY <1>3, <2>1 DEF Boot, before, Messages
  <2>2. CASE lib /\ throws BY <1>3, <2>2 DEF Boot, before, Messages
  <2>3. CASE lib /\ ~throws BY <1>3, <2>3 DEF Boot, before, Messages, ArmTimer
  <2> QED BY <2>1, <2>2, <2>3 DEF RunInv, RunTypeOK
<1>5. emus' \in [Boots -> States] BY <1>1, <1>2, <1>4
<1>6. RunTypeOK'
  <2>1. bootKey' \in 0 .. MaxBoots BY <1>1, EmulatorPageAssumption DEF Boots
  <2>2. pending' \subseteq Boots BY <1>1, <1>4
  <2> QED BY <1>1, <1>4, <1>5, <2>1, <2>2 DEF RunInv, RunTypeOK, Phases
<1>7. StalledIsTheLastBoots' /\ OneTimer'
  BY <1>1, <1>4 DEF StalledIsTheLastBoots, OneTimer
<1> QED BY <1>6, <1>7 DEF RunInv

LEMMA ReportsAreSafe == ASSUME RunInv, NEW k \in Boots, Started(k) \/ DownloadError(k) PROVE RunInv'
<1>1. phase' \in {"running", "error"} /\ errMsg' \in Messages
  BY DEF Started, DownloadError, onStatus, Messages, RunInv, RunTypeOK
<1>2. UNCHANGED <<lib, bootKey, pending, view>> BY DEF Started, DownloadError
<1>3. emus' \in [Boots -> {"none", "loading", "started", "failed", "orphan", "gone"}]
  BY DEF Started, DownloadError, RunInv, RunTypeOK
<1> QED BY <1>1, <1>2, <1>3 DEF RunInv, RunTypeOK, Phases, StalledIsTheLastBoots, OneTimer

LEMMA TimerFiresIsSafe == ASSUME RunInv, TimerFires PROVE RunInv'
<1>1. PICK k \in pending :
         /\ pending' = pending \ {k}
         /\ IF emus[k] = "started" THEN UNCHANGED <<phase, errMsg>> ELSE onStatus("stalled", "")
         /\ UNCHANGED <<lib, bootKey, emus, view>>
  BY DEF TimerFires
<1>2. k = bootKey /\ bootKey \in Boots /\ pending' = {}
  BY <1>1 DEF RunInv, OneTimer, RunTypeOK
<1>3. phase' \in Phases /\ errMsg' \in Messages
  BY <1>1 DEF onStatus, RunInv, RunTypeOK, Phases
<1>4. RunTypeOK' BY <1>1, <1>2, <1>3 DEF RunInv, RunTypeOK
<1>5. StalledIsTheLastBoots'
  BY <1>1, <1>2 DEF RunInv, StalledIsTheLastBoots, onStatus
<1> QED BY <1>1, <1>2, <1>4, <1>5 DEF RunInv, OneTimer

LEMMA SetViewIsSafe ==
    ASSUME RunInv, NEW v \in {"screen", "serial"}, SetView(v) PROVE RunInv'
BY DEF SetView, RunInv, RunTypeOK, StalledIsTheLastBoots, OneTimer

LEMMA RunUnchanged == ASSUME RunInv, UNCHANGED runVars PROVE RunInv'
BY DEF runVars, RunInv, RunTypeOK, StalledIsTheLastBoots, OneTimer

-----------------------------------------------------------------------------
(* The whole site *)

LEMMA Parted == IInv <=> route \in Routes /\ BootInv /\ RunInv
BY DEF IInv, TypeOK, BootInv, RunInv

LEMMA PartedNext == IInv' <=> (route \in Routes)' /\ BootInv' /\ RunInv'
BY DEF IInv, TypeOK, BootInv, RunInv

LEMMA StepIsSafe == IInv /\ [Next]_vars => IInv'
<1> SUFFICES ASSUME IInv, [Next]_vars PROVE IInv' OBVIOUS
<1>0. route \in Routes /\ BootInv /\ RunInv BY Parted
<1>1. CASE Visit
  <2>1. CASE \E file \in Files : Load(file, NoSub) BY <2>1, LoadIsFresh
  <2>2. CASE \E hash \in Hashes : Load(PAGE_BY_ROUTE["boot"], hash)
    <3>1. PAGE_BY_ROUTE["boot"] \in Files BY RoutesAre DEF Files
    <3> QED BY <2>2, <3>1, LoadIsFresh
  <2> QED BY <1>1, <2>1, <2>2 DEF Visit
<1>2. ASSUME NEW target \in Targets(route), Go(target) PROVE IInv'
  <2>1. target.sub \in StageIds \cup {NoSub} BY <1>0, TargetsAreLinks DEF IsLink
  <2>2. CASE Jump(target.sub) /\ target.sub # NoSub /\ UNCHANGED <<route, runVars>>
    <3>1. BootInv' BY <1>0, <2>1, <2>2, JumpIsSafe
    <3>2. RunInv' BY <1>0, <2>2, RunUnchanged
    <3> QED BY <1>0, <2>2, <3>1, <3>2, PartedNext
  <2>3. CASE Load(hrefFor(target).file, hrefFor(target).hash)
    <3>1. hrefFor(target).hash \in Hashes \cup {NoSub}
      BY <2>1, HrefsAreFiles DEF Hashes
    <3> QED BY <2>3, <3>1, HrefsAreFiles, LoadIsFresh
  <2> QED BY <1>2, <2>2, <2>3 DEF Go
<1>3. CASE BootNext /\ UNCHANGED <<route, runVars>>
  <2>1. BootInv'
    BY <1>0, <1>3, LockExpiresIsSafe, ScrollIsSafe, ReportIsSafe DEF BootNext
  <2>2. RunInv' BY <1>0, <1>3, RunUnchanged
  <2> QED BY <1>0, <1>3, <2>1, <2>2, PartedNext
<1>4. CASE RunNext /\ UNCHANGED <<route, bootVars>>
  <2>1. RunInv'
    BY <1>0, <1>4, BootIsSafe, ReportsAreSafe, TimerFiresIsSafe, SetViewIsSafe DEF RunNext
  <2>2. BootInv' BY <1>0, <1>4, BootUnchanged
  <2> QED BY <1>0, <1>4, <2>1, <2>2, PartedNext
<1>5. CASE UNCHANGED vars
  <2>1. BootInv' /\ RunInv' BY <1>0, <1>5, BootUnchanged, RunUnchanged DEF vars
  <2> QED BY <1>0, <1>5, <2>1, PartedNext DEF vars
<1> QED BY <1>1, <1>2, <1>3, <1>4, <1>5 DEF Next

THEOREM Safe == Spec => []IInv
BY InitIsSafe, StepIsSafe, PTL DEF Spec

(* Every variable of the site keeps its type. *)
THEOREM SiteTypes == Spec => []TypeOK
<1>1. IInv => TypeOK BY DEF IInv
<1> QED BY <1>1, Safe, PTL

(* For any band and any number of jumps, the sidebar marks the stage of    *)
(* the last jump (BootPage's scroll effect) while its time runs.           *)
THEOREM JumpsHold == Spec => []JumpHolds
<1>1. IInv => JumpHolds BY DEF IInv
<1> QED BY <1>1, Safe, PTL

(* The observer's lock is on exactly while the last jump's timer is armed. *)
THEOREM LocksAreTheLastJumps == Spec => []LockIsTheLastJumps
<1>1. IInv => LockIsTheLastJumps BY DEF IInv
<1> QED BY <1>1, Safe, PTL

(* For any number of boots, the run page says "stalled" only of its last   *)
(* machine, after that machine's time and before its start.                *)
THEOREM StalledAreTheLastBoots == Spec => []StalledIsTheLastBoots
<1>1. IInv => StalledIsTheLastBoots BY DEF IInv
<1> QED BY <1>1, Safe, PTL

-----------------------------------------------------------------------------
(* Links *)

LEMMA LinkLands ==
    ASSUME route \in Routes, NEW target \in Targets(route), Go(target)
    PROVE  route' = target.route /\ (target.sub # NoSub => sub' = target.sub)
<1>1. IsLink(target) BY TargetsAreLinks
<1>2. normalizeRoute(target.route) = target.route BY <1>1, RoutesAreNormal DEF IsLink
<1>3. CASE route = "boot" /\ target.route = "boot" /\ target.sub # NoSub
  BY <1>2, <1>3 DEF Go, Jump
<1>4. CASE ~(route = "boot" /\ target.route = "boot" /\ target.sub # NoSub)
  <2>1. Load(hrefFor(target).file, target.sub)
    BY <1>1, <1>2, <1>4, HrefsAreFiles DEF Go, IsLink
  <2>2. hrefFor(target).file = PAGE_BY_ROUTE[target.route]
    BY <1>1, <1>2 DEF hrefFor, IsLink
  <2>3. route' = target.route BY <1>1, <2>1, <2>2, RouteOfPage DEF Load, IsLink
  <2>4. ASSUME target.sub # NoSub PROVE sub' = target.sub
    <3>1. target.route = "boot" BY <1>1, <2>4 DEF IsLink
    <3>2. ROUTE_BY_FILE(hrefFor(target).file) = "boot"
      BY <1>1, <2>2, <3>1, RouteOfPage DEF IsLink
    <3>3. MountBoot(target.sub, Bands)
      BY <2>1, <2>4, <3>2 DEF Load, bootStageFromHash
    <3> QED BY <3>3 DEF MountBoot
  <2> QED BY <2>3, <2>4
<1> QED BY <1>3, <1>4

(* Every link of every page leads to the page and the stage it names       *)
(* (hrefFor, PAGE_BY_ROUTE and App's reading of the hash).                 *)
THEOREM LinksAlwaysLand == Spec => LinksLand
<1> DEFINE Lands == \A target \in Targets(route) :
                Go(target) => route' = target.route /\ (target.sub # NoSub => sub' = target.sub)
<1>1. TypeOK => [Lands]_vars BY LinkLands DEF TypeOK
<1>2. LinksLand <=> [][Lands]_vars BY DEF LinksLand
<1> HIDE DEF Lands
<1> QED BY <1>1, <1>2, SiteTypes, PTL DEF Spec

-----------------------------------------------------------------------------
(* The build, what is published and what a reader boots, for any number    *)
(* of builds.                                                              *)

-----------------------------------------------------------------------------
(* The files *)

AllFiles == Files \cup Assets

LEMMA FilesAre ==
    Files = {"index.html", "boot.html", "dosapi.html", "tests.html", "filesystem.html",
             "memory.html", "programs.html", "shell.html", "mouse.html", "emulators.html",
             "casestudies.html", "glossary.html", "run.html"}
BY SMTT(30) DEF Files, Routes, PAGE_BY_ROUTE

LEMMA AssetsAreNoPages == Assets \cap Files = {} /\ IMAGE \in Assets /\ RUN \in Files
<1>1. RUN = "run.html" BY DEF RUN, PAGE_BY_ROUTE
<1> QED BY <1>1, FilesAre DEF Assets, IMAGE

(* Every page is written: SITE_PAGES names each route. *)
Pages == 1 .. 13

LEMMA PagesAre == Len(SITE_PAGES) = 13 /\ \A i \in Pages : SITE_PAGES[i] \in Routes
<1>1. Routes = {"overview", "boot", "dosapi", "tests", "fs", "mem", "prog", "shell",
                "mouse", "emulators", "cases", "glossary", "run"}
  BY DEF Routes, PAGE_BY_ROUTE
<1> QED BY <1>1, SMTT(30) DEF SITE_PAGES, Pages

LEMMA PageFilesAreFiles == \A i \in Pages : PageFile(i) \in Files
BY PagesAre DEF PageFile, Files

LEMMA EveryFileIsWritten == \A f \in Files : \E i \in Pages : f = PageFile(i)
<1>1. /\ SITE_PAGES[1] = "overview" /\ SITE_PAGES[2] = "boot" /\ SITE_PAGES[3] = "dosapi"
      /\ SITE_PAGES[4] = "tests" /\ SITE_PAGES[5] = "fs" /\ SITE_PAGES[6] = "mem"
      /\ SITE_PAGES[7] = "prog" /\ SITE_PAGES[8] = "shell" /\ SITE_PAGES[9] = "mouse"
      /\ SITE_PAGES[10] = "emulators" /\ SITE_PAGES[11] = "cases"
      /\ SITE_PAGES[12] = "glossary" /\ SITE_PAGES[13] = "run"
  BY DEF SITE_PAGES
<1>2. Routes = {SITE_PAGES[i] : i \in Pages}
  <2>1. Routes = {"overview", "boot", "dosapi", "tests", "fs", "mem", "prog", "shell",
                  "mouse", "emulators", "cases", "glossary", "run"}
    BY DEF Routes, PAGE_BY_ROUTE
  <2> QED BY <1>1, <2>1, SMTT(60) DEF Pages
<1> QED BY <1>2 DEF Files, PageFile

(* Excerpts *)
Excerpt == [key : {"file", "codeFile"}, named : BOOLEAN]

LEMMA ExcerptsAre == \A r : Excerpts(r) \subseteq Excerpt
<1>1. \A k \in {"file", "codeFile"} : Numbered(k) \in Excerpt /\ Named(k) \in Excerpt
  BY DEF Numbered, Named, Excerpt
<1>2. Numbered("file") \in Excerpt /\ Named("file") \in Excerpt
      /\ Numbered("codeFile") \in Excerpt /\ Named("codeFile") \in Excerpt
  BY <1>1
<1>3. MEM_SECTIONS \subseteq Excerpt /\ PROGRAM_SECTIONS \subseteq Excerpt
      /\ DOSAPI_GROUPS \subseteq Excerpt
  BY <1>2 DEF MEM_SECTIONS, PROGRAM_SECTIONS, DOSAPI_GROUPS
<1>4. STAGE_EXCERPTS \subseteq Excerpt /\ FS_SECTIONS \subseteq Excerpt
      /\ SHELL_SECTIONS \subseteq Excerpt /\ MOUSE_SECTIONS \subseteq Excerpt
      /\ CASES \subseteq Excerpt
  BY <1>2 DEF STAGE_EXCERPTS, FS_SECTIONS, SHELL_SECTIONS, MOUSE_SECTIONS, CASES
<1> QED BY <1>3, <1>4 DEF Excerpts

LEMMA ResolvedAre == \A e \in Excerpt : Resolved(e) \in Excerpt
<1>1. Numbered("file") \in Excerpt BY DEF Numbered, Excerpt
<1> QED BY <1>1 DEF Resolved, Excerpt

LEMMA NamesAreBoolean == \A e : ShowsNames(e) \in BOOLEAN
BY Zenon DEF ShowsNames

(* An excerpt whose source is given as "file" is shown with numbers.       *)
LEMMA ResolvedShowsNumbers ==
    ASSUME NEW r \in Routes, r # "dosapi"
    PROVE  ~ShowsNames({Resolved(e) : e \in Excerpts(r)})
<1>1. \A e \in Excerpts(r) : e.key = "file"
  <2>1. Numbered("file").key = "file" /\ Named("file").key = "file" BY DEF Numbered, Named
  <2>2. \A e \in MEM_SECTIONS \cup PROGRAM_SECTIONS : e.key = "file"
    BY <2>1 DEF MEM_SECTIONS, PROGRAM_SECTIONS
  <2>3. \A e \in STAGE_EXCERPTS \cup FS_SECTIONS \cup SHELL_SECTIONS \cup MOUSE_SECTIONS
                \cup CASES : e.key = "file"
    BY <2>1 DEF STAGE_EXCERPTS, FS_SECTIONS, SHELL_SECTIONS, MOUSE_SECTIONS, CASES
  <2> QED BY <2>2, <2>3 DEF Excerpts
<1>2. \A e \in Excerpts(r) : Resolved(e) = Numbered("file") BY <1>1 DEF Resolved
<1>3. ~Numbered("file").named BY DEF Numbered
<1> QED BY <1>2, <1>3 DEF ShowsNames

LEMMA DosApiIsItsPage ==
    ASSUME NEW r \in Routes, PAGE_BY_ROUTE[r] # PAGE_BY_ROUTE["dosapi"]
    PROVE  r # "dosapi"
OBVIOUS

LEMMA AssetsAreFiles ==
    ASSUME NEW b \in Image PROVE Asset(b) \in File /\ Asset(b).build = b
<1>1. 0 \in Image BY SiteBuildAssumption DEF Image
<1> QED BY <1>1 DEF Asset, File, Image

LEMMA AbsentIsAFile ==
    Absent \in File /\ Absent.build = 0 /\ Absent.config = 0 /\ Absent.link = 0
<1>1. 0 \in Image BY SiteBuildAssumption DEF Image
<1> QED BY <1>1, AssetsAreFiles DEF Absent, Asset

-----------------------------------------------------------------------------
(* The build *)

AfterImage == {"resolve", "pages", "bundle", "rest", "built"}
AfterResolve == {"pages", "bundle", "rest", "built"}

(* Nothing is newer than the last build; until its pages are written, none *)
(* is there that looks like it.                                            *)
Numbering ==
    /\ \A f \in AllFiles : out[f].build <= n
    /\ step \in {"image", "resolve"} => \A f \in Files : out[f].build # n

(* What the steps behind have made is of this build, and names its image. *)
ImageMade ==
    step \in AfterImage => imageUrl = (IF given THEN n ELSE 0) /\ (given => out[IMAGE].build = n)
PagesMade ==
    step \in AfterResolve =>
        /\ link = imageUrl
        /\ \A f \in Files : out[f].build = n => out[f].config = imageUrl /\ out[f].link = imageUrl
AllMade ==
    /\ step \in {"bundle", "rest", "built"} => \A f \in Files : out[f].build = n
    /\ step \in {"rest", "built"} => out["app.js"].build = n
    /\ step = "built" => out[".nojekyll"].build = n /\ out["ogcard.png"].build = n

BuildInv == Numbering /\ ImageMade /\ PagesMade /\ AllMade

(* The site and the reader: a page names the image it was published with,  *)
(* and no image is published that is older.                                *)
NamesItsImage(p) == p.config = p.build /\ p.build <= site[IMAGE].build
SiteInv == PublishedIsOneBuild /\ LinksNameTheImage /\ site[IMAGE].build <= n
ReaderInv ==
    /\ NamesItsImage(tab) /\ NamesItsImage(cache.page)
    /\ \A v \in Image : cache.image[v] # 0 => cache.image[v] >= v
    /\ BootsNoOlderImage

BuildIInv == BuildTypeOK /\ BuildInv /\ SiteInv /\ ReaderInv

-----------------------------------------------------------------------------
(* The types, by who changes them *)
BuildTypes ==
    /\ n \in 0 .. MaxBuilds /\ given \in BOOLEAN
    /\ step \in {"idle", "image", "resolve", "pages", "bundle", "rest", "built", "failed"}
    /\ lain \in Image /\ imageUrl \in Image /\ link \in Image
    /\ docs \in [Routes -> SUBSET Excerpt]
    /\ out \in [AllFiles -> File]
PublishedTypes ==
    /\ booted \in Image
    /\ site \in [AllFiles -> File]
    /\ cache \in [page : File, image : [Image -> Image]] /\ tab \in File

LEMMA Types == BuildTypeOK <=> BuildTypes /\ PublishedTypes
BY DEF BuildTypeOK, BuildTypes, PublishedTypes, AllFiles, Excerpt

LEMMA TypesNext == BuildTypeOK' <=> BuildTypes' /\ PublishedTypes'
BY DEF BuildTypeOK, BuildTypes, PublishedTypes, AllFiles, Excerpt

Others == PublishedTypes /\ SiteInv /\ ReaderInv

(* A step of the build that does not publish leaves all the rest alone. *)
LEMMA RestStays ==
    ASSUME BuildIInv, UNCHANGED <<site, readerVars>>, n' \in Nat, n' >= n
    PROVE  Others'
<1>1. PublishedTypes' BY Types DEF BuildIInv, PublishedTypes, readerVars
<1>2. ReaderInv' BY DEF BuildIInv, ReaderInv, NamesItsImage, BootsNoOlderImage, readerVars
<1>3. site[IMAGE].build \in Nat /\ n \in Nat
  <2>1. IMAGE \in AllFiles BY AssetsAreNoPages DEF AllFiles
  <2> QED BY <2>1, Types, SiteBuildAssumption DEF BuildIInv, BuildTypes, PublishedTypes, File
<1>4. SiteInv' BY <1>3 DEF BuildIInv, SiteInv, PublishedIsOneBuild, LinksNameTheImage
<1> QED BY <1>1, <1>2, <1>4 DEF Others

LEMMA Together ==
    ASSUME BuildTypes', BuildInv', Others' PROVE BuildIInv'
BY TypesNext DEF BuildIInv, Others

(* What is known before each step. *)
LEMMA Known ==
    ASSUME BuildIInv
    PROVE  /\ BuildTypes /\ PublishedTypes /\ BuildInv /\ n \in Nat
           /\ \A f \in AllFiles : out[f] \in File /\ out[f].build \in Nat
           /\ IMAGE \in AllFiles /\ Files \subseteq AllFiles
<1>1. BuildTypes /\ PublishedTypes /\ BuildInv BY Types DEF BuildIInv
<1>2. n \in Nat BY <1>1, SiteBuildAssumption DEF BuildTypes
<1>3. \A f \in AllFiles : out[f] \in File /\ out[f].build \in Nat
  BY <1>1, SiteBuildAssumption DEF BuildTypes, File
<1> QED BY <1>1, <1>2, <1>3, AssetsAreNoPages DEF AllFiles

-----------------------------------------------------------------------------
(* The steps of a build *)

LEMMA BuildStartsSafe == BuildInit => BuildIInv
<1> SUFFICES ASSUME BuildInit PROVE BuildIInv OBVIOUS
<1>1. 0 \in Image /\ 0 \in 0 .. MaxBuilds BY SiteBuildAssumption DEF Image
<1>2. NoFiles \in [AllFiles -> File] /\ \A f \in AllFiles : NoFiles[f] = Absent
  BY AbsentIsAFile DEF NoFiles, AllFiles
<1>3. IMAGE \in AllFiles /\ Files \subseteq AllFiles BY AssetsAreNoPages DEF AllFiles
<1>4. BuildTypes
  <2>1. docs \in [Routes -> SUBSET Excerpt] BY DEF BuildInit
  <2>2. n \in 0 .. MaxBuilds /\ given \in BOOLEAN BY <1>1 DEF BuildInit
  <2>3. step = "idle" BY DEF BuildInit
  <2> QED BY <1>1, <1>2, <2>1, <2>2, <2>3 DEF BuildInit, BuildTypes
<1>5. PublishedTypes
  <2>1. [v \in Image |-> 0] \in [Image -> Image] BY <1>1
  <2> QED BY <1>1, <1>2, <2>1, AbsentIsAFile DEF BuildInit, PublishedTypes
<1>6. BuildInv
  <2>1. step = "idle" /\ n = 0 /\ out = NoFiles BY DEF BuildInit
  <2>2. Numbering BY <1>2, <2>1, AbsentIsAFile DEF Numbering
  <2> QED BY <2>1, <2>2
     DEF BuildInv, ImageMade, PagesMade, AllMade, AfterImage, AfterResolve
<1>7. SiteInv
  BY <1>2, <1>3, AbsentIsAFile
     DEF BuildInit, SiteInv, PublishedIsOneBuild, LinksNameTheImage, AllFiles
<1>8. ReaderInv
  BY <1>2, <1>3, AbsentIsAFile DEF BuildInit, ReaderInv, NamesItsImage, BootsNoOlderImage
<1> QED BY <1>4, <1>5, <1>6, <1>7, <1>8, Types DEF BuildIInv

LEMMA FailsIsSafe == ASSUME BuildIInv, Fails PROVE BuildIInv'
<1>1. BuildTypes' BY Known DEF Fails, BuildTypes
<1>2. BuildInv'
  BY Known DEF Fails, BuildInv, Numbering, ImageMade, PagesMade, AllMade, AfterImage, AfterResolve
<1>3. Others' BY Known, RestStays DEF Fails
<1> QED BY <1>1, <1>2, <1>3, Together

(* Whatever is left of the old files has the number of an earlier build. *)
LEMMA BeginIsSafe == ASSUME BuildIInv, Begin PROVE BuildIInv'
<1>1. n' = n + 1 /\ step' = "image" BY DEF Begin
<1>2. out' \in [AllFiles -> File] /\ \A f \in AllFiles : out'[f].build <= n
  <2>1. PICK left : out' = [f \in DOMAIN out |-> IF f \in left THEN out[f] ELSE Absent]
    BY DEF Begin
  <2>2. DOMAIN out = AllFiles BY Known DEF BuildTypes
  <2>3. \A f \in AllFiles : out'[f] \in {out[f], Absent} BY <2>1, <2>2
  <2>4. \A f \in AllFiles : out[f].build <= n BY Known DEF BuildInv, Numbering
  <2> QED BY <2>1, <2>2, <2>3, <2>4, Known, AbsentIsAFile
<1>3. BuildTypes'
  <2>1. n' \in 0 .. MaxBuilds BY <1>1, Known, SiteBuildAssumption DEF Begin
  <2>2. given' \in BOOLEAN BY DEF Begin
  <2>3. lain' \in Image BY SiteBuildAssumption DEF Begin, Image
  <2>4. UNCHANGED <<imageUrl, link, docs>> BY DEF Begin
  <2> QED BY <1>1, <1>2, <2>1, <2>2, <2>3, <2>4, Known DEF BuildTypes
<1>4. BuildInv'
  <2>1. \A f \in AllFiles : out'[f].build <= n' /\ out'[f].build # n'
    <3>1. \A f \in AllFiles : out'[f].build \in Nat
      BY <1>2, SiteBuildAssumption DEF File
    <3> QED BY <1>1, <1>2, <3>1, Known
  <2>2. Numbering' BY <2>1, Known DEF Numbering
  <2> QED BY <1>1, <2>2 DEF BuildInv, ImageMade, PagesMade, AllMade, AfterImage, AfterResolve
<1>5. Others' BY <1>1, Known, RestStays DEF Begin
<1> QED BY <1>3, <1>4, <1>5, Together

LEMMA CopyIfImageIsSafe == ASSUME BuildIInv, CopyIfImage PROVE BuildIInv'
<1>1. /\ step = "image" /\ step' = "resolve" /\ n' = n /\ given' = given
      /\ imageUrl' = (IF given THEN n ELSE 0)
      /\ out' = (IF given THEN [out EXCEPT ![IMAGE] = Asset(n)] ELSE out)
  BY DEF CopyIfImage, Versioned
<1>2. n \in Image /\ 0 \in Image
  BY Known, SiteBuildAssumption DEF BuildTypes, Image
<1>3. /\ out' \in [AllFiles -> File]
      /\ given => out'[IMAGE].build = n
      /\ \A f \in AllFiles \ {IMAGE} : out'[f] = out[f]
  BY <1>1, <1>2, Known, AssetsAreFiles DEF BuildTypes
<1>4. BuildTypes'
  <2>1. imageUrl' \in Image BY <1>1, <1>2
  <2>2. UNCHANGED <<lain, link, docs>> BY DEF CopyIfImage
  <2> QED BY <1>1, <1>3, <2>1, <2>2, Known DEF BuildTypes
<1>5. BuildInv'
  <2>1. \A f \in AllFiles : out'[f].build <= n
    <3>1. CASE given
      BY <1>1, <1>3, <3>1, Known DEF BuildInv, Numbering
    <3>2. CASE ~given BY <1>1, <3>2, Known DEF BuildInv, Numbering
    <3> QED BY <3>1, <3>2
  <2>2. \A f \in Files : out'[f].build # n
    BY <1>1, <1>3, Known, AssetsAreNoPages DEF BuildInv, Numbering
  <2>3. ImageMade' BY <1>1, <1>3 DEF ImageMade
  <2> QED BY <1>1, <2>1, <2>2, <2>3 DEF BuildInv, Numbering, PagesMade, AllMade, AfterResolve
<1>6. Others' BY <1>1, Known, RestStays DEF CopyIfImage
<1> QED BY <1>4, <1>5, <1>6, Together

LEMMA ResolveIsSafe == ASSUME BuildIInv, ResolveDocAnchors PROVE BuildIInv'
<1>1. /\ step = "resolve" /\ step' = "pages" /\ link' = imageUrl /\ lain' = imageUrl
      /\ UNCHANGED <<n, given, imageUrl, out>>
  BY DEF ResolveDocAnchors, SetUrl
<1>2. BuildTypes'
  <2>1. docs' = [r \in Routes |-> {Resolved(e) : e \in Excerpts(r)}] BY DEF ResolveDocAnchors
  <2>2. \A r \in Routes : {Resolved(e) : e \in Excerpts(r)} \subseteq Excerpt
    BY ExcerptsAre, ResolvedAre
  <2>3. docs' \in [Routes -> SUBSET Excerpt] BY <2>1, <2>2
  <2> QED BY <1>1, <2>3, Known DEF BuildTypes
<1>3. BuildInv'
  <2>1. PagesMade' BY <1>1, Known DEF BuildInv, Numbering, PagesMade
  <2> QED BY <1>1, <2>1, Known
     DEF BuildInv, Numbering, ImageMade, AllMade, AfterImage
<1>4. Others' BY <1>1, Known, RestStays DEF ResolveDocAnchors
<1> QED BY <1>2, <1>3, <1>4, Together

(* The page with the last number ends the step, and by then all the others *)
(* are written.                                                            *)
LEMMA WritePageIsSafe == ASSUME BuildIInv, WritePage PROVE BuildIInv'
<1>1. PICK i \in Pages :
         /\ \A j \in 1 .. i - 1 : out[PageFile(j)].build = n
         /\ out' = [out EXCEPT ![PageFile(i)] =
                        [build |-> n, config |-> imageUrl, link |-> link,
                         names |-> ShowsNames(docs[SITE_PAGES[i]])]]
         /\ step' = IF i = 13 THEN "bundle" ELSE "pages"
  BY PagesAre DEF WritePage, Pages
<1>2. step = "pages" /\ UNCHANGED <<n, given, lain, imageUrl, link, docs, site, readerVars>>
  BY DEF WritePage
<1> DEFINE file == PageFile(i)
           page == [build |-> n, config |-> imageUrl, link |-> link,
                    names |-> ShowsNames(docs[SITE_PAGES[i]])]
<1>3. file \in Files /\ file # IMAGE BY PageFilesAreFiles, AssetsAreNoPages
<1>4. page \in File /\ page.build = n /\ page.config = imageUrl /\ page.link = link
  BY Known, NamesAreBoolean DEF BuildTypes, File
<1> HIDE DEF page
<1>5. /\ out' \in [AllFiles -> File] /\ out'[file] = page
      /\ \A f \in AllFiles \ {file} : out'[f] = out[f]
  BY <1>1, <1>3, <1>4, Known DEF BuildTypes, page
<1> HIDE DEF file
<1>6. BuildTypes' BY <1>1, <1>2, <1>5, Known DEF BuildTypes
<1>7. Numbering'
  <2>1. \A f \in AllFiles : out'[f].build <= n
    BY <1>4, <1>5, Known DEF BuildInv, Numbering
  <2> QED BY <1>1, <1>2, <2>1 DEF Numbering
<1>8. ImageMade' /\ PagesMade'
  <2>1. ImageMade'
    BY <1>1, <1>2, <1>3, <1>5, Known DEF BuildInv, ImageMade, AfterImage
  <2>2. \A f \in Files : out'[f].build = n => out'[f].config = imageUrl /\ out'[f].link = link
    BY <1>2, <1>4, <1>5, Known DEF BuildInv, PagesMade, AfterResolve
  <2> QED BY <1>2, <2>1, <2>2, Known DEF BuildInv, PagesMade, AfterResolve
<1>9. AllMade'
  <2>1. CASE i = 13
    <3>1. \A j \in Pages : out'[PageFile(j)].build = n
      <4> TAKE j \in Pages
      <4>1. CASE j = i BY <1>4, <1>5, <4>1 DEF file
      <4>2. CASE j # i
        <5>1. out[PageFile(j)].build = n BY <1>1, <2>1, <4>2 DEF Pages
        <5> QED BY <1>4, <1>5, <5>1, PageFilesAreFiles, Known
      <4> QED BY <4>1, <4>2
    <3>2. \A f \in Files : out'[f].build = n BY <3>1, EveryFileIsWritten
    <3> QED BY <1>1, <1>2, <2>1, <3>2 DEF AllMade
  <2>2. CASE i # 13 BY <1>1, <2>2 DEF AllMade
  <2> QED BY <2>1, <2>2
<1>10. Others' BY <1>2, Known, RestStays
<1> QED BY <1>6, <1>7, <1>8, <1>9, <1>10, Together DEF BuildInv

LEMMA RunBundleIsSafe == ASSUME BuildIInv, RunBundle PROVE BuildIInv'
<1>1. step = "bundle" /\ UNCHANGED <<n, given, lain, imageUrl, link, docs, site, readerVars>>
  BY DEF RunBundle
<1>2. "app.js" \in AllFiles /\ "app.js" \notin Files /\ "app.js" # IMAGE
  BY AssetsAreNoPages DEF AllFiles, Assets, IMAGE
<1>3. CASE out' = out /\ step' = "failed"
  <2>1. BuildTypes' BY <1>1, <1>3, Known DEF BuildTypes
  <2>2. BuildInv'
    BY <1>1, <1>3, Known
       DEF BuildInv, Numbering, ImageMade, PagesMade, AllMade, AfterImage, AfterResolve
  <2> QED BY <1>1, <2>1, <2>2, Known, RestStays, Together
<1>4. ASSUME NEW names \in BOOLEAN,
             out' = [out EXCEPT !["app.js"] =
                        [build |-> n, config |-> 0, link |-> 0, names |-> names]],
             step' = "rest"
      PROVE  BuildIInv'
  <2>1. 0 \in Image /\ n \in Image
    BY Known, SiteBuildAssumption DEF BuildTypes, Image
  <2>2. /\ out' \in [AllFiles -> File] /\ out'["app.js"].build = n
        /\ \A f \in AllFiles \ {"app.js"} : out'[f] = out[f]
    BY <1>2, <1>4, <2>1, Known DEF BuildTypes, File, Image
  <2>3. BuildTypes' BY <1>1, <1>4, <2>2, Known DEF BuildTypes
  <2>4. \A f \in AllFiles : out'[f].build <= n BY <2>2, Known DEF BuildInv, Numbering
  <2>5. \A f \in Files \cup {IMAGE} : out'[f] = out[f] BY <1>2, <2>2, Known
  <2>6. Numbering' /\ ImageMade' /\ PagesMade'
    BY <1>1, <1>4, <2>4, <2>5, Known
       DEF BuildInv, Numbering, ImageMade, PagesMade, AfterImage, AfterResolve
  <2>7. AllMade' BY <1>1, <1>4, <2>2, <2>5, Known DEF BuildInv, AllMade
  <2>8. Others' BY <1>1, Known, RestStays
  <2> QED BY <2>3, <2>6, <2>7, <2>8, Together DEF BuildInv
<1> QED BY <1>3, <1>4, NamesAreBoolean DEF RunBundle, ExitIfFailed

LEMMA RestIsSafe == ASSUME BuildIInv, Rest PROVE BuildIInv'
<1>1. /\ step = "rest" /\ step' \in {"built", "failed"}
      /\ out' = [out EXCEPT ![".nojekyll"] = Asset(n), !["ogcard.png"] = Asset(n)]
      /\ UNCHANGED <<n, given, lain, imageUrl, link, docs, site, readerVars>>
  BY DEF Rest
<1>2. /\ ".nojekyll" \in AllFiles /\ "ogcard.png" \in AllFiles
      /\ \A f \in Files \cup {IMAGE, "app.js"} :
            f \in AllFiles /\ f # ".nojekyll" /\ f # "ogcard.png"
  BY AssetsAreNoPages DEF AllFiles, Assets, IMAGE
<1>3. Asset(n) \in File /\ Asset(n).build = n
  BY Known, AssetsAreFiles, SiteBuildAssumption DEF BuildTypes, Image
<1>4. /\ out' \in [AllFiles -> File]
      /\ out'[".nojekyll"].build = n /\ out'["ogcard.png"].build = n
      /\ \A f \in AllFiles \ {".nojekyll", "ogcard.png"} : out'[f] = out[f]
  BY <1>1, <1>2, <1>3, Known DEF BuildTypes
<1>5. BuildTypes' BY <1>1, <1>4, Known DEF BuildTypes
<1>6. \A f \in AllFiles : out'[f].build <= n BY <1>4, Known DEF BuildInv, Numbering
<1>7. \A f \in Files \cup {IMAGE, "app.js"} : out'[f] = out[f] BY <1>2, <1>4
<1>8. Numbering' /\ ImageMade' /\ PagesMade'
  BY <1>1, <1>6, <1>7, Known
     DEF BuildInv, Numbering, ImageMade, PagesMade, AfterImage, AfterResolve
<1>9. AllMade' BY <1>1, <1>4, <1>7, Known DEF BuildInv, AllMade
<1>10. Others' BY <1>1, Known, RestStays
<1> QED BY <1>5, <1>8, <1>9, <1>10, Together DEF BuildInv

-----------------------------------------------------------------------------
(* Publishing *)

(* A build that has ended with an image has made every file. *)
LEMMA BuiltIsWhole ==
    ASSUME BuildIInv, step = "built", given
    PROVE  /\ \A f \in AllFiles : out[f].build = n
           /\ \A f \in Files : out[f].config = n /\ out[f].link = n
<1>1. \A f \in Files : out[f].build = n BY Known DEF BuildInv, AllMade
<1>2. out[IMAGE].build = n /\ imageUrl = n BY Known DEF BuildInv, ImageMade, AfterImage
<1>3. out["app.js"].build = n /\ out[".nojekyll"].build = n /\ out["ogcard.png"].build = n
  BY Known DEF BuildInv, AllMade
<1>4. \A f \in Assets : out[f].build = n BY <1>2, <1>3 DEF Assets
<1>5. \A f \in Files : out[f].config = n /\ out[f].link = n
  BY <1>1, <1>2, Known DEF BuildInv, PagesMade, AfterResolve
<1> QED BY <1>1, <1>4, <1>5 DEF AllFiles

LEMMA PublishIsSafe == ASSUME BuildIInv, Publish PROVE BuildIInv'
<1>1. step = "built" /\ given /\ site' = out /\ UNCHANGED <<buildVars, readerVars>>
  BY DEF Publish
<1>2. BuildTypes' /\ BuildInv'
  BY <1>1, Known
     DEF buildVars, BuildTypes, BuildInv, Numbering, ImageMade, PagesMade, AllMade
<1>3. PublishedTypes' BY <1>1, Known DEF PublishedTypes, BuildTypes, readerVars
<1>4. n' = n BY <1>1 DEF buildVars
<1>5. SiteInv'
  <2>1. \A f \in AllFiles : site'[f].build = n BY <1>1, BuiltIsWhole
  <2>2. \A f \in Files : site'[f].config = n /\ site'[f].link = n BY <1>1, BuiltIsWhole
  <2>3. site'[IMAGE].build = n BY <2>1, Known
  <2> QED BY <1>4, <2>1, <2>2, <2>3, Known
      DEF SiteInv, PublishedIsOneBuild, LinksNameTheImage, AllFiles
<1>6. ReaderInv'
  <2>1. site'[IMAGE].build = n BY <1>1, BuiltIsWhole, Known
  <2>2. site[IMAGE].build \in Nat BY Known, SiteBuildAssumption DEF PublishedTypes, File
  <2>3. tab.build \in Nat /\ cache.page.build \in Nat
    BY Known, SiteBuildAssumption DEF PublishedTypes, File
  <2>4. NamesItsImage(tab)' /\ NamesItsImage(cache.page)'
    BY <1>1, <2>1, <2>2, <2>3, Known
       DEF BuildIInv, SiteInv, ReaderInv, NamesItsImage, readerVars
  <2> QED BY <1>1, <2>4 DEF BuildIInv, ReaderInv, BootsNoOlderImage, readerVars
<1> QED BY <1>2, <1>3, <1>5, <1>6, Together DEF Others

-----------------------------------------------------------------------------
(* The reader *)

LEMMA ReaderKeepsTheRest ==
    ASSUME BuildIInv, UNCHANGED <<buildVars, site>> PROVE BuildTypes' /\ BuildInv' /\ SiteInv'
<1>1. BuildTypes' BY Known DEF buildVars, BuildTypes
<1>2. BuildInv'
  BY Known DEF buildVars, BuildInv, Numbering, ImageMade, PagesMade, AllMade
<1>3. SiteInv'
  BY DEF BuildIInv, buildVars, SiteInv, PublishedIsOneBuild, LinksNameTheImage
<1> QED BY <1>1, <1>2, <1>3

LEMMA OpenPageIsSafe == ASSUME BuildIInv, OpenPage PROVE BuildIInv'
<1>1. UNCHANGED <<buildVars, site>> /\ booted' = 0 BY DEF OpenPage
<1>2. PICK page \in {cache.page, site[RUN]} :
         tab' = page /\ cache' = [cache EXCEPT !.page = page]
  BY DEF OpenPage
<1>3. page \in File /\ NamesItsImage(page)
  <2>1. RUN \in AllFiles /\ RUN \in Files /\ IMAGE \in Files \cup Assets
    BY AssetsAreNoPages DEF AllFiles
  <2>2. site[RUN] \in File /\ cache.page \in File BY <2>1, Known DEF PublishedTypes
  <2>3. site[RUN].build = site[IMAGE].build
    BY <2>1 DEF BuildIInv, SiteInv, PublishedIsOneBuild
  <2>4. site[RUN].config = site[IMAGE].build BY <2>1 DEF BuildIInv, SiteInv, LinksNameTheImage
  <2>5. site[IMAGE].build \in Nat
    BY Known, SiteBuildAssumption DEF PublishedTypes, File
  <2>6. NamesItsImage(site[RUN]) BY <2>3, <2>4, <2>5 DEF NamesItsImage
  <2> QED BY <2>2, <2>6 DEF BuildIInv, ReaderInv
<1>4. cache'.page = page /\ cache'.image = cache.image
      /\ cache' \in [page : File, image : [Image -> Image]]
  BY <1>2, <1>3, Known DEF PublishedTypes
<1>5. PublishedTypes'
  BY <1>1, <1>2, <1>3, <1>4, Known, SiteBuildAssumption DEF PublishedTypes, Image
<1>6. ReaderInv'
  BY <1>1, <1>2, <1>3, <1>4 DEF BuildIInv, ReaderInv, NamesItsImage, BootsNoOlderImage
<1> QED BY <1>1, <1>5, <1>6, ReaderKeepsTheRest, Together DEF Others

(* A cached image is not older than the URL it is cached under, and the    *)
(* published one not older than any page.                                  *)
LEMMA BootImageIsSafe == ASSUME BuildIInv, BootImage PROVE BuildIInv'
<1>1. UNCHANGED <<buildVars, site, tab>> BY DEF BootImage
<1>2. PICK image \in {cache.image[tab.config], site[IMAGE].build} :
         /\ image # 0 /\ booted' = image
         /\ cache' = [cache EXCEPT !.image[tab.config] = image]
  BY DEF BootImage
<1>3. /\ tab.config \in Image /\ tab.config = tab.build /\ tab.build <= site[IMAGE].build
      /\ image \in Image /\ cache.image \in [Image -> Image]
  <2>1. tab.config = tab.build /\ tab.build <= site[IMAGE].build
    BY DEF BuildIInv, ReaderInv, NamesItsImage
  <2>2. tab.config \in Image /\ cache.image \in [Image -> Image]
    BY Known DEF PublishedTypes, File
  <2>3. site[IMAGE] \in File BY Known DEF PublishedTypes
  <2>4. site[IMAGE].build \in Image BY <2>3 DEF File, Image
  <2> QED BY <1>2, <2>1, <2>2, <2>4
<1>4. image >= tab.config BY <1>2, <1>3, SiteBuildAssumption DEF BuildIInv, ReaderInv, Image
<1>5. /\ cache'.page = cache.page /\ cache'.image = [cache.image EXCEPT ![tab.config] = image]
      /\ cache' \in [page : File, image : [Image -> Image]]
  BY <1>2, <1>3, Known DEF PublishedTypes
<1>6. PublishedTypes' BY <1>1, <1>2, <1>3, <1>5, Known DEF PublishedTypes
<1>7. ReaderInv'
  <2>1. \A v \in Image : cache'.image[v] # 0 => cache'.image[v] >= v
    BY <1>3, <1>4, <1>5 DEF BuildIInv, ReaderInv
  <2>2. BootsNoOlderImage' BY <1>1, <1>2, <1>3, <1>4 DEF BootsNoOlderImage
  <2>3. NamesItsImage(tab)' /\ NamesItsImage(cache.page)'
    BY <1>1, <1>5 DEF BuildIInv, ReaderInv, NamesItsImage
  <2> QED BY <2>1, <2>2, <2>3 DEF ReaderInv
<1>8. BuildTypes' /\ BuildInv' /\ SiteInv' BY <1>1, ReaderKeepsTheRest
<1> QED BY <1>6, <1>7, <1>8, Together DEF Others

-----------------------------------------------------------------------------
LEMMA BuildStepIsSafe == BuildIInv /\ [BuildNext]_siteVars => BuildIInv'
<1> SUFFICES ASSUME BuildIInv, [BuildNext]_siteVars PROVE BuildIInv' OBVIOUS
<1>1. CASE UNCHANGED siteVars
  <2>1. UNCHANGED <<buildVars, site>> /\ UNCHANGED <<site, readerVars>> /\ n' = n
    BY <1>1 DEF siteVars, buildVars
  <2> QED BY <2>1, Known, RestStays, ReaderKeepsTheRest, Together
<1>2. CASE Begin \/ CopyIfImage \/ ResolveDocAnchors \/ WritePage
  BY <1>2, BeginIsSafe, CopyIfImageIsSafe, ResolveIsSafe, WritePageIsSafe
<1>3. CASE RunBundle \/ Rest \/ Fails BY <1>3, RunBundleIsSafe, RestIsSafe, FailsIsSafe
<1>4. CASE Publish \/ OpenPage \/ BootImage
  BY <1>4, PublishIsSafe, OpenPageIsSafe, BootImageIsSafe
<1> QED BY <1>1, <1>2, <1>3, <1>4 DEF BuildNext

THEOREM BuildIsSafe == BuildSpec => []BuildIInv
BY BuildStartsSafe, BuildStepIsSafe, PTL DEF BuildSpec

(* Every variable of the build, the site and the reader keeps its type. *)
THEOREM TypeCorrect == BuildSpec => []BuildTypeOK
<1>1. BuildIInv => BuildTypeOK BY DEF BuildIInv
<1> QED BY <1>1, BuildIsSafe, PTL

(* For any number of builds, failing anywhere, what pages.yml publishes is *)
(* the files of one build.                                                 *)
THEOREM PublishedIsAlwaysOneBuild == BuildSpec => []PublishedIsOneBuild
<1>1. BuildIInv => PublishedIsOneBuild BY DEF BuildIInv, SiteInv
<1> QED BY <1>1, BuildIsSafe, PTL

(* Both names that a published page has for the image, the script's and    *)
(* the download link's, are those of the image beside it.                  *)
THEOREM LinksAlwaysNameTheImage == BuildSpec => []LinksNameTheImage
<1>1. BuildIInv => LinksNameTheImage BY DEF BuildIInv, SiteInv
<1> QED BY <1>1, BuildIsSafe, PTL

-----------------------------------------------------------------------------
(* What the gutters show: a page that is written has the resolver's copy,  *)
(* and one that is left over had an earlier one's.                         *)
Gutters == Files \ {PAGE_BY_ROUTE["dosapi"]}
NumbersInv ==
    /\ step = "pages" => docs = [r \in Routes |-> {Resolved(e) : e \in Excerpts(r)}]
    /\ \A f \in Gutters : ~out[f].names /\ ~site[f].names

LEMMA InitShowsNumbers == BuildInit => NumbersInv
<1>1. ~Absent.names BY DEF Absent, Asset
<1>2. \A f \in Gutters : NoFiles[f] = Absent BY DEF NoFiles, Gutters
<1> QED BY <1>1, <1>2 DEF BuildInit, NumbersInv

LEMMA NumbersStay == ASSUME BuildIInv, NumbersInv, [BuildNext]_siteVars PROVE NumbersInv'
<1>1. /\ ~Absent.names /\ DOMAIN out = AllFiles /\ out \in [AllFiles -> File]
      /\ \A f \in Gutters : f \in AllFiles /\ f \in Files
  <2>1. ~Absent.names BY DEF Absent, Asset
  <2> QED BY <2>1, Known DEF BuildTypes, Gutters
<1>2. \A f \in Gutters : f # IMAGE /\ f # "app.js" /\ f # ".nojekyll" /\ f # "ogcard.png"
  BY <1>1, AssetsAreNoPages DEF Assets, IMAGE
<1>3. CASE Begin
  <2>1. PICK left : out' = [f \in DOMAIN out |-> IF f \in left THEN out[f] ELSE Absent]
    BY <1>3 DEF Begin
  <2>2. \A f \in Gutters : out'[f] \in {out[f], Absent} BY <1>1, <2>1
  <2>3. step' # "pages" /\ site' = site BY <1>3 DEF Begin
  <2> QED BY <1>1, <2>2, <2>3 DEF NumbersInv
<1>4. CASE CopyIfImage
  <2>1. \A f \in Gutters : out'[f] = out[f] BY <1>1, <1>2, <1>4 DEF CopyIfImage
  <2> QED BY <1>4, <2>1 DEF CopyIfImage, NumbersInv
<1>5. CASE ResolveDocAnchors
  BY <1>5 DEF ResolveDocAnchors, NumbersInv
<1>6. CASE WritePage
  <2>1. PICK i \in Pages :
           out' = [out EXCEPT ![PageFile(i)] =
                        [build |-> n, config |-> imageUrl, link |-> link,
                         names |-> ShowsNames(docs[SITE_PAGES[i]])]]
    BY <1>6, PagesAre DEF WritePage, Pages
  <2>2. step = "pages" /\ site' = site /\ docs' = docs BY <1>6 DEF WritePage
  <2>3. docs = [r \in Routes |-> {Resolved(e) : e \in Excerpts(r)}] BY <2>2 DEF NumbersInv
  <2>4. \A f \in Gutters : ~out'[f].names
    <3> TAKE f \in Gutters
    <3>1. CASE f = PageFile(i)
      <4>1. SITE_PAGES[i] \in Routes BY PagesAre
      <4>2. SITE_PAGES[i] # "dosapi"
        BY <3>1, <4>1, DosApiIsItsPage DEF PageFile, Gutters
      <4>3. ~ShowsNames(docs[SITE_PAGES[i]])
        BY <2>3, <4>1, <4>2, ResolvedShowsNumbers
      <4>4. out'[f].names = ShowsNames(docs[SITE_PAGES[i]]) BY <1>1, <2>1, <3>1
      <4> QED BY <4>3, <4>4
    <3>2. CASE f # PageFile(i)
      <4>1. out'[f] = out[f] BY <1>1, <2>1, <3>2
      <4> QED BY <4>1 DEF NumbersInv
    <3> QED BY <3>1, <3>2
  <2> QED BY <2>2, <2>3, <2>4 DEF NumbersInv
<1>7. CASE RunBundle
  <2>1. \A f \in Gutters : out'[f] = out[f] BY <1>1, <1>2, <1>7 DEF RunBundle
  <2>2. step' # "pages" /\ site' = site BY <1>7 DEF RunBundle, ExitIfFailed
  <2> QED BY <2>1, <2>2 DEF NumbersInv
<1>8. CASE Rest
  <2>1. \A f \in Gutters : out'[f] = out[f] BY <1>1, <1>2, <1>8 DEF Rest
  <2>2. step' # "pages" /\ site' = site BY <1>8 DEF Rest
  <2> QED BY <2>1, <2>2 DEF NumbersInv
<1>9. CASE Fails BY <1>9 DEF Fails, NumbersInv
<1>10. CASE Publish BY <1>10 DEF Publish, buildVars, NumbersInv
<1>11. CASE OpenPage \/ BootImage BY <1>11 DEF OpenPage, BootImage, buildVars, NumbersInv
<1>12. CASE UNCHANGED siteVars BY <1>12 DEF siteVars, buildVars, NumbersInv
<1> QED BY <1>3, <1>4, <1>5, <1>6, <1>7, <1>8, <1>9, <1>10, <1>11, <1>12 DEF BuildNext

(* Whatever is left over of earlier builds and wherever a build fails, the *)
(* published pages show line numbers, all but the DOS API page.            *)
THEOREM PagesAlwaysShowNumbers == BuildSpec => []PagesShowNumbers
<1>1. NumbersInv => PagesShowNumbers BY DEF NumbersInv, PagesShowNumbers, Gutters
<1>2. BuildIInv /\ NumbersInv /\ [BuildNext]_siteVars => NumbersInv' BY NumbersStay
<1> QED BY <1>1, <1>2, InitShowsNumbers, BuildIsSafe, PTL DEF BuildSpec

(* No reader boots an image older than the page, whatever is cached        *)
(* (copyIfImage's version in the URL).                                     *)
THEOREM NoOlderImageBoots == BuildSpec => []BootsNoOlderImage
<1>1. BuildIInv => BootsNoOlderImage BY DEF BuildIInv, ReaderInv
<1> QED BY <1>1, BuildIsSafe, PTL
=============================================================================
