----------------------------- MODULE SitePages -----------------------------
(***************************************************************************)
(* The pages of the documentation site, how a target such as "boot/s4" is  *)
(* named, turned into a URL and read back, and the targets a reader can    *)
(* click on each page.                                                     *)
(*                                                                         *)
(* A target is a route and, after a "/", a part of the page.  The encoding *)
(* of the part in the URL (encodeURIComponent, decodeURIComponent) is      *)
(* undone by its reader, so that a hash here is the part it names.         *)
(***************************************************************************)
EXTENDS Sequences, SequencesExt

NoSub == "no sub"                        \* a target without a "/"
To(route) == [route |-> route, sub |-> NoSub]
ToStage(s) == [route |-> "boot", sub |-> s]

(* The stages of the boot walkthrough, in the order of the page. *)
STAGES == <<"s0", "s1", "s1b", "s2", "s3", "s4", "s5", "s6", "s7">>
StageIds == ToSet(STAGES)

(* The routes in the order the pages are made, and the file of each. *)
SITE_PAGES == <<"overview", "boot", "dosapi", "tests", "fs", "mem", "prog", "shell",
                "mouse", "emulators", "cases", "glossary", "run">>
PAGE_BY_ROUTE ==
    [overview |-> "index.html", boot |-> "boot.html", dosapi |-> "dosapi.html",
     tests |-> "tests.html", fs |-> "filesystem.html", mem |-> "memory.html",
     prog |-> "programs.html", shell |-> "shell.html", mouse |-> "mouse.html",
     emulators |-> "emulators.html", cases |-> "casestudies.html",
     glossary |-> "glossary.html", run |-> "run.html"]
Routes == DOMAIN PAGE_BY_ROUTE
Files == {PAGE_BY_ROUTE[r] : r \in Routes}
ROUTE_BY_FILE(file) == CHOOSE r \in Routes : PAGE_BY_ROUTE[r] = file

normalizeRoute(route) ==
    CASE route = "index"      -> "overview"
      [] route = "filesystem" -> "fs"
      [] route = "memory"     -> "mem"
      [] route = "programs"   -> "prog"
      [] OTHER                -> route

(* A route that names no page becomes the overview. *)
hrefFor(target) ==
    LET route == normalizeRoute(target.route)
    IN  [file |-> PAGE_BY_ROUTE[IF route \in Routes THEN route ELSE "overview"],
         hash |-> target.sub]

-----------------------------------------------------------------------------
(* The sidebar: a track or page each, and the parts of the track shown. *)
NAV == <<"overview", "boot", "dosapi", "tests", "fs", "mem", "prog", "shell",
         "mouse", "emulators", "cases", "glossary", "run">>
Tracks == ToSet(NAV) \ {"overview", "glossary", "run"}
BootChildren == {"s0", "s1", "s2", "s3", "s4", "s5", "s6", "s7"}

SidebarTargets(route) ==
    {To(r) : r \in ToSet(NAV)} \cup
    (IF route = "boot" THEN {ToStage(s) : s \in BootChildren} ELSE {})

-----------------------------------------------------------------------------
(* What each page lets the reader click, besides the sidebar. *)
OverviewTargets == {To(t) : t \in Tracks} \cup {To("boot"), To("run")}
BootTargets     == {ToStage(s) : s \in StageIds} \cup {To("run")}
DosApiTargets   == {To("run"), ToStage("s4")}
TestsTargets    == {To("dosapi")}
FilesystemTargets == {ToStage("s5"), To("dosapi"), To("tests")}
MemoryTargets   == {ToStage("s5"), To("prog"), To("tests")}
ProgramsTargets == {To("dosapi"), ToStage("s7"), To("tests")}
ShellTargets    == {To("run"), To("prog"), To("fs"), To("tests")}
MouseTargets    == {To("dosapi"), To("tests"), To("run")}
EmulatorsTargets == {To("run")}
CasesTargets    == {}          \* only anchors within the page
GlossaryTargets == {To("emulators")}
RunTargets      == {To("boot")}

(* The page App shows for a route, as what can be clicked on it. *)
PageTargets(route) ==
    CASE route = "overview"  -> OverviewTargets
      [] route = "boot"      -> BootTargets
      [] route = "dosapi"    -> DosApiTargets
      [] route = "tests"     -> TestsTargets
      [] route = "fs"        -> FilesystemTargets
      [] route = "mem"       -> MemoryTargets
      [] route = "prog"      -> ProgramsTargets
      [] route = "shell"     -> ShellTargets
      [] route = "mouse"     -> MouseTargets
      [] route = "emulators" -> EmulatorsTargets
      [] route = "cases"     -> CasesTargets
      [] route = "glossary"  -> GlossaryTargets
      [] route = "run"       -> RunTargets

Targets(route) == SidebarTargets(route) \cup PageTargets(route)

-----------------------------------------------------------------------------
(* The code excerpts of a page.  A list of excerpts gives each its source  *)
(* under "file" or "codeFile", and each of its lines a number, or the name *)
(* of an anchor in the source.  An excerpt here is the key of its source   *)
(* and whether some line of it has a name.                                 *)
Numbered(key) == [key |-> key, named |-> FALSE]
Named(key) == [key |-> key, named |-> TRUE]

STAGE_EXCERPTS   == {Numbered("file")}
FS_SECTIONS      == {Numbered("file")}
MEM_SECTIONS     == {Numbered("file"), Named("file")}
PROGRAM_SECTIONS == {Numbered("file"), Named("file")}
SHELL_SECTIONS   == {Numbered("file")}
MOUSE_SECTIONS   == {Numbered("file")}
CASES            == {Numbered("file")}
DOSAPI_GROUPS    == {Numbered("codeFile"), Named("codeFile")}

Excerpts(route) ==
    CASE route = "boot"   -> STAGE_EXCERPTS
      [] route = "dosapi" -> DOSAPI_GROUPS
      [] route = "fs"     -> FS_SECTIONS
      [] route = "mem"    -> MEM_SECTIONS
      [] route = "prog"   -> PROGRAM_SECTIONS
      [] route = "shell"  -> SHELL_SECTIONS
      [] route = "mouse"  -> MOUSE_SECTIONS
      [] route = "cases"  -> CASES
      [] OTHER            -> {}

(* The gutter shows a line's number, or the name it has instead. *)
ShowsNames(excerpts) == \E e \in excerpts : e.named
=============================================================================
