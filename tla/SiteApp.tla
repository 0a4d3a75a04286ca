------------------------------ MODULE SiteApp -------------------------------
(***************************************************************************)
(* The documentation site in a reader's browser: App chooses the page for  *)
(* the document that was loaded and answers the clicks on it.              *)
(*                                                                         *)
(* Every document runs App anew.  Back, Forward and Reload to another      *)
(* document are loads of it; within the boot page App does not listen to   *)
(* them, and the browser's scrolling is all that is left of them (Scroll   *)
(* of BootPage), so neither the URL nor the history is kept here.          *)
(***************************************************************************)
EXTENDS BootPage, EmulatorPage

VARIABLE route     \* the page that is shown

vars == <<route, bootVars, runVars>>

Init ==
    /\ route = "overview"
    /\ BootInit
    /\ RunInit

bootStageFromHash(hash) == IF hash = NoSub THEN "s0" ELSE hash

(* App's first render.  The page's own LAIN_PAGE names its route. *)
Load(file, hash) ==
    LET r == ROUTE_BY_FILE(file) IN
    /\ route' = r
    /\ IF r = "boot" THEN MountBoot(bootStageFromHash(hash), Bands) ELSE MountBoot("s0", {{}})
    /\ \E present \in (IF r = "run" THEN BOOLEAN ELSE {FALSE}) : MountRun(present)

(* A document opened from outside, by a link or the browser's history.     *)
(* Only the boot page reads the hash, which may be one that no stage has.  *)
Visit ==
    \/ \E file \in Files : Load(file, NoSub)
    \/ \E hash \in Hashes : Load(PAGE_BY_ROUTE["boot"], hash)

(* App's go, with the page itself or the sidebar calling it. *)
Go(target) ==
    IF route = "boot" /\ normalizeRoute(target.route) = route /\ target.sub # NoSub
    THEN Jump(target.sub) /\ UNCHANGED <<route, runVars>>
    ELSE LET at == hrefFor(target) IN Load(at.file, at.hash)

Next ==
    \/ Visit
    \/ \E target \in Targets(route) : Go(target)
    \/ route = "boot" /\ BootNext /\ UNCHANGED <<route, runVars>>
    \/ route = "run" /\ RunNext /\ UNCHANGED <<route, bootVars>>

(* The browser runs the timers that are due. *)
Fairness ==
    /\ WF_vars(LockExpires /\ UNCHANGED <<route, runVars>>)
    /\ WF_vars(TimerFires /\ UNCHANGED <<route, bootVars>>)

Spec == Init /\ [][Next]_vars
FairSpec == Spec /\ Fairness

-----------------------------------------------------------------------------
(* Properties *)

TypeOK == route \in Routes /\ BootTypeOK /\ RunTypeOK

(* Every link the reader is offered leads where it says: to the page it    *)
(* names and on the boot page to the stage it names, never to the overview *)
(* that stands in for an unknown route.                                    *)
LinksLand ==
    [][\A target \in Targets(route) :
          Go(target) => route' = target.route /\ (target.sub # NoSub => sub' = target.sub)]_vars
=============================================================================
