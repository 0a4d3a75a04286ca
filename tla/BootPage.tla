------------------------------ MODULE BootPage ------------------------------
(***************************************************************************)
(* The boot walkthrough: a page of stages, a sidebar that marks one of     *)
(* them and a panel that shows the memory of one of them.                  *)
(*                                                                         *)
(* A click on a stage scrolls to it and, for 700 ms, ignores what the      *)
(* IntersectionObserver says of the stages that the scroll runs over.      *)
(* What the reader's browser does is external: the stages in the           *)
(* observer's band change with every scroll, and a report comes later.     *)
(***************************************************************************)
EXTENDS Naturals, FiniteSets, SitePages

CONSTANTS
    Bands,       \* the sets of stages that can be in the observer's band at once
    MaxJumps     \* bound: jumps between two loads of the page

ASSUME BootPageAssumption == Bands \subseteq SUBSET StageIds /\ {} \in Bands /\ MaxJumps \in Nat

VARIABLES
    sub,         \* App: the stage the sidebar marks
    scrollReq,   \* App: the last jump, which the page's effect answers
    reqN,        \* App: the number of the last jump
    active,      \* the stage the panel shows
    lockRef,     \* the observer's reports are ignored
    timers,      \* jumps whose 700 ms timer is armed
    band,        \* external: the stages in the observer's band
    seen         \* external: those that the observer's last report knew

bootVars == <<sub, scrollReq, reqN, active, lockRef, timers, band, seen>>

NoRequest == [id |-> NoSub, n |-> 0]

(* The stages a URL can name: the page's, and others that it does not have. *)
Hashes == StageIds \cup {"unknown"}

(* s1b has no entry of its own in the sidebar. *)
navOf(s) == IF s = "s1b" THEN "s1" ELSE s

BootInit ==
    /\ sub = "s0"
    /\ scrollReq = NoRequest
    /\ reqN = 0
    /\ active = "s0"
    /\ lockRef = FALSE
    /\ timers = {}
    /\ band = {}
    /\ seen = {}

-----------------------------------------------------------------------------
(* The scroll effect.  React first runs the cleanup of the last one, which *)
(* clears its timer; a stage that the page does not have ends it there.    *)

ClearNothing(armed, req) == armed      \* mutant: an effect without a cleanup
ClearTimeout(armed, req) == armed \ {req.n}

Lock(locked, req) == locked \/ req.id \in StageIds

ScrollEffect(locked, armed, last, req) ==
    /\ lockRef' = Lock(locked, req)
    /\ timers' = ClearTimeout(armed, last) \cup (IF req.id \in StageIds THEN {req.n} ELSE {})

(* App is loaded with a stage in its URL, or with none ("s0"), as on every *)
(* other page.                                                             *)
MountBoot(first, bands) ==
    /\ sub' = first
    /\ reqN' = IF first = "s0" THEN 0 ELSE 1
    /\ active' = "s0"
    /\ band' \in bands /\ seen' = {}
    /\ IF first = "s0"
       THEN scrollReq' = NoRequest /\ lockRef' = FALSE /\ timers' = {}
       ELSE /\ scrollReq' = [id |-> first, n |-> 0]
            /\ ScrollEffect(FALSE, {}, NoRequest, [id |-> first, n |-> 0])

(* go within the page: the URL changes without a load. *)
Jump(s) ==
    /\ reqN < MaxJumps
    /\ sub' = s
    /\ reqN' = reqN + 1
    /\ scrollReq' = [id |-> s, n |-> reqN + 1]
    /\ ScrollEffect(lockRef, timers, scrollReq, [id |-> s, n |-> reqN + 1])
    /\ band' \in Bands
    /\ UNCHANGED <<active, seen>>

LockExpires ==
    \E n \in timers :
        /\ timers' = timers \ {n}
        /\ lockRef' = FALSE
        /\ UNCHANGED <<sub, scrollReq, reqN, active, band, seen>>

-----------------------------------------------------------------------------
Scroll ==
    /\ band' \in Bands \ {band}
    /\ UNCHANGED <<sub, scrollReq, reqN, active, lockRef, timers, seen>>

(* A report lists the stages that came into the band or left it, and may   *)
(* list one that stays and crossed a half or a whole.  The page takes the  *)
(* one that shows most.                                                    *)
Report(entries) ==
    /\ entries \subseteq band \cup seen
    /\ (band \ seen) \cup (seen \ band) \subseteq entries
    /\ entries # {}
    /\ seen' = band
    /\ IF lockRef \/ entries \cap band = {}
       THEN UNCHANGED <<active, sub>>
       ELSE \E id \in entries \cap band : active' = id /\ sub' = navOf(id)
    /\ UNCHANGED <<scrollReq, reqN, lockRef, timers, band>>

BootNext ==
    \/ LockExpires
    \/ Scroll
    \/ \E entries \in SUBSET (band \cup seen) : Report(entries)

-----------------------------------------------------------------------------
(* Properties *)

BootTypeOK ==
    /\ sub \in Hashes /\ active \in StageIds
    /\ scrollReq \in [id : Hashes \cup {NoSub}, n : Nat]
    /\ reqN \in Nat
    /\ lockRef \in BOOLEAN /\ timers \subseteq Nat
    /\ band \in Bands /\ seen \in Bands

(* While the time of the last jump runs, the sidebar marks the stage it    *)
(* went to: neither the stages the scroll runs over, whenever they are     *)
(* reported, nor the timer of an earlier jump take it away.                *)
JumpHolds == scrollReq.n \in timers => sub = scrollReq.id

(* The observer is ignored exactly while a timer that will end this is     *)
(* armed, and that timer is the last jump's: the page never stays deaf.    *)
LockIsTheLastJumps ==
    /\ lockRef <=> timers # {}
    /\ timers \subseteq {scrollReq.n}

=============================================================================
