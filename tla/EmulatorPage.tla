---------------------------- MODULE EmulatorPage ----------------------------
(***************************************************************************)
(* The run page: what its status line says of the emulator it starts.      *)
(*                                                                         *)
(* Every click on a boot button clears the timer of the machine before and *)
(* destroys it, and makes a new one.  The emulator library is external: it *)
(* may be missing, its constructor may throw, it reports that it started   *)
(* or that a download failed, or never reports.  Its destroy may not stop  *)
(* a machine that is still loading, whose listeners the page leaves in     *)
(* place: such an orphan may still report.                                 *)
(***************************************************************************)
EXTENDS Naturals

CONSTANT MaxBoots    \* bound: boots between two loads of the page

ASSUME EmulatorPageAssumption == MaxBoots \in Nat

VARIABLES
    lib,       \* external: window.V86 is there
    phase,     \* the status line
    errMsg,    \* why, when the phase is "error"
    bootKey,   \* the number of the last boot
    emus,      \* external: the state of the machine of each boot
    pending,   \* boots whose 14 s timer is armed
    view       \* the tab shown

runVars == <<lib, phase, errMsg, bootKey, emus, pending, view>>

Phases == {"idle", "booting", "running", "stalled", "error"}
Messages == {"", "no library", "exception", "no image"}
Boots == 1 .. MaxBoots

RunInit ==
    /\ lib = FALSE
    /\ phase = "idle"
    /\ errMsg = ""
    /\ bootKey = 0
    /\ emus = [k \in Boots |-> "none"]
    /\ pending = {}
    /\ view = "screen"

MountRun(present) ==
    /\ lib' = present
    /\ phase' = "idle"
    /\ errMsg' = ""
    /\ bootKey' = 0
    /\ emus' = [k \in Boots |-> "none"]
    /\ pending' = {}
    /\ view' = "screen"

-----------------------------------------------------------------------------
(* onStatus: the message stays until the next boot. *)
onStatus(s, msg) ==
    /\ phase' = s
    /\ errMsg' = IF msg # "" THEN msg ELSE errMsg

(* The cleanup of the machine before. *)
KeepTimers(armed, k) == armed          \* mutant: the old timer is left armed
CancelTimer(armed, k) == armed \ {k}

Destroyed(k, orphaned) ==
    [e \in Boots |-> IF e # k THEN emus[e]
                     ELSE IF emus[e] = "loading" /\ orphaned THEN "orphan"
                     ELSE IF emus[e] = "orphan" THEN "orphan" ELSE "gone"]

(* The machine's timer is armed after it is made; when there is none to    *)
(* make, the effect ends before it.                                        *)
NoTimer(armed, k) == armed             \* mutant: no boot has a timer
ArmTimer(armed, k) == armed \cup {k}

(* Power on, Reboot and Try again. *)
Boot(throws, orphaned) ==
    /\ bootKey < MaxBoots
    /\ bootKey' = bootKey + 1
    /\ LET k == bootKey + 1
           before == IF bootKey = 0 THEN emus ELSE Destroyed(bootKey, orphaned)
           cleared == CancelTimer(pending, bootKey)
       IN  IF ~lib
           THEN /\ phase' = "error" /\ errMsg' = "no library"
                /\ emus' = before
                /\ pending' = cleared
                /\ view' = view
           ELSE IF throws
           THEN /\ phase' = "error" /\ errMsg' = "exception"
                /\ emus' = before
                /\ pending' = cleared
                /\ view' = "screen"
           ELSE /\ phase' = "booting" /\ errMsg' = ""
                /\ emus' = [before EXCEPT ![k] = "loading"]
                /\ pending' = ArmTimer(cleared, k)
                /\ view' = "screen"
    /\ lib' = lib

(* "emulator-started" of any machine that still reports. *)
Started(k) ==
    /\ emus[k] \in {"loading", "orphan"}
    /\ emus' = [emus EXCEPT ![k] = IF @ = "loading" THEN "started" ELSE "gone"]
    /\ onStatus("running", "")
    /\ UNCHANGED <<lib, bootKey, pending, view>>

(* "download-error" *)
DownloadError(k) ==
    /\ emus[k] \in {"loading", "orphan"}
    /\ emus' = [emus EXCEPT ![k] = IF @ = "loading" THEN "failed" ELSE "gone"]
    /\ onStatus("error", "no image")
    /\ UNCHANGED <<lib, bootKey, pending, view>>

(* The timer asks its own machine's `started`, which nothing resets. *)
TimerFires ==
    \E k \in pending :
        /\ pending' = pending \ {k}
        /\ IF emus[k] = "started" THEN UNCHANGED <<phase, errMsg>> ELSE onStatus("stalled", "")
        /\ UNCHANGED <<lib, bootKey, emus, view>>

SetView(v) ==
    /\ phase # "idle"
    /\ view # v
    /\ view' = v
    /\ UNCHANGED <<lib, phase, errMsg, bootKey, emus, pending>>

RunNext ==
    \/ \E throws, orphaned \in BOOLEAN : Boot(throws, orphaned)
    \/ \E k \in Boots : Started(k) \/ DownloadError(k)
    \/ TimerFires
    \/ \E v \in {"screen", "serial"} : SetView(v)

-----------------------------------------------------------------------------
(* Properties *)

RunTypeOK ==
    /\ lib \in BOOLEAN /\ phase \in Phases /\ errMsg \in Messages
    /\ bootKey \in 0 .. MaxBoots
    /\ emus \in [Boots -> {"none", "loading", "started", "failed", "orphan", "gone"}]
    /\ pending \subseteq Boots /\ view \in {"screen", "serial"}

(* The page says "loading" only of the machine it shows: the 14 s of the   *)
(* last boot are over, that machine has not started, and no timer of a     *)
(* machine that a reboot replaced has a say.                               *)
StalledIsTheLastBoots ==
    phase = "stalled" => /\ bootKey \in Boots \ pending
                         /\ emus[bootKey] # "started"

(* Every boot is answered: the machine runs, fails, or is called stalled   *)
(* when its time is over.                                                  *)
BootIsAnswered == phase = "booting" ~> phase # "booting"
=============================================================================
