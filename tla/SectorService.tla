--------------------------- MODULE SectorService ---------------------------
(***************************************************************************)
(* What the rest of the kernel relies on when it asks for sectors: they    *)
(* are moved in order, each once, between the disk and its place in        *)
(* memory; success means all of them, an error that some first ones were.  *)
(***************************************************************************)
EXTENDS Naturals, Sequences

VARIABLES
    want,      \* the places of the sectors asked for
    moved,     \* the places moved so far
    state      \* "idle", "busy", "done" or "failed"

vars == <<want, moved, state>>

Init == want = <<>> /\ moved = <<>> /\ state = "idle"

Request ==
    /\ state = "idle" /\ state' = "busy"
    /\ want' # <<>>
    /\ moved' = <<>>

Move ==
    /\ state = "busy"
    /\ \E n \in 1 .. Len(want) - Len(moved) :
          /\ moved' = SubSeq(want, 1, Len(moved) + n)
          /\ state' = IF Len(moved) + n = Len(want) THEN "done" ELSE "busy"
    /\ UNCHANGED want

Fail == state = "busy" /\ state' = "failed" /\ UNCHANGED <<want, moved>>
Return == state \in {"done", "failed"} /\ state' = "idle" /\ UNCHANGED <<want, moved>>

Next == Request \/ Move \/ Fail \/ Return

Spec == Init /\ [][Next]_vars
=============================================================================
