---------------------------- MODULE SectorStore ----------------------------
(***************************************************************************)
(* What files and directories rely on: the sectors of the drives hold what *)
(* was written last, and reads answer just that, whatever is cached,       *)
(* written late or fails.                                                  *)
(***************************************************************************)
EXTENDS Naturals

CONSTANTS
    Drives, Sectors,    \* sectors: 0 .. some last one
    Parts,              \* the parts of a sector that are written by themselves
    Data                \* what a part can hold

VARIABLES
    store,              \* the contents of each sector, by its parts
    answer              \* what the last step answered

vars == <<store, answer>>

Contents(d, first, last) == [i \in 1 .. last - first + 1 |-> store[d][first + i - 1]]

(* Some parts of a sector are written, the others keep what they hold. An  *)
(* error may be answered although they are.                                *)
Write(d, s, ps, v) ==
    /\ store' = [store EXCEPT ![d][s] = [p \in Parts |-> IF p \in ps THEN v ELSE @[p]]]
    /\ answer'.kind \in {"done", "failed"}

Read(d, first, last) ==
    /\ first <= last
    /\ answer' = [kind |-> "data", drive |-> d, first |-> first, data |-> Contents(d, first, last)]
    /\ UNCHANGED store

(* Everything else: switching drives, saving, failing. *)
Other ==
    /\ answer'.kind # "data"
    /\ UNCHANGED store

Next ==
    \/ \E d \in Drives, s \in Sectors, ps \in SUBSET Parts, v \in Data : Write(d, s, ps, v)
    \/ \E d \in Drives, first, last \in Sectors : Read(d, first, last)
    \/ Other

Init == store \in [Drives -> [Sectors -> [Parts -> Data]]] /\ answer.kind = "done"

Spec == Init /\ [][Next]_vars
=============================================================================
