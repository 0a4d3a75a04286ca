----------------------------- MODULE OpenFiles -----------------------------
(***************************************************************************)
(* What DOS handles promise programs: each process has its own table of    *)
(* handles, a child starts with a copy of its parent's, duplicates share   *)
(* one open file, and a file whose last handle goes is saved.              *)
(*                                                                         *)
(* The kernel has no such tables: HandleTable implements them with one     *)
(* global table of slots, aliases and reference counts.                    *)
(***************************************************************************)
EXTENDS Naturals, Sequences

CONSTANTS
    Handles,     \* handle numbers
    Files,       \* open files: a directory entry, a position and a mode each
    CON,         \* the console, which is never saved
    NONE         \* no handle

VARIABLES
    fds,         \* handle tables of the processes, the running one last
    unsaved      \* files written since their directory entry was

vars == <<fds, unsaved>>

cur == Len(fds)
Held(tables) == {tables[p][h] : p \in DOMAIN tables, h \in Handles} \ {NONE}

(* Whatever loses its last handle is saved. *)
Install(tables) ==
    /\ fds' = tables
    /\ unsaved' = unsaved \cap Held(tables)

Set(h, f) == Install([fds EXCEPT ![cur] = [@ EXCEPT ![h] = f]])

Open == \E h \in Handles, f \in (Files \ Held(fds)) \cup {CON} :
            fds[cur][h] = NONE /\ Set(h, f)
Dup == \E b, h \in Handles :
            fds[cur][b] # NONE /\ fds[cur][h] = NONE /\ Set(h, fds[cur][b])
ForceDup == \E b, h \in Handles : fds[cur][b] # NONE /\ Set(h, fds[cur][b])
Close == \E h \in Handles : fds[cur][h] # NONE /\ Set(h, NONE)
Exec == Install(Append(fds, fds[cur]))
Exit == Install(SubSeq(fds, 1, cur - 1))
Write == \E h \in Handles :
    /\ fds[cur][h] \in Files
    /\ unsaved' = unsaved \cup {fds[cur][h]}
    /\ UNCHANGED fds
Commit == \E h \in Handles :
    /\ unsaved' = unsaved \ {fds[cur][h]}
    /\ UNCHANGED fds

Init ==
    /\ \E std \in SUBSET Handles :
          fds = <<[h \in Handles |-> IF h \in std THEN CON ELSE NONE]>>
    /\ unsaved = {}

Next ==
    /\ fds # <<>>
    /\ Open \/ Dup \/ ForceDup \/ Close \/ Exec \/ Exit \/ Write \/ Commit

Spec == Init /\ [][Next]_vars
=============================================================================
