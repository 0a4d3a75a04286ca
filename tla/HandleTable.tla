---------------------------- MODULE HandleTable ----------------------------
(***************************************************************************)
(* File handles: the global table of slots with aliases and reference      *)
(* counts (src/src/kernel/path_dir.inc), the handle calls AH=3Dh, 3Eh,     *)
(* 45h, 46h, 40h and 68h, and what EXEC and exit do to the table.          *)
(*                                                                         *)
(* A handle number is a slot number in every process.  A slot is a root,   *)
(* which holds an open file, or an alias of a root.  The PSP's job file    *)
(* table only records which handles the process believes open.             *)
(***************************************************************************)
EXTENDS Integers, SequencesExt

CONSTANTS
    MAX_HANDLES,         \* number of slots
    N_STD,               \* slots below are the standard handles
    Files, CON, NONE,    \* as in OpenFiles; NONE also for "not an alias"
    MaxDepth,            \* bound: programs running inside one another
    FlushFails           \* saving a file may fail with a disk error

ASSUME HandleAssumption ==
    /\ MAX_HANDLES \in Nat \ {0}
    /\ N_STD \in 0 .. MAX_HANDLES
    /\ MaxDepth \in Nat
    /\ CON \notin Files /\ NONE \notin Files \cup {CON}
    /\ NONE \notin Nat
    /\ FlushFails \in BOOLEAN

Handles == 0 .. (MAX_HANDLES - 1)

VARIABLES
    tab,        \* the slots
    jft,        \* handles each process believes open, the running one last
    unsaved     \* files whose directory entry in memory is newer than on disk

vars == <<tab, jft, unsaved>>

cur == Len(jft)

(* used: 0 free, 1 in use, 2 a root whose own handle is closed while others*)
(* still refer to it.                                                      *)
Slot == [used : 0 .. 2, alias : Handles \cup {NONE}, refs : Nat,
         owner : Nat, file : Files \cup {CON, NONE}]

FreeSlot == [used |-> 0, alias |-> NONE, refs |-> 0, owner |-> 0, file |-> NONE]
RootSlot(f) == [used |-> 1, alias |-> NONE, refs |-> 1, owner |-> cur, file |-> f]
AliasSlot(r) == [used |-> 1, alias |-> r, refs |-> 0, owner |-> cur, file |-> NONE]

Init ==
    /\ tab = [h \in Handles |-> FreeSlot]
    /\ jft = <<0 .. (N_STD - 1)>>
    /\ unsaved = {}

-----------------------------------------------------------------------------
(* Operations on the table *)

IsAlias(t, h) == t[h].alias # NONE
Root(t, h) == IF IsAlias(t, h) THEN t[h].alias ELSE h

(* resolve_handle_for_use *)
Usable(t, h) ==
    /\ t[h].used = 1
    /\ IsAlias(t, h) => t[t[h].alias].used # 0 /\ ~IsAlias(t, t[h].alias)

(* A standard handle nobody redirected: the console, without a slot. *)
ImplicitStd(t, h) == h < N_STD /\ t[h].used = 0

FreeSlots(t) == {h \in Handles : h >= N_STD /\ t[h].used = 0}
RootFiles(t) == {t[h].file : h \in {r \in Handles : t[r].used # 0}} \ {NONE}

MakeAlias(t, h, r) == [t EXCEPT ![r].refs = @ + 1, ![h] = AliasSlot(r)]

(* Closing h takes the last reference of its root. *)
LastReference(t, h) ==
    IF IsAlias(t, h)
    THEN t[t[h].alias].used # 0 /\ t[t[h].alias].refs = 1
    ELSE t[h].refs <= 1

(* The files in failing cannot be saved; their roots stay as they are. *)
CloseRoot(t, r, failing) == IF t[r].file \in failing THEN t ELSE [t EXCEPT ![r] = FreeSlot]

(* The reference count is a 16-bit word. *)
Dec(n) == (n + 65535) % 65536

CloseTableKeepsRef(t, h, failing) ==  \* mutant: an alias keeps its reference
    IF IsAlias(t, h)
    THEN [t EXCEPT ![h] = FreeSlot]
    ELSE IF LastReference(t, h)
         THEN CloseRoot(t, h, failing)
         ELSE [t EXCEPT ![h].used = 2, ![h].refs = @ - 1]

CloseTable(t, h, failing) ==
    IF IsAlias(t, h)
    THEN LET r == t[h].alias
             u == [t EXCEPT ![h] = FreeSlot, ![r].refs = IF t[r].used = 0 THEN @ ELSE Dec(@)]
         IN  IF LastReference(t, h) THEN CloseRoot(u, r, failing) ELSE u
    ELSE IF LastReference(t, h)
         THEN CloseRoot(t, h, failing)
         ELSE [t EXCEPT ![h].used = 2, ![h].refs = @ - 1]

CloseFails(t, h, failing) == LastReference(t, h) /\ t[Root(t, h)].file \in failing

(* The lowest alias of root c takes its place, with refs references. *)
Aliases(t, c) == {h \in Handles : t[h].used = 1 /\ t[h].alias = c}
PromoteKeepsAliases(t, c, refs) ==  \* mutant: other aliases name the old root
    LET n == Min(Aliases(t, c)) IN
    [t EXCEPT ![c] = FreeSlot,
              ![n] = [@ EXCEPT !.alias = NONE, !.refs = refs, !.file = t[c].file]]

Promote(t, c, refs) ==
    LET n == Min(Aliases(t, c)) IN
    [h \in Handles |->
        CASE h = c -> FreeSlot
          [] h = n -> [t[n] EXCEPT !.alias = NONE, !.refs = refs, !.file = t[c].file]
          [] h \in Aliases(t, c) \ {n} -> [t[h] EXCEPT !.alias = n]
          [] OTHER -> t[h]]

(* close_handle_for_replace: what AH=46h does to its destination first. *)
OthersShare(t, c) ==
    \/ t[c].used = 1 /\ ~IsAlias(t, c) /\ t[c].refs > 1
    \/ t[c].used = 2 /\ t[c].refs # 0
OtherReferences(t, c) == IF t[c].used = 1 THEN t[c].refs - 1 ELSE t[c].refs

ReplaceFails(t, c, failing) ==
    \/ OthersShare(t, c) /\ Aliases(t, c) = {}
    \/ t[c].used = 1 /\ ~OthersShare(t, c) /\ CloseFails(t, c, failing)
Replaced(t, c, failing) ==
    CASE t[c].used = 0 -> t
      [] OthersShare(t, c) /\ Aliases(t, c) # {} -> Promote(t, c, OtherReferences(t, c))
      [] OthersShare(t, c) /\ Aliases(t, c) = {} -> t
      [] t[c].used = 1 /\ ~OthersShare(t, c) -> CloseTable(t, c, failing)
      [] t[c].used = 2 /\ ~OthersShare(t, c) -> [t EXCEPT ![c] = FreeSlot]

(* References a process holds through the entries J of its JFT to slots of *)
(* other owners p, by root.                                                *)
Referring(t, J, r) ==
    {h \in J : t[h].used = 1 /\ Root(t, h) = r /\ t[r].used # 0}

Inherit(t, J) ==
    [r \in Handles |-> [t[r] EXCEPT !.refs = @ + Cardinality(Referring(t, J, r))]]

ReleaseInheritedOwnToo(t, J, p) ==  \* mutant: owned handles are released too
    [r \in Handles |->
        [t[r] EXCEPT !.refs = Max({0, @ - Cardinality(Referring(t, J, r))})]]

ReleaseInherited(t, J, p) ==
    LET foreign == {h \in J : t[h].owner # p} IN
    [r \in Handles |->
        [t[r] EXCEPT !.refs = Max({0, @ - Cardinality(Referring(t, foreign, r))})]]

(* close_owned_handles, in slot order, going on after a failure. *)
CloseIfOwned(t, h, p, failing) ==
    IF t[h].used = 1 /\ t[h].owner = p THEN CloseTable(t, h, failing) ELSE t

CloseOwned(t, p, failing) ==
    LET closed[n \in 0 .. MAX_HANDLES] ==
            IF n = 0 THEN t ELSE CloseIfOwned(closed[n - 1], n - 1, p, failing)
    IN  closed[MAX_HANDLES]

-----------------------------------------------------------------------------
(* The calls *)

(* Environment: programs use the handles they have open, and duplicate     *)
(* onto a slot of their own or a free one, never onto an ancestor's.       *)
MayUse(h) == h \in jft[cur]
MayReplace(h) == tab[h].used = 0 \/ tab[h].owner = cur

Failing == IF FlushFails THEN SUBSET Files ELSE {{}}

MarkOpen(h) == jft' = [jft EXCEPT ![cur] = @ \cup {h}]
MarkClosed(h) == jft' = [jft EXCEPT ![cur] = @ \ {h}]

(* Closing a root saves its file. *)
Saved(t, u) == unsaved' = unsaved \ (RootFiles(t) \ RootFiles(u))

(* AH=3Ch, 3Dh, 5Ah, 5Bh and device opens: a fresh open file in the lowest *)
(* free slot above the standard handles.                                   *)
Open(f) ==
    /\ FreeSlots(tab) # {}
    /\ LET h == Min(FreeSlots(tab)) IN
       /\ tab' = [tab EXCEPT ![h] = RootSlot(f)]
       /\ MarkOpen(h)
    /\ UNCHANGED unsaved

(* AH=45h *)
Dup(b) ==
    /\ MayUse(b)
    /\ FreeSlots(tab) # {}
    /\ ImplicitStd(tab, b) \/ Usable(tab, b)
    /\ LET h == Min(FreeSlots(tab)) IN
       /\ tab' = IF ImplicitStd(tab, b)
                 THEN [tab EXCEPT ![h] = RootSlot(CON)]
                 ELSE MakeAlias(tab, h, Root(tab, b))
       /\ MarkOpen(h)
    /\ UNCHANGED unsaved

(* AH=46h onto the root itself: its own handle is revived if closed. *)
ForceDupOntoRoot(b, c) ==
    /\ Usable(tab, b) /\ Root(tab, b) = c
    /\ tab' = IF tab[c].used = 2
              THEN [tab EXCEPT ![c].used = 1, ![c].refs = @ + 1]
              ELSE tab
    /\ MarkOpen(c)
    /\ UNCHANGED unsaved

ForceDupOntoOther(b, c, failing) ==
    /\ ImplicitStd(tab, b) \/ (Usable(tab, b) /\ Root(tab, b) # c)
    /\ LET t == Replaced(tab, c, failing) IN
       IF ReplaceFails(tab, c, failing)
       THEN /\ tab' = t
            /\ UNCHANGED <<jft, unsaved>>
       ELSE /\ tab' = IF ImplicitStd(tab, b)
                      THEN [t EXCEPT ![c] = RootSlot(CON)]
                      ELSE MakeAlias(t, c, Root(tab, b))
            /\ MarkOpen(c)
            /\ IF tab[c].used = 2 THEN UNCHANGED unsaved ELSE Saved(tab, t)

(* AH=46h *)
ForceDup(b, c) ==
    /\ b # c
    /\ MayUse(b)
    /\ MayReplace(c)
    /\ \/ ForceDupOntoRoot(b, c)
       \/ \E failing \in Failing : ForceDupOntoOther(b, c, failing)

(* A handle of another process is only given up. *)
IsInherited(b) == b \in jft[cur] /\ tab[b].used = 1 /\ tab[b].owner # cur

CloseInherited(b) ==
    /\ IsInherited(b)
    /\ tab' = ReleaseInherited(tab, {b}, cur)
    /\ MarkClosed(b)
    /\ UNCHANGED unsaved

CloseOwn(b) ==
    /\ tab[b].used = 1 /\ ~IsInherited(b)
    /\ \E failing \in Failing :
          /\ tab' = CloseTable(tab, b, failing)
          /\ Saved(tab, tab')
          /\ IF CloseFails(tab, b, failing) THEN UNCHANGED jft ELSE MarkClosed(b)

(* AH=3Eh *)
Close(b) ==
    /\ MayUse(b)
    /\ \/ ImplicitStd(tab, b) /\ MarkClosed(b) /\ UNCHANGED <<tab, unsaved>>
       \/ CloseInherited(b)
       \/ CloseOwn(b)

(* AH=40h: the directory entry is saved later. *)
Write(b) ==
    /\ MayUse(b) /\ Usable(tab, b)
    /\ tab[Root(tab, b)].file \in Files
    /\ unsaved' = unsaved \cup {tab[Root(tab, b)].file}
    /\ UNCHANGED <<tab, jft>>

(* AH=68h *)
Commit(b) ==
    /\ MayUse(b) /\ Usable(tab, b)
    /\ unsaved' = unsaved \ {tab[Root(tab, b)].file}
    /\ UNCHANGED <<tab, jft>>

-----------------------------------------------------------------------------
(* Processes *)

ExecSharesNothing ==  \* mutant: the references of the child are not counted
    /\ cur < MaxDepth
    /\ jft' = Append(jft, jft[cur])
    /\ UNCHANGED <<tab, unsaved>>

(* build_psp copies the JFT and counts its entries. *)
Exec ==
    /\ cur < MaxDepth
    /\ tab' = Inherit(tab, jft[cur])
    /\ jft' = Append(jft, jft[cur])
    /\ UNCHANGED unsaved

(* An EXEC that fails after build_psp gives the references back. *)
ExecFails ==
    /\ tab' = ReleaseInherited(Inherit(tab, jft[cur]), jft[cur], cur + 1)
    /\ UNCHANGED <<jft, unsaved>>

(* do_terminate and do_terminate_tsr. *)
Exit ==
    /\ \E failing \in Failing :
          tab' = CloseOwned(ReleaseInherited(tab, jft[cur], cur), cur, failing)
    /\ jft' = SubSeq(jft, 1, cur - 1)
    /\ Saved(tab, tab')

Next ==
    /\ jft # <<>>
    /\ \/ \E f \in (Files \ RootFiles(tab)) \cup {CON} : Open(f)
       \/ \E b \in Handles : Dup(b) \/ Close(b) \/ Write(b) \/ Commit(b)
       \/ \E b, c \in Handles : ForceDup(b, c)
       \/ Exec \/ ExecFails \/ Exit

Spec == Init /\ [][Next]_vars

-----------------------------------------------------------------------------
(* Properties *)

TypeOK ==
    /\ tab \in [Handles -> Slot]
    /\ jft \in Seq(SUBSET Handles)
    /\ unsaved \subseteq Files

(* What handle h is to process p. *)
View(p, h) ==
    IF h \notin jft[p] THEN NONE
    ELSE IF h < N_STD /\ (tab[h].used = 0 \/ tab[h].owner > p) THEN CON
    ELSE tab[Root(tab, h)].file

(* A root's count is exact: its own handle, its aliases and the entries of *)
(* processes that inherited one of these.  A count too low closes the file *)
(* under a process that still has it, one too high never closes it.        *)
References(r) ==
    (IF tab[r].used = 1 THEN 1 ELSE 0)
    + Cardinality(Aliases(tab, r))
    + Cardinality({ph \in (2 .. cur) \X Handles :
                     /\ ph[2] \in jft[ph[1]] /\ tab[ph[2]].used = 1
                     /\ tab[ph[2]].owner < ph[1] /\ Root(tab, ph[2]) = r})
RefsExact ==
    \A r \in Handles :
        tab[r].used # 0 =>
            IF IsAlias(tab, r)
            THEN /\ tab[r].refs = 0
                 /\ Usable(tab, r)
            ELSE tab[r].refs = References(r) /\ tab[r].refs > 0

(* No slot outlives the processes that can close it, so neither slots nor  *)
(* unsaved files are ever lost.                                            *)
NoLeaks ==
    /\ \A h \in Handles : tab[h].used = 1 => tab[h].owner \in 1 .. cur /\ h \in jft[tab[h].owner]
    /\ \A f \in unsaved : \E p \in 1 .. cur, h \in Handles : View(p, h) = f

(* The slots implement per-process handle tables.  In particular a handle  *)
(* of a waiting process stays what it was: docs/debug_log.md:1193, AH=3Eh  *)
(* "treats a close of a parent-owned inherited handle as local to the      *)
(* child PSP so the parent handle stays usable".                           *)
ProcessHandles == [p \in 1 .. cur |-> [h \in Handles |-> View(p, h)]]
OF == INSTANCE OpenFiles WITH fds <- ProcessHandles

ImplementsOpenFiles == OF!Spec
=============================================================================
