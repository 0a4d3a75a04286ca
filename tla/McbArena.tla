------------------------------ MODULE McbArena ------------------------------
(***************************************************************************)
(* The DOS conventional-memory arena: a chain of memory control blocks     *)
(* (MCBs) and the operations the kernel performs on it                     *)
(* (src/src/kernel/memory_mcb.inc).                                        *)
(*                                                                         *)
(* An arena is a function from the segments that hold a live MCB header to *)
(* [sig, owner, size]: the signature 'M' or 'Z', the owner's PSP segment   *)
(* (0 for a free block) and the size in paragraphs.  The header occupies   *)
(* one paragraph, so the block at s is followed by the header at           *)
(* s + 1 + size.  The bytes of an absorbed header that linger inside a     *)
(* larger block are not represented: no operation below reads them.        *)
(***************************************************************************)
EXTENDS Integers, FiniteSetsExt

CONSTANTS
    MCB_START,   \* segment of the first header (mcb_first)
    ARENA_TOP    \* first segment past the arena: min(INT 12h line, MEM_TOP)

ASSUME ArenaAssumption ==
    /\ MCB_START \in Nat
    /\ ARENA_TOP \in Nat
    /\ MCB_START + 1 < ARENA_TOP

FREE == 0

Header == [sig : {"M", "Z"}, owner : Nat, size : Nat]

(* Partial functions from segments of the arena to headers. *)
IsArena(a) ==
    /\ DOMAIN a \subseteq MCB_START .. (ARENA_TOP - 1)
    /\ a \in [DOMAIN a -> Header]

(* The single free 'Z' block the kernel writes at boot. *)
BootArena ==
    [s \in {MCB_START} |->
        [sig |-> "Z", owner |-> FREE, size |-> ARENA_TOP - MCB_START - 1]]

IsFree(a, s) == a[s].owner = FREE
Following(a, s) == s + 1 + a[s].size

-----------------------------------------------------------------------------
(* Walking the chain *)

(* The headers MCB_WALK_EACH reaches: it stops at a 'Z' signature and, by  *)
(* mcb_walk_next, at a header whose size is zero.                          *)
Walked(a) ==
    {s \in DOMAIN a : \A t \in DOMAIN a : t < s => a[t].sig = "M" /\ a[t].size > 0}

(* The walk ended at a 'Z' header and not on a walk failure. *)
WalkEndsAtZ(a) == \E s \in Walked(a) : a[s].sig = "Z"

(* Mutant: the comparison with the request excludes an exact fit. *)
FitsStrictly(a, n) == {s \in Walked(a) : IsFree(a, s) /\ a[s].size > n}

Fits(a, n) == {s \in Walked(a) : IsFree(a, s) /\ a[s].size >= n}

(* find_largest_free_block *)
LargestFree(a) == Max({0} \cup {a[s].size : s \in {t \in Walked(a) : IsFree(a, t)}})

-----------------------------------------------------------------------------
(* Rewriting the chain *)

SetOwner(a, S, o) ==
    [s \in DOMAIN a |-> IF s \in S THEN [a[s] EXCEPT !.owner = o] ELSE a[s]]

(* Mutant: the new header is not deducted from the remainder. *)
CarveNoHeader(a, s, n) ==
    LET h == s + 1 + n IN
    [t \in DOMAIN a \cup {h} |->
        CASE t = s -> [sig |-> "M", owner |-> a[s].owner, size |-> n]
          [] t = h -> [sig |-> a[s].sig, owner |-> FREE, size |-> a[s].size - n]
          [] OTHER -> a[t]]

(* The block at s keeps n paragraphs; a free header above takes the rest   *)
(* and inherits the signature.                                             *)
Carve(a, s, n) ==
    LET h == s + 1 + n IN
    [t \in DOMAIN a \cup {h} |->
        CASE t = s -> [sig |-> "M", owner |-> a[s].owner, size |-> n]
          [] t = h -> [sig |-> a[s].sig, owner |-> FREE, size |-> a[s].size - n - 1]
          [] OTHER -> a[t]]

(* mcb_split_low and mcb_split_high: a remainder of fewer than two         *)
(* paragraphs cannot hold a header and a paragraph, so it stays attached.  *)
Splittable(a, s, n) == a[s].size - n >= 2
SplitLow(a, s, n) == IF Splittable(a, s, n) THEN Carve(a, s, n) ELSE a
SplitHigh(a, s, n) ==
    IF Splittable(a, s, n) THEN Carve(a, s, a[s].size - n - 1) ELSE a
HighHead(a, s, n) == IF Splittable(a, s, n) THEN s + a[s].size - n ELSE s

(* The headers in gone disappear; each remaining block grows over the ones *)
(* of gone that follow it without a gap, and takes the last one's          *)
(* signature.                                                              *)
Run(a, gone, s) ==
    {t \in DOMAIN a : s <= t /\ \A u \in DOMAIN a : s < u /\ u <= t => u \in gone}

Absorb(a, gone) ==
    [s \in DOMAIN a \ gone |->
        LET last == Max(Run(a, gone, s)) IN
        [sig |-> a[last].sig, owner |-> a[s].owner, size |-> Following(a, last) - s - 1]]

(* mcb_merge_free_forward: the free headers that follow s back to back. *)
FreeRunAfterAny(a, s) == \* mutant: merges the next block whoever owns it
    {t \in DOMAIN a : t = Following(a, s)}
FreeRunAfter(a, s) ==
    {t \in DOMAIN a : s < t /\ \A u \in DOMAIN a : s < u /\ u <= t => IsFree(a, u)}
MergeFreeForward(a, s) == Absorb(a, FreeRunAfter(a, s))

(* Free one block and merge it with what follows (AH=49h, free_prog_mcb,   *)
(* free_exec_environment).                                                 *)
ReleaseNoMerge(a, s) == SetOwner(a, {s}, FREE)  \* mutant: no forward merge
Release(a, s) == MergeFreeForward(SetOwner(a, {s}, FREE), s)

(***************************************************************************)
(* One pass over the chain that frees the headers of freed as it meets     *)
(* them and merges every free block it stands on with the free blocks      *)
(* after it.  A successor in freed is still owned when its predecessor is  *)
(* merged, so only headers that were free before the pass are absorbed.    *)
(* The pass, too, stops at a block whose size is zero after merging.       *)
(***************************************************************************)
Sweep(a, freed) ==
    LET Follows(t)  == \E s \in DOMAIN a : /\ Following(a, s) = t
                                           /\ IsFree(a, s) \/ s \in freed
        Merged(t)   == t \in DOMAIN a /\ IsFree(a, t) /\ Follows(t)
        Stops(u)    == ~Merged(u) /\ a[u].size = 0 /\ ~Merged(Following(a, u))
        Reached(s)  == \A u \in DOMAIN a : u < s => ~Stops(u)
    IN  Absorb(SetOwner(a, {s \in freed : Reached(s)}, FREE),
               {t \in DOMAIN a : Merged(t) /\ Reached(t)})

(* mcb_coalesce_all_free *)
CoalesceNothing(a) == a  \* mutant: exit without the coalescing pass
CoalesceAllFree(a) == Sweep(a, {})

-----------------------------------------------------------------------------
(* Allocation by the three strategies of AH=58h *)

FirstFit(a, n) == Min(Fits(a, n))
BestFit(a, n) ==
    LET least == Min({a[s].size : s \in Fits(a, n)})
    IN  Min({s \in Fits(a, n) : a[s].size = least})
LastFit(a, n) == Max(Fits(a, n))

(* alloc_mem_direct takes the first fit on the way; the best-fit and       *)
(* last-fit scans choose only when the walk ends at the 'Z' block.         *)
CanAlloc(a, strat, n) == Fits(a, n) # {} /\ (strat = 0 \/ WalkEndsAtZ(a))

(* The header of the block AH=48h would grant. *)
GrantedHead(a, strat, n) ==
    CASE strat = 0 -> FirstFit(a, n)
      [] strat = 1 -> BestFit(a, n)
      [] strat = 2 -> HighHead(a, LastFit(a, n), n)

Alloc(a, strat, n, o) ==
    LET split == CASE strat = 0 -> SplitLow(a, FirstFit(a, n), n)
                   [] strat = 1 -> SplitLow(a, BestFit(a, n), n)
                   [] strat = 2 -> SplitHigh(a, LastFit(a, n), n)
    IN  SetOwner(split, {GrantedHead(a, strat, n)}, o)

-----------------------------------------------------------------------------
(* AH=4Ah *)

(* The room the block at s can reach: itself and the one free block that   *)
(* follows it.  A failing resize returns it in BX.                         *)
ResizeLimit(a, s) ==
    LET next == Following(a, s) IN
    IF next \in DOMAIN a /\ IsFree(a, next)
    THEN a[s].size + 1 + a[next].size
    ELSE a[s].size

Resize(a, s, n) ==
    IF n <= a[s].size
    THEN IF Splittable(a, s, n)
         THEN MergeFreeForward(SplitLow(a, s, n), s + 1 + n)
         ELSE a
    ELSE SplitLow(Absorb(a, {Following(a, s)}), s, n)

-----------------------------------------------------------------------------
(* What a sound chain is *)

(***************************************************************************)
(* The blocks tile the arena: the first header is at MCB_START, each block *)
(* ends where the next header is or at the top of the arena, no header     *)
(* lies inside a block, and exactly the block that ends at the top is 'Z'. *)
(***************************************************************************)
Tiles(a) ==
    /\ MCB_START \in DOMAIN a
    /\ \A s \in DOMAIN a :
          /\ Following(a, s) \in DOMAIN a \cup {ARENA_TOP}
          /\ a[s].sig = "Z" <=> Following(a, s) = ARENA_TOP
          /\ \A t \in DOMAIN a : ~(s < t /\ t < Following(a, s))
=============================================================================
