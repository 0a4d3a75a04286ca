--------------------------- MODULE ProcessMemory ---------------------------
(***************************************************************************)
(* Who owns the arena: the INT 21h memory calls (AH=48h, 49h, 4Ah, 58h),   *)
(* EXEC with its environment and program blocks and its rollbacks, program *)
(* termination (AH=4Ch) and termination with the program kept resident     *)
(* (AH=31h).                                                               *)
(*                                                                         *)
(* The kernel runs one program at a time and serves one INT 21h call at a  *)
(* time, so each call is one action; the failure points inside EXEC are    *)
(* alternatives of that action.                                            *)
(***************************************************************************)
EXTENDS McbArena, Sequences

CONSTANTS
    Requests,    \* sizes programs pass to AH=48h and AH=4Ah
    Images,      \* program files: [need, want] paragraphs, see ProgPar
    EnvSizes,    \* sizes EXEC computes for an environment block
    PSP_PARAS,   \* smallest part of a PSP block a resident program keeps
    KeepSizes,   \* sizes programs pass to AH=31h in DX
    MaxDepth     \* bound: programs running inside one another

ENV_OWNER_TEMP == 65535

ASSUME SizeAssumption ==
    /\ Requests \subseteq Nat
    /\ Images \subseteq [need : Nat \ {0}, want : Nat \ {0}]
    /\ EnvSizes \subseteq Nat \ {0}
    /\ PSP_PARAS \in Nat \ {0}
    /\ KeepSizes \subseteq Nat
    /\ MaxDepth \in Nat
    /\ ARENA_TOP < ENV_OWNER_TEMP

VARIABLES
    arena,        \* the MCB chain
    alloc_strat,  \* AH=58h strategy, global: no exit resets it
    cur_psp,      \* PSP segment of the current process, 0 for the kernel
    psp,          \* PSP segment -> the PSP and resume fields of each process
    frames,       \* cur_psp saved by each EXEC that waits for its child
    resident,     \* PSP segments of programs that went resident
    phase         \* "boot", "run" or "halt"

vars == <<arena, alloc_strat, cur_psp, psp, frames, resident, phase>>

(* parent is PSP:16h, env is PSP:2Ch, top is PSP:02h; frame is the EXEC    *)
(* whose stack do_terminate resumes (MCB_EXEC_SS:SP in the MCB header).    *)
PspFields == [parent : Nat, env : Nat, top : Nat, frame : Nat]

Init ==
    /\ arena = BootArena
    /\ alloc_strat = 0
    /\ cur_psp = 0
    /\ psp = [p \in {} |-> 0]
    /\ frames = <<>>
    /\ resident = {}
    /\ phase = "boot"

Running == phase = "run" /\ cur_psp \in DOMAIN psp

(* Blocks the running program may pass to AH=49h and AH=4Ah.  The kernel   *)
(* does not check ownership; programs that free or resize what others own  *)
(* are out of scope.                                                       *)
Own(a, p) == {s \in DOMAIN a : a[s].owner = p}

-----------------------------------------------------------------------------
(* Memory calls *)

AllocMem(n) ==
    /\ Running
    /\ CanAlloc(arena, alloc_strat, n)
    /\ arena' = Alloc(arena, alloc_strat, n, cur_psp)
    /\ UNCHANGED <<alloc_strat, cur_psp, psp, frames, resident, phase>>

(* A program does not free the block it runs in. *)
FreeMem(s) ==
    /\ Running
    /\ s # cur_psp - 1
    /\ arena' = Release(arena, s)
    /\ UNCHANGED <<alloc_strat, cur_psp, psp, frames, resident, phase>>

(* Mutant: PSP:02h is not updated. *)
ResizeMemStaleTop(s, n) ==
    /\ Running
    /\ n <= ResizeLimit(arena, s)
    /\ arena' = Resize(arena, s, n)
    /\ UNCHANGED <<alloc_strat, cur_psp, psp, frames, resident, phase>>

ResizeMem(s, n) ==
    /\ Running
    /\ n <= ResizeLimit(arena, s)
    /\ arena' = Resize(arena, s, n)
    /\ psp' = IF s + 1 = cur_psp
              THEN [psp EXCEPT ![cur_psp].top = s + 1 + arena'[s].size]
              ELSE psp
    /\ UNCHANGED <<alloc_strat, cur_psp, frames, resident, phase>>

SetStrategy(v) ==
    /\ Running
    /\ alloc_strat' = v
    /\ UNCHANGED <<arena, cur_psp, psp, frames, resident, phase>>

-----------------------------------------------------------------------------
(* EXEC: the environment block, then the program block, both first fit *)

WithEnv(a, env) == Alloc(a, 0, env, ENV_OWNER_TEMP)

(* An .EXE takes what its header wants, from its minimum up to the largest *)
(* free block; a .COM wants everything.  When even need does not fit, the  *)
(* allocation that follows fails.                                          *)
ProgPar(a, img) ==
    IF LargestFree(a) < img.need \/ img.want <= img.need
    THEN img.need
    ELSE Min({img.want, LargestFree(a)})

(* Mutant: the program block stays with the process that called EXEC. *)
WithProgramOfCaller(a, img) == Alloc(a, 0, ProgPar(a, img), cur_psp)

WithProgram(a, img) ==
    LET h == FirstFit(a, ProgPar(a, img))
    IN  Alloc(a, 0, ProgPar(a, img), h + 1)

(* Both blocks fit: eh and ph are their headers. *)
Fit(a, env, img) ==
    /\ CanAlloc(a, 0, env)
    /\ CanAlloc(WithEnv(a, env), 0, ProgPar(WithEnv(a, env), img))
EnvHead(a, env) == FirstFit(a, env)
ProgHead(a, env, img) == FirstFit(WithEnv(a, env), ProgPar(WithEnv(a, env), img))
Loaded(a, env, img) == WithProgram(WithEnv(a, env), img)

(* build_psp: the child becomes current and owns its environment. *)
BuildPsp(env, img, frame) ==
    LET eh == EnvHead(arena, env)
        ph == ProgHead(arena, env, img)
        child == ph + 1
    IN  /\ arena' = SetOwner(Loaded(arena, env, img), {eh}, child)
        /\ psp' = [p \in DOMAIN psp \cup {child} |->
                     IF p = child
                     THEN [parent |-> cur_psp, env |-> eh + 1,
                           top |-> child + arena'[ph].size, frame |-> frame]
                     ELSE psp[p]]
        /\ cur_psp' = child

(* The kernel starts the boot program. *)
Boot(img) ==
    /\ phase = "boot"
    /\ \E env \in EnvSizes :
         IF Fit(arena, env, img)
         THEN /\ BuildPsp(env, img, 1)
              /\ frames' = <<cur_psp>>
              /\ phase' = "run"
              /\ UNCHANGED <<alloc_strat, resident>>
         ELSE /\ phase' = "halt"
              /\ UNCHANGED <<arena, alloc_strat, cur_psp, psp, frames, resident>>

(* AX=4B00h, up to the child's first instruction. *)
Exec(env, img) ==
    /\ Running
    /\ Len(frames) < MaxDepth
    /\ Fit(arena, env, img)
    /\ BuildPsp(env, img, Len(frames) + 1)
    /\ frames' = Append(frames, cur_psp)
    /\ UNCHANGED <<alloc_strat, resident, phase>>

(* What a failed EXEC leaves of the arena: it failed before the program    *)
(* block existed (a bad header, no room), or after (a read error, a bad    *)
(* relocation or command tail) and frees the program, then the environment.*)
RolledBackKeepsEnv(a, env, img) ==  \* mutant: the environment is not freed
    {WithEnv(a, env)}
RolledBack(a, env, img) ==
    {Release(WithEnv(a, env), EnvHead(a, env))} \cup
    IF Fit(a, env, img)
    THEN {Release(Release(Loaded(a, env, img), ProgHead(a, env, img)),
                  EnvHead(a, env))}
    ELSE {}

ExecFails(env, img) ==
    /\ Running
    /\ CanAlloc(arena, 0, env)
    /\ arena' \in RolledBack(arena, env, img)
    /\ UNCHANGED <<alloc_strat, cur_psp, psp, frames, resident, phase>>

-----------------------------------------------------------------------------
(* Termination *)

(* The parent's EXEC resumes on its saved stack and restores the cur_psp   *)
(* it had saved; when the boot program ends, the kernel halts.             *)
ReturnToParentKeepsFrames ==  \* mutant: the finished EXEC is not popped
    LET f == psp[cur_psp].frame IN
    /\ cur_psp' = frames[f]
    /\ frames' = frames
    /\ psp' = [p \in DOMAIN psp \ {cur_psp} |-> psp[p]]
    /\ phase' = IF f = 1 THEN "halt" ELSE "run"

ReturnToParent ==
    LET f == psp[cur_psp].frame IN
    /\ cur_psp' = frames[f]
    /\ frames' = SubSeq(frames, 1, f - 1)
    /\ psp' = [p \in DOMAIN psp \ {cur_psp} |-> psp[p]]
    /\ phase' = IF f = 1 THEN "halt" ELSE "run"

Terminate ==
    /\ Running
    /\ arena' = CoalesceAllFree(
                  SetOwner(arena, Own(arena, cur_psp) \cap Walked(arena), FREE))
    /\ ReturnToParent
    /\ UNCHANGED <<alloc_strat, resident>>

(* Shrink the PSP block to keep paragraphs, keep it and the environment,   *)
(* and free every other block of the process.                              *)
ShrunkPsp(a, keep) ==
    LET h == cur_psp - 1
        n == Max({keep, PSP_PARAS})
    IN  IF h \in Own(a, cur_psp) /\ n < a[h].size /\ Splittable(a, h, n)
        THEN MergeFreeForward(SplitLow(a, h, n), h + 1 + n)
        ELSE a

TerminateTsr(keep) ==
    LET a == ShrunkPsp(arena, keep) IN
    /\ Running
    /\ arena' = Sweep(a, Own(a, cur_psp) \ {cur_psp - 1, psp[cur_psp].env - 1})
    /\ resident' = resident \cup {cur_psp}
    /\ ReturnToParent
    /\ UNCHANGED alloc_strat

Next ==
    \/ \E img \in Images : Boot(img)
    \/ \E n \in Requests : AllocMem(n)
    \/ \E s \in Own(arena, cur_psp) : FreeMem(s)
    \/ \E s \in Own(arena, cur_psp), n \in Requests : ResizeMem(s, n)
    \/ \E v \in 0 .. 2 : SetStrategy(v)
    \/ \E env \in EnvSizes, img \in Images : Exec(env, img) \/ ExecFails(env, img)
    \/ Terminate
    \/ \E keep \in KeepSizes : TerminateTsr(keep)

Spec == Init /\ [][Next]_vars

-----------------------------------------------------------------------------
(* Properties *)

(* Every variable has its type. *)
TypeOK ==
    /\ IsArena(arena)
    /\ alloc_strat \in 0 .. 2
    /\ cur_psp \in Nat
    /\ psp \in [DOMAIN psp -> PspFields]
    /\ DOMAIN psp \subseteq Nat
    /\ frames \in Seq(Nat)
    /\ resident \subseteq Nat
    /\ phase \in {"boot", "run", "halt", "stray"}

(* No sequence of splits, merges, resizes, rollbacks and exits loses a     *)
(* paragraph, overlaps two blocks or misplaces the 'Z' signature.          *)
ChainTiles == Tiles(arena)

(* Every process still holds the block its PSP lies in, and PSP:02h, which *)
(* programs read as the end of their memory, agrees with the block's size  *)
(* after every resize.                                                     *)
ProcessesHoldTheirBlocks ==
    \A p \in DOMAIN psp :
        /\ p - 1 \in DOMAIN arena
        /\ arena[p - 1].owner = p
        /\ psp[p].top = p + arena[p - 1].size

(* EXECs nest: the program that runs resumes the innermost waiting EXEC    *)
(* when it ends, and each waiting program the one below its own.           *)
ExecsNest ==
    phase = "run" =>
        /\ cur_psp \in DOMAIN psp
        /\ Len(frames) >= 1
        /\ psp[cur_psp].frame = Len(frames)
        /\ \A i \in 2 .. Len(frames) :
              frames[i] \in DOMAIN psp /\ psp[frames[i]].frame = i - 1

(* Nothing outlives its owner: a block that is not free belongs to a       *)
(* process that has not ended or to a resident program, never to a dead    *)
(* PSP or to EXEC's temporary environment owner.                           *)
OwnersAlive ==
    \A s \in DOMAIN arena : arena[s].owner \in {FREE} \cup DOMAIN psp \cup resident

(* A resident program's PSP block stays its own whatever runs later. *)
ResidentsStay ==
    \A p \in resident : p - 1 \in DOMAIN arena /\ arena[p - 1].owner = p

(* A failed AH=48h reports the largest free block, and asking again for    *)
(* that size is granted under every strategy.                              *)
LargestIsGrantable ==
    LargestFree(arena) > 0 =>
        \A strat \in 0 .. 2 : CanAlloc(arena, strat, LargestFree(arena))

(* No call changes the owner or size of a block that belongs to another    *)
(* process: allocation, resize and exit rewrite headers all along the      *)
(* chain but only those of free blocks and of the current process.         *)
OthersKept ==
    \A s \in DOMAIN arena :
        arena[s].owner \notin {FREE, cur_psp} =>
            /\ s \in DOMAIN arena'
            /\ arena'[s].owner = arena[s].owner
            /\ arena'[s].size = arena[s].size
OthersUntouched == [][OthersKept]_vars

NoAdjacentFree(a) ==
    \A s \in DOMAIN a :
        ~(IsFree(a, s) /\ Following(a, s) \in DOMAIN a /\ IsFree(a, Following(a, s)))

(* do_terminate leaves no two free blocks side by side, so the next        *)
(* program finds the largest block there is.                               *)
ExitCoalesces == [][Terminate => NoAdjacentFree(arena')]_vars

(* A failed EXEC gives back both blocks: what programs hold is what they   *)
(* held, and the largest free block has not shrunk.                        *)
Held(a) == {<<s, a[s].owner, a[s].size>> : s \in {t \in DOMAIN a : ~IsFree(a, t)}}
FailedExecRestores ==
    [][(\E env \in EnvSizes, img \in Images : ExecFails(env, img)) =>
          /\ Held(arena') = Held(arena)
          /\ LargestFree(arena') >= LargestFree(arena)]_vars
=============================================================================
