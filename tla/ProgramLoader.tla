--------------------------- MODULE ProgramLoader ---------------------------
(***************************************************************************)
(* ProcessMemory with the load-only EXEC (AX=4B01h) that debuggers use: it *)
(* builds the child and makes it current, but the loader keeps running and *)
(* switches between the two processes with AH=50h.                         *)
(***************************************************************************)
EXTENDS ProcessMemory

(* The child inherits the suspended EXEC its loader would resume           *)
(* (inherit_exec_resume_state).                                            *)
ExecLoad(env, img) ==
    /\ Running
    /\ Fit(arena, env, img)
    /\ BuildPsp(env, img, psp[cur_psp].frame)
    /\ UNCHANGED <<alloc_strat, frames, resident, phase>>

(* A load that fails after build_psp (a bad command tail or relocation)    *)
(* frees both blocks; this path has no saved cur_psp to restore, so the    *)
(* loader goes on under a dead PSP, which is no process: the model stops   *)
(* there ("stray").                                                        *)
ExecLoadFails(env, img) ==
    /\ Running
    /\ Fit(arena, env, img)
    /\ LET ph == ProgHead(arena, env, img) IN
       /\ arena' = Release(Release(Loaded(arena, env, img), ph),
                           EnvHead(arena, env))
       /\ cur_psp' = ph + 1
    /\ phase' = "stray"
    /\ UNCHANGED <<alloc_strat, psp, frames, resident>>

(* AH=50h between a loader and the program it loaded. *)
SetPsp(p) ==
    /\ Running
    /\ psp[p].frame = psp[cur_psp].frame
    /\ psp[cur_psp].parent = p \/ psp[p].parent = cur_psp
    /\ cur_psp' = p
    /\ UNCHANGED <<arena, alloc_strat, psp, frames, resident, phase>>

LoaderNext ==
    \/ Next
    \/ \E env \in EnvSizes, img \in Images : ExecLoad(env, img) \/ ExecLoadFails(env, img)
    \/ \E p \in DOMAIN psp : SetPsp(p)

LoaderSpec == Init /\ [][LoaderNext]_vars

=============================================================================
