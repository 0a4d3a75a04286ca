-------------------------- MODULE MCProgramLoader --------------------------
(* Values for model-checking ProgramLoader: an arena of a dozen paragraphs *)
(* with one-paragraph environments.                                        *)
EXTENDS ProgramLoader

(* A .COM (wants everything), an .EXE without MAXALLOC and one with. *)
MCImages == {[need |-> 2, want |-> 100], [need |-> 2, want |-> 2],
             [need |-> 3, want |-> 5]}
=============================================================================
