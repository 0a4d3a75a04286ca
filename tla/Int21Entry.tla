---------------------------- MODULE Int21Entry -----------------------------
(***************************************************************************)
(* Entry to and return from INT 21h: the InDOS flag, the kernel's stack,   *)
(* and everything that runs on top of a call or in the middle of one: the  *)
(* programs EXEC starts, a program's INT 23h and INT 24h handlers, the     *)
(* timer handler of a resident program that polls InDOS, and the mouse     *)
(* callback.                                                               *)
(*                                                                         *)
(* acts is what the processor is in the middle of, innermost last:         *)
(*   program    a program's own code                                       *)
(*   call       an INT 21h call                                            *)
(*   exec       a call that waits for the program it has started           *)
(*   launch     the start of a program, from the decrement of InDOS to the *)
(*              lowering of kstack_base                                    *)
(*   exit       do_terminate                                               *)
(*   resume     the end of an EXEC, from the switch back to its frame      *)
(*   handler    a program's INT 23h or INT 24h handler                     *)
(*   isr        a resident program's handler of a hardware interrupt       *)
(*   callback   the mouse callback                                         *)
(* The kernel's stack is a number of levels, one for each EXEC that waits, *)
(* and level is where a call has switched to, or NoLevel when it stayed on *)
(* the stack it was made on.  A call uses its level and all the deeper     *)
(* ones.  What the frames hold is left out: how many levels there are, and *)
(* whether two contexts use the same, is all that matters here.            *)
(***************************************************************************)
EXTENDS Naturals, Sequences, SequencesExt, FiniteSets

CONSTANTS
    MaxPrograms,    \* programs inside one another
    MaxContexts  \* contexts on top of the running program

ASSUME Int21EntryAssumption ==
    /\ MaxPrograms \in Nat \ {0}
    /\ MaxContexts \in Nat

VARIABLES
    indos_flag,         \* what AH=34h points at
    kstack_base,        \* where the next call made outside DOS switches to
    mouse_in_callback,  \* the callback runs
    mouse_callback,     \* a callback is installed
    acts,               \* what is in progress, innermost last
    leaked,             \* history: calls abandoned by an exit, still counted in InDOS
    wild                \* a frame in use was overwritten, or a return went astray

entryVars == <<indos_flag, kstack_base, mouse_in_callback, mouse_callback, acts, leaked, wild>>

NoLevel == 0
KERNEL_STACK_TOP == 1

Kinds == {"program", "call", "exec", "launch", "exit", "resume", "handler", "isr", "callback"}
Contexts == [kind : Kinds, level : Nat, kbase : Nat]

Context(kind, level) == [kind |-> kind, level |-> level, kbase |-> 0]
(* The child's memory block keeps the base that its end restores. *)
Child(kind, base) == [kind |-> kind, level |-> NoLevel, kbase |-> base]

Top == Len(acts)
Innermost(kinds) == wild = "no" /\ acts # <<>> /\ acts[Top].kind \in kinds
WithTop(kind) == [acts EXCEPT ![Top].kind = kind]
Room == Top < 2 * MaxPrograms + MaxContexts

Count(kinds, cs) == Cardinality({i \in DOMAIN cs : cs[i].kind \in kinds})
Depth == Count({"program"}, acts)

(* The innermost program, and the memory of its suspended EXEC below it. *)
IsProgram(i) == acts[i].kind \in {"program", "launch"}
Program == CHOOSE i \in DOMAIN acts : IsProgram(i) /\ \A j \in DOMAIN acts : IsProgram(j) => j <= i

(* SS is the kernel's: a switch since the innermost program was entered. *)
OnKernelStack == \E i \in DOMAIN acts : i > Program /\ acts[i].level # NoLevel

(* What a call that switches to kstack_base would overwrite. *)
InUse == {i \in DOMAIN acts : acts[i].level # NoLevel /\ acts[i].level >= kstack_base}

EntryInit ==
    /\ indos_flag = 0
    /\ kstack_base = KERNEL_STACK_TOP + 1
    /\ mouse_in_callback = FALSE
    /\ mouse_callback = FALSE
    /\ acts = <<Context("exec", KERNEL_STACK_TOP), Child("program", KERNEL_STACK_TOP)>>
    /\ leaked = 0
    /\ wild = "no"

-----------------------------------------------------------------------------
(* Mutant: calls from the callback are served. *)
NeverRefused == FALSE

(* INT 21h is refused while the callback runs: error 5, nothing changed. *)
Refused == mouse_in_callback

(* A call made outside DOS switches to kstack_base, any other stays on the *)
(* stack it is made on.  Interrupts are off until the switch is done.      *)
Enters ==
    /\ ~Refused
    /\ Room
    /\ indos_flag' = indos_flag + 1
    /\ IF indos_flag' = 1
         THEN /\ acts' = Append(acts, Context("call", kstack_base))
              /\ wild' = IF InUse = {} THEN "no" ELSE "overrun"
         ELSE /\ acts' = Append(acts, Context("call", NoLevel))
              /\ UNCHANGED wild
    /\ UNCHANGED <<kstack_base, mouse_in_callback, mouse_callback, leaked>>

Enter == Enters \/ (Refused /\ UNCHANGED entryVars)

Call == Innermost({"program", "handler"}) /\ Enter

(* Mutant: InDOS is decremented first. *)
RestoresCounted(indos) == indos = 0 /\ OnKernelStack

(* INT21_RESTORE_CALLER_STACK: the caller's stack comes back when InDOS is *)
(* one and SS is the kernel's.                                             *)
Restores(indos) == indos = 1 /\ OnKernelStack

(* It should come back when the call had switched: otherwise the IRET      *)
(* finds the parked SS:SP where it looks for an address.                   *)
Home(indos, level) == IF Restores(indos) = (level # NoLevel) THEN "no" ELSE "astray"

Return ==
    /\ Innermost({"call"})
    /\ wild' = Home(indos_flag, acts[Top].level)
    /\ acts' = Front(acts)
    /\ indos_flag' = indos_flag - 1
    /\ UNCHANGED <<kstack_base, mouse_in_callback, mouse_callback, leaked>>

-----------------------------------------------------------------------------
(* EXEC of a program, by a program, once the file is loaded. *)
Launch ==
    /\ Innermost({"call"})
    /\ acts[Top - 1].kind = "program"
    /\ Depth < MaxPrograms
    /\ acts' = Append(WithTop("exec"), Child("launch", kstack_base))
    /\ indos_flag' = indos_flag - 1
    /\ UNCHANGED <<kstack_base, mouse_in_callback, mouse_callback, leaked, wild>>

(* kstack_base goes below the frame of the EXEC. *)
Start ==
    /\ Innermost({"launch"})
    /\ kstack_base' = acts[Top - 1].level + 1
    /\ acts' = WithTop("program")
    /\ UNCHANGED <<indos_flag, mouse_in_callback, mouse_callback, leaked, wild>>

(* What every exit does to the mouse; a resident exit leaves it alone. *)
MouseAtExit(resident) ==
    IF resident THEN UNCHANGED <<mouse_in_callback, mouse_callback>>
                ELSE mouse_in_callback' = FALSE /\ mouse_callback' = FALSE

(* Interrupt handlers end no program. *)
EndsProgram == \A i \in Program .. Top : acts[i].kind \in {"program", "call", "handler"}

(* AH=4Ch, AH=31h, and the default INT 23h handler: the call is no longer  *)
(* counted and becomes the exit.                                           *)
Exit(resident) ==
    /\ Innermost({"call"})
    /\ EndsProgram
    /\ indos_flag' = indos_flag - 1
    /\ acts' = WithTop("exit")
    /\ MouseAtExit(resident)
    /\ UNCHANGED <<kstack_base, leaked, wild>>

(* INT 20h: the exit runs on the program's stack. *)
Int20 ==
    /\ Innermost({"program"})
    /\ acts' = Append(acts, Context("exit", NoLevel))
    /\ MouseAtExit(FALSE)
    /\ UNCHANGED <<indos_flag, kstack_base, leaked, wild>>

(* Mutant: the frame that comes back has no base of its own. *)
SwitchBackOnly ==
    /\ Innermost({"exit"})
    /\ acts' = [SubSeq(acts, 1, Program - 1) EXCEPT ![Program - 1].kind = "resume"]
    /\ leaked' = leaked + Count({"call"}, SubSeq(acts, Program, Top))
    /\ UNCHANGED <<indos_flag, kstack_base, mouse_in_callback, mouse_callback, wild>>

(* The switch back to the frame of the EXEC that started the program. *)
SwitchBack ==
    /\ Innermost({"exit"})
    /\ kstack_base' = acts[Program].kbase
    /\ acts' = [SubSeq(acts, 1, Program - 1) EXCEPT ![Program - 1].kind = "resume"]
    /\ leaked' = leaked + Count({"call"}, SubSeq(acts, Program, Top))
    /\ UNCHANGED <<indos_flag, mouse_in_callback, mouse_callback, wild>>

(* EXEC counts itself again and returns; the boot's returns to the halt. *)
ExecReturns ==
    /\ Innermost({"resume"})
    /\ acts' = Front(acts)
    /\ wild' = IF Top = 1 THEN "no" ELSE Home(indos_flag + 1, acts[Top].level)
    /\ UNCHANGED <<indos_flag, kstack_base, mouse_in_callback, mouse_callback, leaked>>

-----------------------------------------------------------------------------
(* INT 24h from a transfer that fails, INT 23h from a console call: the    *)
(* program's handler runs on the stack of the call.  An exit closes files  *)
(* and can come to INT 24h as well.                                        *)
Handle ==
    /\ Innermost({"call", "exit"})
    /\ Room
    /\ acts' = Append(acts, Context("handler", NoLevel))
    /\ UNCHANGED <<indos_flag, kstack_base, mouse_in_callback, mouse_callback, leaked, wild>>

HandlerReturns ==
    /\ Innermost({"handler"})
    /\ acts' = Front(acts)
    /\ UNCHANGED <<indos_flag, kstack_base, mouse_in_callback, mouse_callback, leaked, wild>>

(* A resident's handler is not entered twice, and calls DOS only when      *)
(* InDOS is zero.                                                          *)
Interrupt ==
    /\ wild = "no" /\ acts # <<>>
    /\ Count({"isr"}, acts) = 0
    /\ Room
    /\ acts' = Append(acts, Context("isr", NoLevel))
    /\ UNCHANGED <<indos_flag, kstack_base, mouse_in_callback, mouse_callback, leaked, wild>>

PolitelyCalls == Innermost({"isr"}) /\ indos_flag = 0 /\ Enter

InterruptReturns ==
    /\ Innermost({"isr"})
    /\ acts' = Front(acts)
    /\ UNCHANGED <<indos_flag, kstack_base, mouse_in_callback, mouse_callback, leaked, wild>>

-----------------------------------------------------------------------------
(* INT 33h AX=000Ch and AX=0000h. *)
SetCallback(installed) ==
    /\ Innermost({"program"})
    /\ mouse_callback' = installed
    /\ IF installed THEN UNCHANGED mouse_in_callback ELSE mouse_in_callback' = FALSE
    /\ UNCHANGED <<indos_flag, kstack_base, acts, leaked, wild>>

InvokeCallback ==
    /\ wild = "no" /\ acts # <<>>
    /\ mouse_callback /\ ~mouse_in_callback
    /\ Room
    /\ mouse_in_callback' = TRUE
    /\ acts' = Append(acts, Context("callback", NoLevel))
    /\ UNCHANGED <<indos_flag, kstack_base, mouse_callback, leaked, wild>>

CallbackCalls == Innermost({"callback"}) /\ Enter

CallbackReturns ==
    /\ Innermost({"callback"})
    /\ mouse_in_callback' = FALSE
    /\ acts' = Front(acts)
    /\ UNCHANGED <<indos_flag, kstack_base, mouse_callback, leaked, wild>>

EntryNext ==
    \/ Call \/ Return
    \/ Launch \/ Start \/ Int20 \/ SwitchBack \/ ExecReturns
    \/ \E resident \in BOOLEAN : Exit(resident)
    \/ Handle \/ HandlerReturns
    \/ Interrupt \/ PolitelyCalls \/ InterruptReturns
    \/ \E installed \in BOOLEAN : SetCallback(installed)
    \/ InvokeCallback \/ CallbackCalls \/ CallbackReturns

EntrySpec == EntryInit /\ [][EntryNext]_entryVars

-----------------------------------------------------------------------------
EntryTypeOK ==
    /\ indos_flag \in Nat /\ kstack_base \in Nat /\ leaked \in Nat
    /\ mouse_in_callback \in BOOLEAN /\ mouse_callback \in BOOLEAN
    /\ acts \in Seq(Contexts)
    /\ wild \in {"no", "overrun", "astray"}

(* A call is interrupted by another only through the handler that it has   *)
(* called itself: the kernel's variables are those of one call, and no     *)
(* callback and no polite resident gets between its steps.                 *)
OnlyHandlersNest ==
    \A i, j \in DOMAIN acts :
        i < j /\ acts[i].kind = "call" /\ acts[j].kind = "call" =>
            \E k \in i .. j : acts[k].kind = "handler"

(* Every call returns to where it was made, and no frame that will be      *)
(* returned to is overwritten.  The exceptions are all there are: a        *)
(* resident that finds InDOS zero while a program exits, or in the few     *)
(* instructions that start one or come back to its parent, and a program   *)
(* that has ended inside a call of its own.                                *)
CallsComeHome ==
    /\ wild = "overrun" =>
         \A i \in 1 .. Top - 1 :
             acts[i].level >= acts[Top].level =>
                 acts[i].kind \in {"exit", "resume"} \/ acts[i + 1].kind = "launch"
    /\ wild = "astray" => leaked > 0

(* InDOS is the number of calls in progress.  A program that waits for its *)
(* child is not in one, so that the child starts at zero; only calls that  *)
(* an exit abandons (a handler that ends its program) stay counted.  And   *)
(* however programs end, the kernel's stack is as deep as the programs     *)
(* that wait: what EXEC takes of it comes back.                            *)
CountsMatch ==
    /\ indos_flag = Count({"call"}, acts) + leaked
    /\ kstack_base = KERNEL_STACK_TOP + Depth
=============================================================================
