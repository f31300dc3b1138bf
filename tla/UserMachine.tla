---------------------------- MODULE UserMachine ----------------------------
(***************************************************************************)
(* What the scheduler promises to user programs: each process has a        *)
(* register image of its own, user mode always runs some live process with *)
(* exactly that image, only the process itself changes the image, by       *)
(* trapping into the kernel, and only its own trap can end it.  How the    *)
(* kernel chooses who runs next is left open.                              *)
(***************************************************************************)
CONSTANTS
    Procs,      \* places for processes
    Images,     \* register images
    None        \* no process, no image

VARIABLES
    mode,       \* "kernel", "user" or "serve" (a trap is being served)
    proc,       \* the process in user mode or being served, else None
    shown,      \* the registers user mode was entered with, else None
    image       \* the image of every live process, None for the others

vars == <<mode, proc, shown, image>>

Init ==
    /\ mode = "kernel"
    /\ proc = None
    /\ shown = None
    /\ image = [p \in Procs |-> None]

\* A process is created with the image of its program.
Create(p, i) ==
    /\ image[p] = None
    /\ image' = [image EXCEPT ![p] = i]
    /\ UNCHANGED <<mode, proc, shown>>

Enter(p) ==
    /\ mode = "kernel"
    /\ image[p] # None
    /\ mode' = "user"
    /\ proc' = p
    /\ shown' = image[p]
    /\ UNCHANGED image

\* The running process traps; the kernel fixes the registers it will see.
Trap(i) ==
    /\ mode = "user"
    /\ mode' = "serve"
    /\ image' = [image EXCEPT ![proc] = i]
    /\ shown' = None
    /\ UNCHANGED proc

\* The trap has been served; the process lives on, or has ended itself.
Served ==
    /\ mode = "serve"
    /\ mode' = "kernel"
    /\ proc' = None
    /\ \/ UNCHANGED image
       \/ image' = [image EXCEPT ![proc] = None]
    /\ UNCHANGED shown

Next ==
    \/ \E p \in Procs, i \in Images : Create(p, i)
    \/ \E p \in Procs : Enter(p)
    \/ \E i \in Images : Trap(i)
    \/ Served

Spec == Init /\ [][Next]_vars

=============================================================================
