------------------------------ MODULE MinorISA ------------------------------
(***************************************************************************)
(* What a thread of the CPU does, seen from its program: instructions run  *)
(* one at a time and in order, each from the PC the one before it left.    *)
(* No fetching, no predictions, no streams.                                *)
(***************************************************************************)
EXTENDS Integers

CONSTANTS NumPCs,    \* instruction addresses 0 .. NumPCs - 1, wrapping
          Program,   \* the kind of the instruction at each address
          MacroLen,  \* micro-ops of a macro-op
          Handler    \* where faults and interrupts go

VARIABLES arch,      \* the PC: instruction and micro-op
          status     \* "Active" or "Suspended"

vars == <<arch, status>>

PCs == 0..(NumPCs - 1)

At(pc) == [pc |-> pc, upc |-> 0]

Init == arch = At(0) /\ status = "Active"

\* The last operation of the instruction.
Finish ==
    /\ Program[arch.pc] = "macro" => arch.upc = MacroLen - 1
    /\ arch' = At((arch.pc + 1) % NumPCs)
    /\ status' = IF Program[arch.pc] = "quiesce" THEN "Suspended" ELSE status

\* A micro-op that is not the last one.
Microop ==
    /\ Program[arch.pc] = "macro"
    /\ arch.upc < MacroLen - 1
    /\ arch' = [arch EXCEPT !.upc = @ + 1]
    /\ UNCHANGED status

BranchTaken ==
    /\ Program[arch.pc] = "branch"
    /\ \E t \in PCs : arch' = At(t)
    /\ UNCHANGED status

\* A fault of the instruction at the PC, or an interrupt taken instead of it.
Trap == arch' = At(Handler) /\ UNCHANGED status

Wake ==
    /\ status = "Suspended"
    /\ status' = "Active"
    /\ UNCHANGED arch

Next ==
    \/ status = "Active" /\ (Finish \/ Microop \/ BranchTaken \/ Trap)
    \/ Wake

Spec == Init /\ [][Next]_vars
=============================================================================
