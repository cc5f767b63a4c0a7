--------------------------- MODULE MCMipsTranslate ---------------------------
(* Model-checking instance of MipsTranslate: a three-word program in a    *)
(* twelve-byte wrapping address space split into pages of two words, so  *)
(* that blocks end at page boundaries and at the op-buffer bound, and     *)
(* branch targets lie on the same and on the other page.                  *)
EXTENDS MipsTranslate

\* Static targets of the direct branches: the start of each page.
Targets == {0, 8}

\* Branch flow: every branch form, next to instructions that fault from
\* inside a block with (addo) and without (ldst) writing state back first.
MCBranchInsns ==
    [k : {"alu", "addo", "ldst"}, t : {0}]
    \cup [k : {"b", "bal", "beq", "beql"}, t : Targets]
    \cup [k : {"jr", "bnever", "bnelnever", "bltzalnever"}, t : {0}]

\* Block ends: the instructions that stop translation or leave the block,
\* in and out of the delay slots of the branches that carry state.
MCStopInsns ==
    [k : {"alu", "trap", "ri", "stop", "status", "cp0", "cp0ri"}, t : {0}]
    \cup [k : {"beq", "beql"}, t : Targets]
    \cup [k : {"jr"}, t : {0}]

\* The FPU: moves and arithmetic that go on or raise RI, the FP branches,
\* and the mtc0 to Status that sets or clears CU1, so every class meets
\* the FPU both usable and unusable.
MCFpInsns ==
    [k : {"alu", "ldst", "status", "fpu", "fpuri"}, t : {0}]
    \cup [k : FpBranchKinds, t : Targets]

\* No FP branch sits in the delay slot of a branch (the slot is always the
\* next word): gen_compute_branch1 does not handle that case as the ISA
\* says, see the hazard at translate.c:4182.
PendingKinds == {"b", "bal", "beq", "beql", "jr"} \cup FpBranchKinds
NoFpBranchInSlot(p) ==
    \A a \in Aligned :
        p[a].k \in FpBranchKinds => p[(a + MemSize - 4) % MemSize].k \notin PendingKinds

\* All together: every class, in and out of the delay slots of every
\* branch form; a program is drawn from one of the three groups.
MCAllInsns == MCBranchInsns \cup MCStopInsns \cup MCFpInsns
MCRefPrograms ==
    [Aligned -> MCBranchInsns] \cup [Aligned -> MCStopInsns]
    \cup {p \in [Aligned -> MCFpInsns] : NoFpBranchInSlot(p)}

\* Violation instance: CU1 set by mtc0 Status, then an FP branch in the
\* delay slot of a conditional branch or of another FP branch.
MCFpSlotInsns ==
    [k : {"alu", "status"}, t : {0}] \cup [k : {"beq", "bc1"}, t : {0}]
MCFpSlotPrograms == {p \in [Aligned -> MCFpSlotInsns] : ~NoFpBranchInSlot(p)}

\* Straight-line code and the statically not-taken branch-likely that
\* skips its delay slot.
MCPageInsns == [k : {"alu", "bnelnever"}, t : {0}]

\* Straight-line code and an instruction that stops translation (DI/EI).
MCStepInsns == [k : {"alu", "stop", "trap"}, t : {0}]
MCStepPrograms == [Aligned -> MCStepInsns]

=============================================================================
