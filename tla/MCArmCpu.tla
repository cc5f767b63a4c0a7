------------------------------ MODULE MCArmCpu ------------------------------
(* Model-checking instance of ArmCpu: one register value to tell banks    *)
(* apart, status words that enter user and fiq mode, and high vectors a   *)
(* short distance above the low ones.                                     *)
EXTENDS ArmCpu

MCMsrVals ==
    {[nz |-> 1, c |-> 1, v |-> 0, q |-> 0, t |-> 0, i |-> 0, f |-> 0, a |-> 0,
      m |-> "usr"],
     [nz |-> 2, c |-> 0, v |-> 1, q |-> 1, t |-> 1, i |-> 1, f |-> 0, a |-> 1,
      m |-> "fiq"]}

\* A negative ALU result (N set) with carry.
MCAluWords == {[NZF |-> [top |-> 2, low |-> TRUE], CF |-> 1, VF |-> 0]}
\* A positive non-zero ALU result (only low bits set) with overflow.
MCAluPos == {[NZF |-> [top |-> 0, low |-> TRUE], CF |-> 0, VF |-> 1]}
MCAluBoth == MCAluWords \cup MCAluPos
MCNoBranch == {}
MCThumb == {[pc |-> 0, t |-> 1]}

MCFiqWord == {[nz |-> 2, c |-> 0, v |-> 1, q |-> 1, t |-> 1, i |-> 1, f |-> 0, a |-> 1,
      m |-> "fiq"]}
MCNoAlu == {}
MCUsrOnly == {[nz |-> 1, c |-> 1, v |-> 0, q |-> 0, t |-> 0, i |-> 0, f |-> 0, a |-> 0,
      m |-> "usr"]}

\* The guest programs.  Banking: nested IRQ and FIQ with r13 written in
\* every mode.  Swi: SWI from ARM and Thumb, with an MSR into fiq.  Flags:
\* ALU results, MSR to the CPSR and to the SPSR, r8 written.
Guest(raised, alu, branches, regs, msr, spsr) ==
    [raised |-> raised, alu |-> alu, branches |-> branches, regs |-> regs,
     msr |-> msr, spsr |-> spsr]
MCBanking == Guest({"IRQ", "FIQ"}, MCNoAlu, MCNoBranch, {13}, {}, {})
MCSwi == Guest({"SWI"}, MCNoAlu, MCThumb, {}, MCFiqWord, {})
MCFlags == Guest({}, MCAluBoth, MCThumb, {8}, MCMsrVals, MCUsrOnly)
MCBankingOnly == {MCBanking}
MCSwiFlags == {MCSwi, MCFlags}

=============================================================================
