------------------------------ MODULE ArmCpu ------------------------------
(***************************************************************************)
(* The ARM CPU state of src/target-arm/cpu.h and helper.c: the CPSR split  *)
(* into a flag cache (NZF, CF, VF, QF, thumb) and uncached_cpsr, the live  *)
(* registers with banked copies swapped by switch_mode, and exception      *)
(* entry in do_interrupt.  The guest steps that use these routines (ALU    *)
(* flag updates, MSR, MOVS pc, lr, register writes) are the environment.   *)
(*                                                                         *)
(* NZF is a 32-bit word: N is bit 31 and Z means NZF = 0.  It is kept as   *)
(* its top two bits and whether any lower bit is set.  VF is kept as its   *)
(* bit 31, the only bit cpsr_read looks at.  r8 stands for r8-r12.         *)
(***************************************************************************)
EXTENDS Naturals

CONSTANTS Vals, HostResult, PCs, HighBase, MaxPC, Semihosting,
          Guests     \* the guest programs a run may start, each the set of
                     \* steps it takes:
                     \*   raised: the exception classes it raises
                     \*   alu:    ALU results it leaves: [NZF, CF, VF]
                     \*   branches: branch targets: [pc, t] (BX sets thumb)
                     \*   regs:   registers it writes, among r0, r8, r13, r14
                     \*   msr, spsr: status words it writes with MSR to the
                     \*           CPSR and to an SPSR

\* enum arm_cpu_mode
Modes == {"usr", "fiq", "irq", "svc", "abt", "und", "sys"}
Bits == {0, 1}
\* A CPSR or SPSR word; nz holds bits 31..30 (N, Z) as a number 0..3.
PSR == [nz : 0 .. 3, c : Bits, v : Bits, q : Bits, t : Bits,
        i : Bits, f : Bits, a : Bits, m : Modes]
NZFWords == [top : 0 .. 3, low : BOOLEAN]
\* The bit groups a cpsr_write mask selects (all set or all clear).
AllFields == {"nzcv", "q", "t", "m", "i", "f", "a"}

VARIABLES
    env,    \* the CPUARMState fields below
    guest   \* the guest program running, fixed for a behaviour

\* cpu_reset: everything zero, SVC mode with A, F and I set.
Init ==
    /\ guest \in Guests
    /\ env = [NZF |-> [top |-> 0, low |-> FALSE], CF |-> 0, VF |-> 0, QF |-> 0,
           thumb |-> 0,
           uncached |-> [m |-> "svc", i |-> 1, f |-> 1, a |-> 1],
           r0 |-> 0, r8 |-> 0, r13 |-> 0, r14 |-> 0, pc |-> 0,
           spsr |-> [nz |-> 0, c |-> 0, v |-> 0, q |-> 0, t |-> 0,
                     i |-> 0, f |-> 0, a |-> 0, m |-> "usr"],
           banked_r13 |-> [b \in 0 .. 5 |-> 0],
           banked_r14 |-> [b \in 0 .. 5 |-> 0],
           banked_spsr |-> [b \in 0 .. 5 |-> [nz |-> 0, c |-> 0, v |-> 0,
                              q |-> 0, t |-> 0, i |-> 0, f |-> 0, a |-> 0,
                              m |-> "usr"]],
           usr_regs |-> 0, fiq_regs |-> 0,
           hivecs |-> FALSE]

TypeOK ==
    /\ guest \in Guests
    /\ env.NZF \in NZFWords
    /\ {env.CF, env.VF, env.QF, env.thumb} \subseteq Bits
    /\ env.uncached \in [m : Modes, i : Bits, f : Bits, a : Bits]
    /\ env.spsr \in PSR
    /\ \A b \in 0 .. 5 : env.banked_spsr[b] \in PSR
    /\ env.pc \in Nat

\* cpsr_read
CpsrRead(e) ==
    [nz |-> (IF e.NZF.top >= 2 THEN 2 ELSE 0)
            + (IF e.NZF.top = 0 /\ ~e.NZF.low THEN 1 ELSE 0),
     c |-> e.CF, v |-> e.VF, q |-> e.QF, t |-> e.thumb,
     i |-> e.uncached.i, f |-> e.uncached.f, a |-> e.uncached.a,
     m |-> e.uncached.m]

\* bank_number
BankNumber(m) ==
    CASE m \in {"usr", "sys"} -> 0
      [] m = "svc" -> 1
      [] m = "abt" -> 2
      [] m = "und" -> 3
      [] m = "irq" -> 4
      [] m = "fiq" -> 5

\* switch_mode: r8-r12 swap with the fiq copies when fiq is entered or
\* left; r13, r14 and spsr go to the old mode's bank and come from the
\* new one's.  uncached_cpsr still names the old mode.
SwitchMode(e, mode) ==
    LET old == e.uncached.m
        e1 == CASE old = "fiq" ->
                     [e EXCEPT !.fiq_regs = e.r8, !.r8 = e.usr_regs]
                [] mode = "fiq" ->
                     [e EXCEPT !.usr_regs = e.r8, !.r8 = e.fiq_regs]
                [] OTHER -> e
        i == BankNumber(old)
        e2 == [e1 EXCEPT !.banked_r13[i] = e1.r13, !.banked_r14[i] = e1.r14,
                         !.banked_spsr[i] = e1.spsr]
        j == BankNumber(mode)
    IN IF mode = old THEN e
       ELSE [e2 EXCEPT !.r13 = e2.banked_r13[j], !.r14 = e2.banked_r14[j],
                       !.spsr = e2.banked_spsr[j]]

\* Mutant: the uncached fields written before the bank switch, so that
\* switch_mode sees the new mode already in uncached_cpsr.
CpsrWriteUncachedFirst(e, val, mask) ==
    LET e1 == [e EXCEPT !.uncached =
                 [m |-> IF "m" \in mask THEN val.m ELSE @.m,
                  i |-> IF "i" \in mask THEN val.i ELSE @.i,
                  f |-> IF "f" \in mask THEN val.f ELSE @.f,
                  a |-> IF "a" \in mask THEN val.a ELSE @.a]]
    IN IF "m" \in mask /\ e.uncached.m # val.m THEN SwitchMode(e1, val.m) ELSE e1

\* cpsr_write: the cached fields first, then the bank switch (with the old
\* mode still in uncached_cpsr), then the uncached fields.  N and Z are
\* stored as NZF = (val & 0xc0000000) ^ 0x40000000.
CpsrWrite(e, val, mask) ==
    LET e1 == IF "nzcv" \in mask
              THEN [e EXCEPT !.NZF = [top |-> IF val.nz % 2 = 0 THEN val.nz + 1
                                              ELSE val.nz - 1,
                                      low |-> FALSE],
                             !.CF = val.c, !.VF = val.v]
              ELSE e
        e2 == [e1 EXCEPT !.QF = IF "q" \in mask THEN val.q ELSE @,
                         !.thumb = IF "t" \in mask THEN val.t ELSE @]
        e3 == IF "m" \in mask /\ e2.uncached.m # val.m
              THEN SwitchMode(e2, val.m) ELSE e2
    IN [e3 EXCEPT !.uncached =
                    [m |-> IF "m" \in mask THEN val.m ELSE @.m,
                     i |-> IF "i" \in mask THEN val.i ELSE @.i,
                     f |-> IF "f" \in mask THEN val.f ELSE @.f,
                     a |-> IF "a" \in mask THEN val.a ELSE @.a]]

Excs == {"UDEF", "SWI", "PABT", "BKPT", "DABT", "IRQ", "FIQ"}  \* EXCP_*
SwiImms == {"arm_magic", "thumb_magic", "other"}

\* MSR masks, as in ArmArch (the guest instruction forms).
MsrMasks(m) ==
    LET byte == {{"nzcv", "q"}, {"a"}, {"m", "i", "f"}}
        all == {UNION s : s \in (SUBSET byte) \ {{}}}
    IN IF m = "usr" THEN {{"nzcv", "q"}} ELSE all

\* Mutant: the intercept without the privileged-mode check.
SemihostedAnyMode(e, imm) ==
    /\ Semihosting
    /\ \/ imm = "arm_magic" /\ e.thumb = 0
       \/ imm = "thumb_magic" /\ e.thumb = 1

\* The semihosting intercept of EXCP_SWI.
Semihosted(e, imm) ==
    /\ Semihosting
    /\ \/ imm = "arm_magic" /\ e.thumb = 0
       \/ imm = "thumb_magic" /\ e.thumb = 1
    /\ e.uncached.m # "usr"

\* Mutant: the UDEF return offset of ARM state used in Thumb state too.
ExceptionEntryArmOffset(x, thumb) ==
    CASE x = "UDEF" -> [m |-> "und", vec |-> 4, i |-> 1, f |-> 0, a |-> 0,
                        off |-> 4]
      [] x = "SWI"  -> [m |-> "svc", vec |-> 8, i |-> 1, f |-> 0, a |-> 0,
                        off |-> 0]
      [] x \in {"PABT", "BKPT"} ->
                       [m |-> "abt", vec |-> 12, i |-> 1, f |-> 0, a |-> 1,
                        off |-> 4]
      [] x = "DABT" -> [m |-> "abt", vec |-> 16, i |-> 1, f |-> 0, a |-> 1,
                        off |-> 8]
      [] x = "IRQ"  -> [m |-> "irq", vec |-> 24, i |-> 1, f |-> 0, a |-> 1,
                        off |-> 4]
      [] x = "FIQ"  -> [m |-> "fiq", vec |-> 28, i |-> 1, f |-> 1, a |-> 1,
                        off |-> 4]

\* The switch on env->exception_index in do_interrupt: new mode, vector,
\* CPSR bits to set, and offset from regs[15] to the return address.
ExceptionEntry(x, thumb) ==
    CASE x = "UDEF" -> [m |-> "und", vec |-> 4, i |-> 1, f |-> 0, a |-> 0,
                        off |-> IF thumb = 1 THEN 2 ELSE 4]
      [] x = "SWI"  -> [m |-> "svc", vec |-> 8, i |-> 1, f |-> 0, a |-> 0,
                        off |-> 0]
      [] x \in {"PABT", "BKPT"} ->
                       [m |-> "abt", vec |-> 12, i |-> 1, f |-> 0, a |-> 1,
                        off |-> 4]
      [] x = "DABT" -> [m |-> "abt", vec |-> 16, i |-> 1, f |-> 0, a |-> 1,
                        off |-> 8]
      [] x = "IRQ"  -> [m |-> "irq", vec |-> 24, i |-> 1, f |-> 0, a |-> 1,
                        off |-> 4]
      [] x = "FIQ"  -> [m |-> "fiq", vec |-> 28, i |-> 1, f |-> 1, a |-> 1,
                        off |-> 4]

\* Mutants: the SPSR saved as uncached_cpsr alone, or read before the
\* bank switch (so the switch files it in the old mode's bank).
DoInterruptSpsrUncached(e, x, imm) ==
    IF x = "SWI" /\ Semihosted(e, imm)
    THEN [e EXCEPT !.r0 = HostResult]
    ELSE LET d == ExceptionEntry(x, e.thumb)
             e2 == [SwitchMode(e, d.m) EXCEPT !.spsr = e.uncached]
         IN [e2 EXCEPT !.uncached.m = d.m, !.thumb = 0, !.r14 = e2.pc + d.off,
                       !.pc = IF e.hivecs THEN HighBase + d.vec ELSE d.vec]

DoInterruptSpsrFirst(e, x, imm) ==
    IF x = "SWI" /\ Semihosted(e, imm)
    THEN [e EXCEPT !.r0 = HostResult]
    ELSE LET d == ExceptionEntry(x, e.thumb)
             e2 == SwitchMode([e EXCEPT !.spsr = CpsrRead(e)], d.m)
         IN [e2 EXCEPT !.uncached =
                          [m |-> d.m,
                           i |-> IF d.i = 1 THEN 1 ELSE @.i,
                           f |-> IF d.f = 1 THEN 1 ELSE @.f,
                           a |-> IF d.a = 1 THEN 1 ELSE @.a],
                       !.thumb = 0, !.r14 = e2.pc + d.off,
                       !.pc = IF e.hivecs THEN HighBase + d.vec ELSE d.vec]

\* do_interrupt
DoInterrupt(e, x, imm) ==
    IF x = "SWI" /\ Semihosted(e, imm)
    THEN [e EXCEPT !.r0 = HostResult]
    ELSE LET d == ExceptionEntry(x, e.thumb)
             addr == IF e.hivecs THEN HighBase + d.vec ELSE d.vec
             e1 == SwitchMode(e, d.m)
             e2 == [e1 EXCEPT !.spsr = CpsrRead(e1)]
         IN [e2 EXCEPT !.uncached =
                          [m |-> d.m,
                           i |-> IF d.i = 1 THEN 1 ELSE @.i,
                           f |-> IF d.f = 1 THEN 1 ELSE @.f,
                           a |-> IF d.a = 1 THEN 1 ELSE @.a],
                       !.thumb = 0,
                       !.r14 = e2.pc + d.off,
                       !.pc = addr]

-----------------------------------------------------------------------------
(* Steps.  Only Exception runs code of src/; the others are the guest     *)
(* instructions (translated by target-arm/translate.c, not part of this   *)
(* repository) that reach cpsr_read, cpsr_write and the registers.        *)

Exception(x, imm) ==
    /\ x = "IRQ" => env.uncached.i = 0      \* cpu_exec honours CPSR_I / CPSR_F
    /\ x = "FIQ" => env.uncached.f = 0
    /\ env.pc + ExceptionEntry(x, env.thumb).off <= MaxPC
    /\ env' = DoInterrupt(env, x, imm)

\* An ALU result lands in NZF, a carry in CF, an overflow in bit 31 of VF.
AluFlags(w) == env' = [env EXCEPT !.NZF = w.NZF, !.CF = w.CF, !.VF = w.VF]

SetQ == env' = [env EXCEPT !.QF = 1]

WriteReg(r, v) ==
    env' = CASE r = 0 -> [env EXCEPT !.r0 = v]
             [] r = 8 -> [env EXCEPT !.r8 = v]
             [] r = 13 -> [env EXCEPT !.r13 = v]
             [] r = 14 -> [env EXCEPT !.r14 = v]

BranchTo(p, t) == env' = [env EXCEPT !.pc = p, !.thumb = t]

Msr(val, mask) == env' = CpsrWrite(env, val, mask)

\* MSR SPSR: spsr = (spsr & ~mask) | (val & mask), in modes with an SPSR.
MsrSpsr(val, mask) ==
    /\ env.uncached.m \notin {"usr", "sys"}
    /\ env' = [env EXCEPT !.spsr =
                 [f \in DOMAIN @ |->
                    IF \/ f \in {"nz", "c", "v"} /\ "nzcv" \in mask
                       \/ f \in mask
                    THEN val[f] ELSE @[f]]]

\* MOVS pc, lr: pc from r14, then cpsr_write(env, spsr, 0xffffffff).
ExceptionReturn ==
    /\ env.uncached.m \notin {"usr", "sys"}
    /\ env' = CpsrWrite([env EXCEPT !.pc = env.r14], env.spsr, AllFields)

\* helper_set_cp15, c1: the V bit selects the high vectors.
SetHighVectors(b) == env' = [env EXCEPT !.hivecs = b]

Next ==
    /\ \/ \E x \in guest.raised, imm \in SwiImms : Exception(x, imm)
       \/ \E w \in guest.alu : AluFlags(w)
       \/ SetQ
       \/ \E r \in guest.regs, v \in Vals : WriteReg(r, v)
       \/ \E b \in guest.branches : BranchTo(b.pc, b.t)
       \/ \E val \in guest.msr, mask \in MsrMasks(env.uncached.m) : Msr(val, mask)
       \/ \E val \in guest.spsr, mask \in MsrMasks(env.uncached.m) : MsrSpsr(val, mask)
       \/ ExceptionReturn
       \/ \E b \in BOOLEAN : SetHighVectors(b)
    /\ UNCHANGED guest

Spec == Init /\ [][Next]_<<env, guest>>

-----------------------------------------------------------------------------
(* Refinement: the architectural registers of each bank are the live ones *)
(* for the current mode's bank and the banked copies for the others.       *)

CurBank == BankNumber(env.uncached.m)
Banked(live, copies) == [b \in 0 .. 5 |-> IF b = CurBank THEN live ELSE copies[b]]

Arch == INSTANCE ArmArch WITH
    MsrVals <- UNION {g.msr : g \in Guests},
    SpsrVals <- UNION {g.spsr : g \in Guests},
    Raised <- UNION {g.raised : g \in Guests},
    cpsr <- CpsrRead(env),
    r0 <- env.r0,
    r8 <- IF env.uncached.m = "fiq" THEN [k \in 0 .. 1 |-> IF k = 1 THEN env.r8
                                                             ELSE env.usr_regs]
          ELSE [k \in 0 .. 1 |-> IF k = 0 THEN env.r8 ELSE env.fiq_regs],
    R13 <- Banked(env.r13, env.banked_r13),
    R14 <- Banked(env.r14, env.banked_r14),
    SPSR <- Banked(env.spsr, env.banked_spsr),
    pc <- env.pc,
    hivecs <- env.hivecs

\* Keeping the flags in a cache and the banked registers in live copies is
\* invisible: cpsr_read, cpsr_write, switch_mode and do_interrupt together
\* behave as the ARM programmer's model (ArmArch).
ArchRefinement == Arch!Spec

=============================================================================
