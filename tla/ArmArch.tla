------------------------------ MODULE ArmArch ------------------------------
(***************************************************************************)
(* Abstract specification of the ARM programmer's model that the CPU state *)
(* of src/target-arm (cpu.h, helper.c) implements: one CPSR, the registers *)
(* each mode sees, and exception entry and return.                        *)
(*                                                                         *)
(*  - the CPSR is a word of fields; N and Z are independent bits;          *)
(*  - r13, r14 and the SPSR are banked per mode (usr and sys share one     *)
(*    bank); r8-r12 have a second copy seen in fiq mode only;              *)
(*  - exception entry saves the CPSR in the SPSR of the new mode, the      *)
(*    return address in its r14, masks interrupts, enters ARM state and    *)
(*    continues at the (possibly high) vector;                             *)
(*  - a semihosting SWI from a privileged mode returns a host result in r0 *)
(*    and changes nothing else.                                            *)
(*                                                                         *)
(* r8 stands for r8-r12, which are banked together.                        *)
(***************************************************************************)
EXTENDS Naturals

CONSTANTS
    Vals,          \* register values the guest writes
    HostResult,    \* value a semihosting call leaves in r0
    PCs,           \* addresses the guest branches to
    HighBase,      \* base of the high vectors
    MaxPC,         \* bound on return addresses explored
    Semihosting,   \* semihosting_enabled
    MsrVals,       \* status words the guest writes with MSR
    SpsrVals,      \* status words the guest writes to an SPSR with MSR
    Raised         \* the exception classes explored

Modes == {"usr", "fiq", "irq", "svc", "abt", "und", "sys"}
Bits == {0, 1}

\* A status word.  nz holds bits 31..30 (N, Z) as a number 0..3.
PSR == [nz : 0 .. 3, c : Bits, v : Bits, q : Bits, t : Bits,
        i : Bits, f : Bits, a : Bits, m : Modes]

\* The register bank each mode sees.
Bank(m) == CASE m \in {"usr", "sys"} -> 0
             [] m = "svc" -> 1
             [] m = "abt" -> 2
             [] m = "und" -> 3
             [] m = "irq" -> 4
             [] m = "fiq" -> 5
Banks == 0 .. 5
HasSpsr(m) == m \notin {"usr", "sys"}

\* Field groups a status write may select.
Fields == {"nzcv", "q", "t", "m", "i", "f", "a"}
Merge(old, val, mask) ==
    [old EXCEPT !.nz = IF "nzcv" \in mask THEN val.nz ELSE @,
                !.c  = IF "nzcv" \in mask THEN val.c ELSE @,
                !.v  = IF "nzcv" \in mask THEN val.v ELSE @,
                !.q  = IF "q" \in mask THEN val.q ELSE @,
                !.t  = IF "t" \in mask THEN val.t ELSE @,
                !.m  = IF "m" \in mask THEN val.m ELSE @,
                !.i  = IF "i" \in mask THEN val.i ELSE @,
                !.f  = IF "f" \in mask THEN val.f ELSE @,
                !.a  = IF "a" \in mask THEN val.a ELSE @]

Excs == {"UDEF", "SWI", "PABT", "BKPT", "DABT", "IRQ", "FIQ"}

\* Exception entry per class: mode, vector, bits masked, return offset
\* (the UDEF offset depends on the instruction set of the faulting code).
Entry(x, t) ==
    CASE x = "UDEF" -> [m |-> "und", vec |-> 4, i |-> 1, f |-> 0, a |-> 0,
                        off |-> IF t = 1 THEN 2 ELSE 4]
      [] x = "SWI"  -> [m |-> "svc", vec |-> 8, i |-> 1, f |-> 0, a |-> 0,
                        off |-> 0]
      [] x \in {"PABT", "BKPT"} ->
                       [m |-> "abt", vec |-> 12, i |-> 1, f |-> 0, a |-> 1,
                        off |-> 4]
      [] x = "DABT" -> [m |-> "abt", vec |-> 16, i |-> 1, f |-> 0, a |-> 1,
                        off |-> 8]
      [] x = "IRQ"  -> [m |-> "irq", vec |-> 24, i |-> 1, f |-> 0, a |-> 1,
                        off |-> 4]
      [] x = "FIQ"  -> [m |-> "fiq", vec |-> 28, i |-> 1, f |-> 1, a |-> 1,
                        off |-> 4]

\* SWI immediates the guest may use: the two semihosting magics and another.
SwiImms == {"arm_magic", "thumb_magic", "other"}

VARIABLES
    cpsr,   \* the status register
    r0,     \* r0 (the semihosting result register)
    r8,     \* r8-r12: index 0 the common copy, 1 the fiq copy
    R13,    \* bank -> r13
    R14,    \* bank -> r14
    SPSR,   \* bank -> saved status
    pc,     \* r15
    hivecs  \* the high-vectors control bit (cp15 c1 bit 13)

vars == <<cpsr, r0, r8, R13, R14, SPSR, pc, hivecs>>

Mode == cpsr.m
FiqView == IF Mode = "fiq" THEN 1 ELSE 0

\* Results an ALU operation can leave in N and Z (never both set).
AluNZ == {0, 1, 2}

Init ==
    \* reset: svc mode, ARM state, interrupts masked; flags unknown
    /\ cpsr \in {w \in PSR : /\ w.m = "svc" /\ w.t = 0
                            /\ w.i = 1 /\ w.f = 1 /\ w.a = 1}
    /\ r0 = 0
    /\ r8 = [k \in 0 .. 1 |-> 0]
    /\ R13 = [b \in Banks |-> 0]
    /\ R14 = [b \in Banks |-> 0]
    /\ SPSR = [b \in Banks |-> [nz |-> 0, c |-> 0, v |-> 0, q |-> 0,
                                t |-> 0, i |-> 0, f |-> 0, a |-> 0,
                                m |-> "usr"]]
    /\ pc = 0
    /\ hivecs = FALSE

SetFlags(nz, c, v) ==
    /\ cpsr' = [cpsr EXCEPT !.nz = nz, !.c = c, !.v = v]
    /\ UNCHANGED <<r0, r8, R13, R14, SPSR, pc, hivecs>>

SetQ ==
    /\ cpsr' = [cpsr EXCEPT !.q = 1]
    /\ UNCHANGED <<r0, r8, R13, R14, SPSR, pc, hivecs>>

WriteReg(r, v) ==
    /\ \/ r = 0 /\ r0' = v /\ UNCHANGED <<r8, R13, R14>>
       \/ r = 8 /\ r8' = [r8 EXCEPT ![FiqView] = v] /\ UNCHANGED <<r0, R13, R14>>
       \/ r = 13 /\ R13' = [R13 EXCEPT ![Bank(Mode)] = v] /\ UNCHANGED <<r0, r8, R14>>
       \/ r = 14 /\ R14' = [R14 EXCEPT ![Bank(Mode)] = v] /\ UNCHANGED <<r0, r8, R13>>
    /\ UNCHANGED <<cpsr, SPSR, pc, hivecs>>

BranchTo(p, t) ==
    /\ pc' = p
    /\ cpsr' = [cpsr EXCEPT !.t = t]
    /\ UNCHANGED <<r0, r8, R13, R14, SPSR, hivecs>>

Msr(val, mask) ==
    /\ cpsr' = Merge(cpsr, val, mask)
    /\ UNCHANGED <<r0, r8, R13, R14, SPSR, pc, hivecs>>

MsrSpsr(val, mask) ==
    /\ HasSpsr(Mode)
    /\ SPSR' = [SPSR EXCEPT ![Bank(Mode)] = Merge(@, val, mask)]
    /\ UNCHANGED <<cpsr, r0, r8, R13, R14, pc, hivecs>>

SetHighVectors(b) ==
    /\ hivecs' = b
    /\ UNCHANGED <<cpsr, r0, r8, R13, R14, SPSR, pc>>

Intercepted(imm) ==
    /\ Semihosting
    /\ \/ imm = "arm_magic" /\ cpsr.t = 0
       \/ imm = "thumb_magic" /\ cpsr.t = 1
    /\ Mode # "usr"

SemihostCall(imm) ==
    /\ Intercepted(imm)
    /\ r0' = HostResult
    /\ UNCHANGED <<cpsr, r8, R13, R14, SPSR, pc, hivecs>>

TakeException(x, imm) ==
    /\ x = "SWI" => ~Intercepted(imm)
    /\ x = "IRQ" => cpsr.i = 0
    /\ x = "FIQ" => cpsr.f = 0
    /\ LET e == Entry(x, cpsr.t)
           b == Bank(e.m)
       IN /\ pc + e.off <= MaxPC
          /\ SPSR' = [SPSR EXCEPT ![b] = cpsr]
          /\ R14' = [R14 EXCEPT ![b] = pc + e.off]
          /\ cpsr' = [cpsr EXCEPT !.m = e.m, !.t = 0,
                                  !.i = IF e.i = 1 THEN 1 ELSE @,
                                  !.f = IF e.f = 1 THEN 1 ELSE @,
                                  !.a = IF e.a = 1 THEN 1 ELSE @]
          /\ pc' = IF hivecs THEN HighBase + e.vec ELSE e.vec
    /\ UNCHANGED <<r0, r8, R13, hivecs>>

\* MOVS pc, lr: restore the CPSR from the SPSR and return.
ExceptionReturn ==
    /\ HasSpsr(Mode)
    /\ cpsr' = SPSR[Bank(Mode)]
    /\ pc' = R14[Bank(Mode)]
    /\ UNCHANGED <<r0, r8, R13, R14, SPSR, hivecs>>

\* The masks an MSR may carry: unions of the byte fields f (flags), x (A)
\* and c (mode and interrupt masks; T is never written by MSR).  User
\* mode writes the flags only.
MsrMasks(m) ==
    LET byte == {{"nzcv", "q"}, {"a"}, {"m", "i", "f"}}
        all == {UNION s : s \in (SUBSET byte) \ {{}}}
    IN IF m = "usr" THEN {{"nzcv", "q"}} ELSE all

Next ==
    \/ \E nz \in AluNZ, c, v \in Bits : SetFlags(nz, c, v)
    \/ SetQ
    \/ \E r \in {0, 8, 13, 14}, v \in Vals : WriteReg(r, v)
    \/ \E p \in PCs, t \in Bits : BranchTo(p, t)
    \/ \E val \in MsrVals, mask \in MsrMasks(Mode) : Msr(val, mask)
    \/ \E val \in SpsrVals, mask \in MsrMasks(Mode) : MsrSpsr(val, mask)
    \/ \E b \in BOOLEAN : SetHighVectors(b)
    \/ \E imm \in SwiImms : SemihostCall(imm)
    \/ \E x \in Raised, imm \in SwiImms : TakeException(x, imm)
    \/ ExceptionReturn

Spec == Init /\ [][Next]_vars

=============================================================================
