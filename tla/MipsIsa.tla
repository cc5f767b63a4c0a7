------------------------------ MODULE MipsIsa ------------------------------
(***************************************************************************)
(* Abstract specification: what executing MIPS code one instruction at a   *)
(* time means, for the instruction classes the block translator of         *)
(* src/target-mips/translate.c tells apart.  It is the contract the        *)
(* translate-then-execute pipeline (module MipsTranslate) must implement:  *)
(*                                                                         *)
(*  - a branch or jump does not change pc at once; it leaves a pending     *)
(*    branch (kind B, BC, BL or BR, named after the translator's hflags),  *)
(*    and the next instruction, its delay slot, runs before the jump;      *)
(*  - a branch-likely (BL) whose condition is false nullifies its slot;    *)
(*  - a branch in a delay slot is a reserved instruction;                  *)
(*  - an exception records the pc of the faulting instruction and whether  *)
(*    it sat in a delay slot (bd), then continues at the vector;           *)
(*  - coprocessor 1 (the FPU) is usable only while Status.CU1 is set;     *)
(*    cpu_reset clears it and an mtc0 to Status may set or clear it.  An   *)
(*    FP instruction while it is clear raises CpU; an FP branch is a       *)
(*    conditional or likely branch like any other;                        *)
(*  - a debug trap (breakpoint or single step) records the same and        *)
(*    changes nothing else: the debugger resumes where execution stopped.  *)
(*                                                                         *)
(* Register contents are abstracted away: a branch condition and a jump    *)
(* register are chosen when the branch executes.                           *)
(***************************************************************************)
EXTENDS Naturals

CONSTANTS
    MemSize,       \* bytes of the (wrapping) address space holding code
    Vector,        \* exception vector
    Insns,         \* instruction records [k |-> kind, t |-> static target]
    JrTargets,     \* values a jump register may hold
    BpCandidates,  \* addresses where the debugger may set breakpoints
    SingleStep     \* the debugger single-steps

Addrs   == 0 .. MemSize - 1
Aligned == {a \in Addrs : a % 4 = 0}
NextPC(a) == (a + 4) % MemSize

\* Instruction classes (field k of an instruction record).
PlainKinds  == {"alu", "addo", "ldst", "trap", "ri", "stop", "status", "cp0",
                "cp0ri", "fpu", "fpuri"}
BranchKinds == {"b", "bal", "beq", "beql", "jr", "bnever", "bnelnever",
                "bltzalnever"}
FpBranchKinds == {"bc1", "bc1l"}
FpKinds == {"fpu", "fpuri"} \cup FpBranchKinds

Causes == {"none", "RI", "Ov", "Tr", "TLBL", "CpU", "AdEL", "Debug"}

NoBranch == [k |-> "none", t |-> 0, c |-> FALSE]
NoExc    == [cause |-> "none", pc |-> 0, bd |-> FALSE]
Pending  == [k : {"none", "B", "BC", "BL", "BR"}, t : Addrs, c : BOOLEAN]

VARIABLES
    code,   \* the program: aligned address -> instruction
    pc,     \* address of the next instruction
    pend,   \* branch waiting for its delay slot
    link,   \* r31, written by the linking branches
    exc,    \* last exception or debug trap taken
    bps,    \* breakpoints set by the debugger
    fpu     \* Status.CU1: coprocessor 1 usable

vars == <<code, pc, pend, link, exc, bps, fpu>>

TypeOK ==
    /\ code \in [Aligned -> Insns]
    /\ pc \in Addrs
    /\ pend \in Pending
    /\ link \in Addrs
    /\ exc \in [cause : Causes,
                pc : Addrs, bd : BOOLEAN]
    /\ bps \subseteq BpCandidates
    /\ fpu \in BOOLEAN

Init ==
    /\ code \in [Aligned -> Insns]
    /\ pc = Vector
    /\ pend = NoBranch
    /\ link = 0
    /\ exc = NoExc
    /\ bps = {}
    /\ fpu = FALSE

InDelaySlot == pend.k # "none"
Insn == code[pc]

\* The instruction at pc executes (it is aligned and not nullified).
Issues == pc \in Aligned /\ ~(pend.k = "BL" /\ ~pend.c)

\* Completion of a non-branch instruction: fall through, or take the
\* branch whose delay slot it was.
Commit ==
    /\ pc' = IF InDelaySlot /\ pend.c THEN pend.t ELSE NextPC(pc)
    /\ pend' = NoBranch

Raise(cause) ==
    /\ exc' = [cause |-> cause, pc |-> pc, bd |-> InDelaySlot]
    /\ pc' = Vector
    /\ pend' = NoBranch
    /\ UNCHANGED <<code, link, bps, fpu>>

AddressError ==
    /\ pc \notin Aligned
    /\ Raise("AdEL")

Nullify ==
    /\ pc \in Aligned
    /\ pend.k = "BL" /\ ~pend.c
    /\ pc' = NextPC(pc)
    /\ pend' = NoBranch
    /\ UNCHANGED <<code, link, exc, bps, fpu>>

Retire ==
    /\ Issues
    /\ \/ Insn.k \in {"alu", "addo", "ldst", "trap", "stop", "cp0"}
       \/ Insn.k = "fpu" /\ fpu
    /\ Commit
    /\ UNCHANGED <<code, link, exc, bps, fpu>>

\* An mtc0 to Status: the new CU1 is whatever the guest wrote.
StatusWrite ==
    /\ Issues
    /\ Insn.k = "status"
    /\ Commit
    /\ fpu' \in BOOLEAN
    /\ UNCHANGED <<code, link, exc, bps>>

Overflow ==
    /\ Issues
    /\ Insn.k = "addo"
    /\ Raise("Ov")

MemFault ==
    /\ Issues
    /\ Insn.k = "ldst"
    /\ Raise("TLBL")

TrapTaken ==
    /\ Issues
    /\ Insn.k = "trap"
    /\ Raise("Tr")

CopUnusable ==
    /\ Issues
    /\ \/ Insn.k \in {"stop", "status", "cp0", "cp0ri"}
       \/ Insn.k \in FpKinds /\ ~fpu
    /\ Raise("CpU")

Reserved ==
    /\ Issues
    /\ \/ Insn.k \in {"ri", "cp0ri"}
       \/ Insn.k \in BranchKinds /\ InDelaySlot
       \/ Insn.k = "fpuri" /\ fpu
       \/ Insn.k \in FpBranchKinds /\ fpu /\ InDelaySlot
    /\ Raise("RI")

\* A branch whose outcome needs its delay slot.
Branch ==
    /\ Issues
    /\ ~InDelaySlot
    /\ \/ Insn.k = "b" /\ pend' = [k |-> "B", t |-> Insn.t, c |-> TRUE]
                       /\ UNCHANGED link
       \/ Insn.k = "bal" /\ pend' = [k |-> "B", t |-> Insn.t, c |-> TRUE]
                         /\ link' = NextPC(NextPC(pc))
       \/ Insn.k = "beq" /\ \E c \in BOOLEAN :
                              pend' = [k |-> "BC", t |-> Insn.t, c |-> c]
                         /\ UNCHANGED link
       \/ Insn.k = "beql" /\ \E c \in BOOLEAN :
                               pend' = [k |-> "BL", t |-> Insn.t, c |-> c]
                          /\ UNCHANGED link
       \/ Insn.k = "jr" /\ \E t \in JrTargets :
                             pend' = [k |-> "BR", t |-> t, c |-> TRUE]
                        /\ UNCHANGED link
    /\ pc' = NextPC(pc)
    /\ UNCHANGED <<code, exc, bps, fpu>>

\* BC1F/BC1T and BC1FL/BC1TL: the condition is an FPU condition code.
FpBranch ==
    /\ Issues
    /\ fpu /\ ~InDelaySlot
    /\ \E c \in BOOLEAN :
          \/ Insn.k = "bc1" /\ pend' = [k |-> "BC", t |-> Insn.t, c |-> c]
          \/ Insn.k = "bc1l" /\ pend' = [k |-> "BL", t |-> Insn.t, c |-> c]
    /\ pc' = NextPC(pc)
    /\ UNCHANGED <<code, link, exc, bps, fpu>>

\* A branch known never to be taken: a no-op, a link, or a skipped slot.
NeverBranch ==
    /\ Issues
    /\ ~InDelaySlot
    /\ \/ Insn.k = "bnever" /\ pc' = NextPC(pc) /\ UNCHANGED link
       \/ Insn.k = "bltzalnever" /\ pc' = NextPC(pc)
                                 /\ link' = NextPC(NextPC(pc))
       \/ Insn.k = "bnelnever" /\ pc' = NextPC(NextPC(pc))
                               /\ UNCHANGED link
    /\ UNCHANGED <<code, pend, exc, bps, fpu>>

DebugTrap ==
    /\ pc \in bps \/ SingleStep
    /\ exc' = [cause |-> "Debug", pc |-> pc, bd |-> InDelaySlot]
    /\ UNCHANGED <<code, pc, pend, link, bps, fpu>>

SetBreakpoint(a) ==
    /\ bps' = bps \cup {a}
    /\ UNCHANGED <<code, pc, pend, link, exc, fpu>>

ClearBreakpoint(a) ==
    /\ bps' = bps \ {a}
    /\ UNCHANGED <<code, pc, pend, link, exc, fpu>>

Next ==
    \/ AddressError \/ Nullify \/ Retire \/ StatusWrite \/ Overflow \/ MemFault
    \/ TrapTaken \/ CopUnusable
    \/ Reserved \/ Branch \/ FpBranch \/ NeverBranch \/ DebugTrap
    \/ \E a \in BpCandidates : SetBreakpoint(a) \/ ClearBreakpoint(a)

Spec == Init /\ [][Next]_vars

=============================================================================
