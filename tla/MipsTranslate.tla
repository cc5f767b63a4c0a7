---------------------------- MODULE MipsTranslate ----------------------------
(***************************************************************************)
(* The MIPS block translator of src/target-mips/translate.c together with  *)
(* the execution of the blocks it emits.                                   *)
(*                                                                         *)
(* Translation (gen_intermediate_code_internal) walks the code from        *)
(* env->PC, one decode_opc per step, keeping a DisasContext (ctx): the     *)
(* branch state ctx.hflags, the branch target, and what has already been   *)
(* written back to env (saved_pc, saved_hflags), and emits micro-ops.      *)
(* The emitted block is then executed op by op, grouped per guest          *)
(* instruction as the search_pc tables (gen_opc_pc, gen_opc_hflags)        *)
(* group them.  Only the micro-ops that touch the state the control flow   *)
(* depends on are kept: env->PC, the branch bits of env->hflags,           *)
(* env->btarget, env->bcond, the host temporary T2 that carries a branch   *)
(* condition or jump-register value across the delay slot, r31 for the     *)
(* linking branches, the FPU-usable bit of env->hflags (MIPS_HFLAG_FPU,   *)
(* Status.CU1), and the exception taken.                                   *)
(*                                                                         *)
(* T2 is a host register: nothing preserves it from one block to the       *)
(* next, so it holds an arbitrary value when a block starts.               *)
(***************************************************************************)
EXTENDS Naturals, Sequences

CONSTANTS
    MemSize, Vector, Insns, JrTargets, BpCandidates, SingleStep,
    Programs,      \* the guest programs memory may hold: Aligned -> Insns
    PageSize,      \* TARGET_PAGE_SIZE, in bytes
    MaxInsns,      \* instructions that fit the op buffer (gen_opc_end)
    Undef          \* a value no address or condition takes

Addrs   == 0 .. MemSize - 1
Aligned == {a \in Addrs : a % 4 = 0}
ASSUME Programs \subseteq [Aligned -> Insns]
NextPC(a) == (a + 4) % MemSize
BranchKinds == {"b", "bal", "beq", "beql", "jr", "bnever", "bnelnever",
                "bltzalnever"}
FpBranchKinds == {"bc1", "bc1l"}
Flags == {"none", "B", "BC", "BL", "BR"}       \* MIPS_HFLAG_BMASK values
T2Values == {0, 1} \cup JrTargets
NoExc == [cause |-> "none", pc |-> 0, bd |-> FALSE]
Causes == {"none", "RI", "Ov", "Tr", "TLBL", "CpU", "AdEL", "Debug"}

VARIABLES
    code,   \* guest code: aligned address -> instruction
    env,    \* [PC, hflags, btarget, bcond] of CPUMIPSState, and fpu: the
            \* MIPS_HFLAG_FPU bit of env->hflags
    T2,     \* host temporary T2
    link,   \* r31
    exc,    \* last exception or debug trap delivered
    bps,    \* env->breakpoints
    phase,  \* "idle" | "translate" | "execute"
    ctx,    \* DisasContext of the block being translated
    tb,     \* emitted block: sequence of op groups
    next    \* index of the next group to execute

vars == <<code, env, T2, link, exc, bps, phase, ctx, tb, next>>

Op(name, a, b) == [op |-> name, a |-> a, b |-> b]
Op1(name, a) == Op(name, a, 0)

NoCtx == [pc |-> 0, saved_pc |-> Undef, hflags |-> "none",
          saved_hflags |-> "none", bstate |-> "NONE", btarget |-> Undef,
          n |-> 0, brk |-> FALSE, done |-> FALSE, fpu |-> FALSE]

TypeOK ==
    /\ code \in [Aligned -> Insns]
    /\ env \in [PC : Addrs, hflags : Flags, btarget : Addrs \cup T2Values,
                bcond : T2Values, fpu : BOOLEAN]
    /\ T2 \in T2Values
    /\ link \in Addrs
    /\ exc \in [cause : Causes,
                pc : Addrs, bd : BOOLEAN]
    /\ bps \subseteq BpCandidates
    /\ phase \in {"idle", "translate", "execute"}
    /\ ctx.hflags \in Flags /\ ctx.saved_hflags \in Flags
    /\ ctx.bstate \in {"NONE", "STOP", "BRANCH", "EXCP"}
    /\ ctx.n \in 0 .. MaxInsns
    /\ next \in 0 .. Len(tb)

-----------------------------------------------------------------------------
(* Translation.  A generator state g = [ctx, ops] is threaded through the  *)
(* helpers, as the C code threads ctx and gen_opc_ptr.                     *)

Emit(g, o) == [g EXCEPT !.ops = Append(@, o)]

\* gen_goto_tb: write dest to env->PC and leave the block, chained to the
\* next block when dest is on the same page (the chaining itself is not
\* visible here).
GotoTb(dest) == Op1("goto", dest)

\* Fault variant of SaveCpuState: a pending jump-register writes back the
\* translation-time ctx.btarget instead of the run-time target in T2.
SaveCpuStateBregAsImm(g, doSavePc) ==
    LET c == g.ctx
        pcOps == IF doSavePc /\ c.pc # c.saved_pc
                 THEN <<Op1("save_pc", c.pc)>> ELSE <<>>
        branchOps == IF c.hflags = "BC"
                     THEN <<Op1("save_bcond", 0), Op1("save_btarget", c.btarget)>>
                     ELSE IF c.hflags = "none" THEN <<>>
                     ELSE <<Op1("save_btarget", c.btarget)>>
        hfOps == IF c.hflags # c.saved_hflags
                 THEN <<Op1("save_state", c.hflags)>> \o branchOps
                 ELSE <<>>
    IN [ctx |-> [c EXCEPT !.saved_pc = IF doSavePc THEN c.pc ELSE @,
                          !.saved_hflags = c.hflags],
        ops |-> g.ops \o pcOps \o hfOps]

\* save_cpu_state: write back what env lacks; the branch target and
\* condition go with a change of hflags only.
SaveCpuState(g, doSavePc) ==
    LET c == g.ctx
        pcOps == IF doSavePc /\ c.pc # c.saved_pc
                 THEN <<Op1("save_pc", c.pc)>> ELSE <<>>
        branchOps == CASE c.hflags = "BR" -> <<Op1("save_breg_target", 0)>>
                       [] c.hflags = "BC" -> <<Op1("save_bcond", 0),
                                               Op1("save_btarget", c.btarget)>>
                       [] c.hflags \in {"BL", "B"} ->
                                              <<Op1("save_btarget", c.btarget)>>
                       [] OTHER -> <<>>
        hfOps == IF c.hflags # c.saved_hflags
                 THEN <<Op1("save_state", c.hflags)>> \o branchOps
                 ELSE <<>>
    IN [ctx |-> [c EXCEPT !.saved_pc = IF doSavePc THEN c.pc ELSE @,
                          !.saved_hflags = c.hflags],
        ops |-> g.ops \o pcOps \o hfOps]

\* Fault variant of RestoreOps: only a conditional branch reloads bcond,
\* as if the branch-likely condition needed no restore.
RestoreOpsNoLikely(hf) ==
    CASE hf = "BR" -> <<Op1("restore_breg_target", 0)>>
      [] hf = "BC" -> <<Op1("restore_bcond", 0)>>
      [] OTHER -> <<>>

\* restore_cpu_state, at the start of a block.
RestoreOps(hf) ==
    CASE hf = "BR" -> <<Op1("restore_breg_target", 0)>>
      [] hf \in {"BC", "BL"} -> <<Op1("restore_bcond", 0)>>
      [] OTHER -> <<>>

\* generate_exception / generate_exception_err
GenerateException(g, cause) ==
    LET s == SaveCpuState(g, TRUE)
    IN [Emit(s, Op1("raise", cause)) EXCEPT !.ctx.bstate = "EXCP"]

\* ADD, SUB, ADDI of gen_arith / gen_arith_imm: the overflow check raises
\* from inside the block, so the state is written back first.
GenArith(g) == Emit(SaveCpuState(g, TRUE), Op1("raise_maybe", "Ov"))

\* gen_ldst: loads and stores write nothing back.  A fault is taken with
\* the pc and branch state that re-translation finds for the instruction
\* (gen_opc_pc, gen_opc_hflags).
GenLdst(g) == Emit(g, Op("ldst", g.ctx.pc, g.ctx.hflags))

\* gen_trap: conditional trap, then the block stops.
GenTrap(g) ==
    [Emit(SaveCpuState(g, TRUE), Op1("raise_maybe", "Tr"))
        EXCEPT !.ctx.bstate = "STOP"]

\* The mtc0 to Status of gen_mtc0: op_mtc0_status recomputes hflags, the
\* FPU bit included, so the block is left with pc + 4 written back.
GenMtc0Status(g) ==
    [Emit(Emit(g, Op1("mtc0_status", 0)), Op1("save_pc", NextPC(g.ctx.pc)))
        EXCEPT !.ctx.bstate = "EXCP"]

\* The OPC_CP0 prefix of decode_opc (save_cpu_state, cp0_enabled) and the
\* gen_cp0 / gen_mtc0 cases that end the block: DI, EI and the mtc0
\* writes that stop translation (BS_STOP), and mtc0 Status, which writes
\* back pc + 4 itself and leaves the block (BS_EXCP).
GenCp0(g, kind) ==
    LET s == Emit(SaveCpuState(g, TRUE), Op1("raise_maybe", "CpU"))
    IN IF kind = "stop" THEN [s EXCEPT !.ctx.bstate = "STOP"]
       ELSE GenMtc0Status(s)

\* gen_mfc0: a register and select the CPU implements is read into T0
\* (the value is not modelled); any other one goes to die and raises RI.
GenMfc0(g, implemented) ==
    IF implemented THEN g ELSE GenerateException(g, "RI")

\* The OPC_CP0 prefix of decode_opc and the gen_cp0 cases that go on with
\* the block: MFC0 (rt = 0 is a NOP before gen_mfc0 is reached) and the
\* TLB operations the MMU provides (env->do_tlbwi and the others), class
\* "cp0"; MFC0 of a register the CPU lacks, or a TLB operation the MMU
\* does not provide, class "cp0ri", raises RI after the CpU check.
GenCp0Op(g, kind) ==
    GenMfc0(Emit(SaveCpuState(g, TRUE), Op1("raise_maybe", "CpU")),
            kind = "cp0")

\* check_cp1_enabled: decided on the translation-time hflags.
CheckCp1Enabled(g) ==
    IF g.ctx.fpu THEN g ELSE GenerateException(g, "CpU")

\* The OPC_CP1 case of decode_opc for the moves of gen_cp1 and the
\* arithmetic of gen_farith: after save_cpu_state and check_cp1_enabled,
\* class "fpu" goes on with the block (the FPU data is not modelled);
\* class "fpuri" is an opcode or format gen_cp1 or gen_farith rejects,
\* or a 64-bit operation check_cp1_64bitmode rejects, and raises RI.
GenCp1(g, kind) ==
    LET s == CheckCp1Enabled(SaveCpuState(g, TRUE))
    IN IF kind = "fpu" THEN s ELSE GenerateException(s, "RI")

\* gen_compute_branch1, reached from the OPC_CP1 case after save_cpu_state
\* and check_cp1_enabled: it ORs its branch bit into ctx.hflags with no
\* test for a branch already pending; decode_opc then returns without
\* branch completion.  With a branch pending the OR is not a single
\* branch kind ("nested"; the checked programs never reach it).
ComputeBranch1(g, i) ==
    LET h == IF i.k = "bc1" THEN "BC" ELSE "BL"
        s == Emit(g, Op1("set_bcond", 0))
        t == IF i.k = "bc1l" THEN Emit(s, Op1("save_bcond", 0)) ELSE s
    IN [t EXCEPT !.ctx.hflags = IF g.ctx.hflags = "none" THEN h ELSE "nested",
                 !.ctx.btarget = i.t]

DecodeCp1Branch(g, i) ==
    ComputeBranch1(CheckCp1Enabled(SaveCpuState(g, TRUE)), i)

\* The non-branch instruction classes of decode_opc.
DecodeBody(g, i) ==
    CASE i.k = "alu" -> g
      [] i.k = "addo" -> GenArith(g)
      [] i.k = "ldst" -> GenLdst(g)
      [] i.k = "trap" -> GenTrap(g)
      [] i.k = "ri" -> GenerateException(g, "RI")
      [] i.k \in {"stop", "status"} -> GenCp0(g, i.k)
      [] i.k \in {"cp0", "cp0ri"} -> GenCp0Op(g, i.k)
      [] i.k \in {"fpu", "fpuri"} -> GenCp1(g, i.k)

\* gen_compute_branch
ComputeBranch(g, i) ==
    LET pc == g.ctx.pc
        SetB(h, gg) == [gg EXCEPT !.ctx.hflags = h, !.ctx.btarget = i.t]
        Link(gg) == Emit(gg, Op1("link", NextPC(NextPC(pc))))
    IN IF g.ctx.hflags # "none"
       THEN GenerateException(g, "RI")
       ELSE CASE i.k = "b" -> SetB("B", g)
              [] i.k = "bal" -> Link(SetB("B", g))
              [] i.k = "beq" -> SetB("BC", Emit(g, Op1("set_bcond", 0)))
              [] i.k = "beql" ->
                    SetB("BL", Emit(Emit(g, Op1("set_bcond", 0)),
                                    Op1("save_bcond", 0)))
              [] i.k = "jr" ->
                    [Emit(g, Op1("load_T2", 0))
                        EXCEPT !.ctx.hflags = "BR", !.ctx.btarget = Undef]
              [] i.k = "bnever" -> g
              [] i.k = "bnelnever" -> [g EXCEPT !.ctx.pc = NextPC(@)]
              [] i.k = "bltzalnever" -> Link(g)

\* Branch completion at the end of decode_opc, after a delay slot.
Completion(g) ==
    IF g.ctx.hflags = "none" THEN g
    ELSE LET hf == g.ctx.hflags
             s == SaveCpuState([g EXCEPT !.ctx.hflags = "none",
                                         !.ctx.bstate = "BRANCH"], FALSE)
             c == s.ctx
         IN Emit(s, CASE hf \in {"B", "BL"} -> GotoTb(c.btarget)
                      [] hf = "BC" -> Op("cond_goto", NextPC(c.pc), c.btarget)
                      [] hf = "BR" -> Op1("breg", 0))

\* decode_opc
DecodeOpc(g, i) ==
    IF g.ctx.pc % 4 # 0
    THEN GenerateException(g, "AdEL")
    ELSE LET g1 == IF g.ctx.hflags = "BL"
                   THEN Emit(g, Op1("skip_if_not_T2", NextPC(g.ctx.pc)))
                   ELSE g
         IN CASE i.k \in BranchKinds -> ComputeBranch(g1, i)
              [] i.k \in FpBranchKinds -> DecodeCp1Branch(g1, i)
              [] OTHER -> Completion(DecodeBody(g1, i))

\* An op group and what the search_pc tables record for it.
Group(c, ops, isInsn) ==
    [pc |-> c.pc, hf |-> c.hflags, bt |-> c.btarget, ops |-> ops,
     insn |-> isInsn]

\* Fault variant of EpilogueOps: single-step traps without writing back
\* the pc of the next instruction.
EpilogueOpsNoSave(c) ==
    IF SingleStep THEN <<Op1("debug", 0)>>
    ELSE CASE c.bstate = "STOP" -> <<GotoTb(c.pc)>>
           [] c.bstate = "NONE" ->
                 SaveCpuState([ctx |-> c, ops |-> <<>>], FALSE).ops
                    \o <<GotoTb(c.pc)>>
           [] c.bstate = "EXCP" -> <<Op1("exit", 0)>>
           [] OTHER -> <<>>

\* The epilogue after the translation loop.
EpilogueOps(c) ==
    IF SingleStep
    THEN SaveCpuState([ctx |-> c, ops |-> <<>>], c.bstate = "NONE").ops
            \o <<Op1("debug", 0)>>
    ELSE CASE c.bstate = "STOP" -> <<GotoTb(c.pc)>>
           [] c.bstate = "NONE" ->
                 SaveCpuState([ctx |-> c, ops |-> <<>>], FALSE).ops
                    \o <<GotoTb(c.pc)>>
           [] c.bstate = "EXCP" -> <<Op1("exit", 0)>>
           [] OTHER -> <<>>

LoopContinues ==
    ctx.bstate = "NONE" /\ ctx.n < MaxInsns /\ ~ctx.brk

StartBlock ==
    /\ phase = "idle"
    /\ phase' = "translate"
    /\ ctx' = [NoCtx EXCEPT !.pc = env.PC, !.hflags = env.hflags,
                            !.saved_hflags = env.hflags, !.fpu = env.fpu,
                            !.btarget = IF env.hflags \in {"B", "BC", "BL"}
                                        THEN env.btarget ELSE Undef]
    /\ tb' = <<Group(ctx', RestoreOps(env.hflags), FALSE)>>
    /\ T2' \in T2Values
    /\ UNCHANGED <<code, env, link, exc, bps, next>>

TranslateBreakpoint ==
    /\ phase = "translate" /\ LoopContinues
    /\ ctx.pc \in bps
    /\ LET s == SaveCpuState([ctx |-> ctx, ops |-> <<>>], TRUE)
       IN /\ tb' = Append(tb, Group(ctx, Append(s.ops, Op1("debug", 0)), FALSE))
          /\ ctx' = [s.ctx EXCEPT !.bstate = "BRANCH", !.done = TRUE]
    /\ UNCHANGED <<code, env, T2, link, exc, bps, phase, next>>

TranslateInsn ==
    /\ phase = "translate" /\ LoopContinues
    /\ ctx.pc \notin bps
    /\ LET i == IF ctx.pc \in Aligned THEN code[ctx.pc] ELSE Undef
           g == DecodeOpc([ctx |-> ctx, ops |-> <<>>], i)
           c == [g.ctx EXCEPT !.pc = NextPC(@), !.n = @ + 1]
       IN /\ tb' = Append(tb, Group(ctx, g.ops, TRUE))
          /\ ctx' = [c EXCEPT !.brk = SingleStep \/ c.pc % PageSize = 0]
    /\ UNCHANGED <<code, env, T2, link, exc, bps, phase, next>>

EndTranslation ==
    /\ phase = "translate" /\ ~LoopContinues
    /\ tb' = IF ctx.done THEN tb ELSE Append(tb, Group(ctx, EpilogueOps(ctx), FALSE))
    /\ phase' = "execute"
    /\ next' = 1
    /\ UNCHANGED <<code, env, T2, link, exc, bps, ctx>>

-----------------------------------------------------------------------------
(* Execution of the emitted ops.  A state st of the run carries the        *)
(* machine state and whether the block has been left (exit_tb, a goto_tb,  *)
(* or an exception's longjmp).                                             *)

\* An exception: do_interrupt records where it happened and whether in a
\* delay slot, clears the branch bits and continues at the vector.
RaiseIn(st, cause) ==
    [st EXCEPT !.exc = [cause |-> cause, pc |-> st.env.PC,
                        bd |-> st.env.hflags # "none"],
               !.env.PC = Vector, !.env.hflags = "none", !.out = TRUE]

Leave(st, dest) == [st EXCEPT !.env.PC = dest, !.out = TRUE]

OpStep(o, st) ==
    CASE o.op = "save_pc" -> {[st EXCEPT !.env.PC = o.a]}
      [] o.op = "save_state" -> {[st EXCEPT !.env.hflags = o.a]}
      [] o.op = "save_btarget" -> {[st EXCEPT !.env.btarget = o.a]}
      [] o.op = "save_bcond" -> {[st EXCEPT !.env.bcond = st.T2]}
      [] o.op = "save_breg_target" -> {[st EXCEPT !.env.btarget = st.T2]}
      [] o.op = "restore_bcond" -> {[st EXCEPT !.T2 = st.env.bcond]}
      [] o.op = "restore_breg_target" -> {[st EXCEPT !.T2 = st.env.btarget]}
      [] o.op = "set_bcond" -> {[st EXCEPT !.T2 = b] : b \in {0, 1}}
      [] o.op = "load_T2" -> {[st EXCEPT !.T2 = t] : t \in JrTargets}
      [] o.op = "link" -> {[st EXCEPT !.link = o.a]}
      [] o.op = "mtc0_status" -> {[st EXCEPT !.env.fpu = f] : f \in BOOLEAN}
      [] o.op = "raise" -> {RaiseIn(st, o.a)}
      [] o.op = "raise_maybe" -> {st, RaiseIn(st, o.a)}
      [] o.op = "ldst" ->
            {st, RaiseIn([st EXCEPT !.env.PC = o.a, !.env.hflags = o.b], "TLBL")}
      [] o.op = "skip_if_not_T2" ->
            IF st.T2 # 0 THEN {st}
            ELSE {Leave([st EXCEPT !.env.hflags = "none"], o.a)}
      [] o.op = "goto" -> {Leave(st, o.a)}
      [] o.op = "cond_goto" -> {Leave(st, IF st.T2 # 0 THEN o.b ELSE o.a)}
      [] o.op = "breg" -> {Leave(st, st.T2)}
      [] o.op = "debug" ->
            {[st EXCEPT !.exc = [cause |-> "Debug", pc |-> st.env.PC,
                                 bd |-> st.env.hflags # "none"],
                        !.out = TRUE]}
      [] o.op = "exit" -> {[st EXCEPT !.out = TRUE]}

RECURSIVE RunOps(_, _)
RunOps(ops, st) ==
    IF ops = <<>> \/ st.out THEN {st}
    ELSE UNION {RunOps(Tail(ops), s) : s \in OpStep(Head(ops), st)}

ExecGroup ==
    /\ phase = "execute"
    /\ \E st \in RunOps(tb[next].ops, [env |-> env, T2 |-> T2, link |-> link,
                                       exc |-> exc, out |-> FALSE]) :
          /\ env' = st.env /\ T2' = st.T2 /\ link' = st.link /\ exc' = st.exc
          /\ IF st.out \/ next = Len(tb)
             THEN phase' = "idle" /\ next' = 0 /\ tb' = <<>> /\ ctx' = NoCtx
             ELSE next' = next + 1 /\ UNCHANGED <<phase, tb, ctx>>
    /\ UNCHANGED <<code, bps>>

\* The debugger inserts or removes a breakpoint while the CPU is stopped.
SetBreakpoint(a) ==
    /\ phase = "idle"
    /\ bps' = bps \cup {a}
    /\ UNCHANGED <<code, env, T2, link, exc, phase, ctx, tb, next>>

ClearBreakpoint(a) ==
    /\ phase = "idle"
    /\ bps' = bps \ {a}
    /\ UNCHANGED <<code, env, T2, link, exc, phase, ctx, tb, next>>

\* cpu_reset: env zeroed, PC at the reset vector.
Init ==
    /\ code \in Programs
    /\ env = [PC |-> Vector, hflags |-> "none", btarget |-> 0, bcond |-> 0,
              fpu |-> FALSE]
    /\ T2 \in T2Values
    /\ link = 0
    /\ exc = NoExc
    /\ bps = {}
    /\ phase = "idle"
    /\ ctx = NoCtx
    /\ tb = <<>>
    /\ next = 0

Next ==
    \/ StartBlock \/ TranslateBreakpoint \/ TranslateInsn \/ EndTranslation
    \/ ExecGroup
    \/ \E a \in BpCandidates : SetBreakpoint(a) \/ ClearBreakpoint(a)

Spec == Init /\ [][Next]_vars

-----------------------------------------------------------------------------
(* Refinement.  Between blocks, and before the first group of a block has  *)
(* run, the architectural state is env.  Inside a block it is what the     *)
(* translator recorded for the next group, with the branch condition or    *)
(* jump-register value held in T2 (what cpu_restore_state recovers).       *)

FromEnv == phase # "execute" \/ next = 1

PendOf(hf, bt, cond, reg) ==
    CASE hf = "none" -> [k |-> "none", t |-> 0, c |-> FALSE]
      [] hf = "B" -> [k |-> "B", t |-> bt, c |-> TRUE]
      [] hf = "BR" -> [k |-> "BR", t |-> reg, c |-> TRUE]
      [] OTHER -> [k |-> hf, t |-> bt, c |-> cond # 0]

AbsPc == IF FromEnv THEN env.PC ELSE tb[next].pc

AbsPend ==
    IF FromEnv THEN PendOf(env.hflags, env.btarget, env.bcond, env.btarget)
    ELSE PendOf(tb[next].hf, tb[next].bt, T2, T2)

Isa == INSTANCE MipsIsa WITH pc <- AbsPc, pend <- AbsPend, fpu <- env.fpu

\* Executing translated blocks is executing the program one instruction
\* at a time with MIPS delay-slot semantics (MipsIsa), across every way a
\* block can end: page boundary, full op buffer, breakpoint, exception,
\* stop, and a branch whose delay slot starts the next block.
IsaRefinement == Isa!Spec

\* A block holds the instructions of one page only: the translation loop
\* of gen_intermediate_code_internal ends the block when ctx.pc reaches a
\* page boundary.
BlockWithinPage ==
    \A i \in 1 .. Len(tb) :
        tb[i].insn => tb[i].pc \div PageSize = tb[1].pc \div PageSize

=============================================================================
