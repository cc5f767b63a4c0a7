----------------------------- MODULE ArmCp15Tlb -----------------------------
(***************************************************************************)
(* The cp15 system-control registers of src/target-arm/helper.c           *)
(* (helper_set_cp15, helper_get_cp15) composed with address translation   *)
(* (ArmMmu) and the soft TLB that caches its results: a guest access hits *)
(* a TLB entry, or misses and calls cpu_arm_handle_mmu_fault, which fills *)
(* the entry or reports the fault in c5/c6 and raises an abort.           *)
(*                                                                         *)
(* The guest issues MCR writes in the order of a fixed boot program and   *)
(* MRC reads and memory accesses at any time.  The TLB (exec.c, outside   *)
(* src/) is one entry per 1KB page and privilege level; entries are only  *)
(* replaced or flushed, never evicted.                                    *)
(***************************************************************************)
EXTENDS ArmMmu, ArmModels

CONSTANTS
    Models,     \* the -cpu names the board may give cpu_arm_set_model
    Mem(_),     \* per model: physical memory holding the page tables
    Program(_), \* per model: the MCR writes, in order: [crn, op2, crm, val]
    Reads(_),   \* per model: the MRC reads the guest may issue
    Points(_),  \* per model: the <<virtual address, is_user>> pairs the
                \* guest accesses, at any access type
    RefTranslate(_, _, _, _, _)  \* architectural result of an access after
                                 \* a number of Program writes (see the MC)

ASSUME Models \subseteq ModelNames

NoEntry == [pa |-> 0, prot |-> {}, valid |-> FALSE]
NoAccess == [res |-> "none", va |-> 0, at |-> 0, is_user |-> FALSE, pa |-> 0]
NoPend == [va |-> 0, at |-> 0, is_user |-> FALSE, on |-> FALSE]
NoRead == [reg |-> [crn |-> 0, op2 |-> 0, crm |-> 0], val |-> 0, fresh |-> FALSE]

VARIABLES
    model,     \* the -cpu name, fixed when the board is built
    features,  \* env->features
    cp,     \* env->cp15 (the registers that control translation)
    tlb,    \* <<1KB page, is_user>> -> cached translation
    excp,   \* env->exception_index
    ip,     \* MCR writes of Program already executed
    rd,     \* the last MRC result, and whether no MCR came after it
    last,   \* the last memory access and its outcome
    pend    \* the access the softmmu redoes after a TLB fill, if any

vars == <<model, features, cp, tlb, excp, ip, rd, last, pend>>

Page(va) == va \div 1024
Prog == Program(model)
VAs == {p[1] : p \in Points(model)}
Keys == {<<Page(p[1]), p[2]>> : p \in Points(model)}

MPU == ArmFeature(features, "MPU")
XSCALE == ArmFeature(features, "XSCALE")

\* The cp15 registers after the memset of cpu_reset.
Cp15Zero ==
    [c0_cpuid |-> 0, c0_cachetype |-> 0, c1_sys |-> 0, c2_base |-> 0, c3 |-> 0,
     c5_data |-> 0, c5_insn |-> 0, c6_data |-> 0, c6_insn |-> 0, c13_fcse |-> 0,
     c13_context |-> 0, c6_region |-> [n \in 0 .. 7 |-> 0], c1_coproc |-> 0,
     c2_data |-> 0, c2_insn |-> 0, c9_data |-> 0, c9_insn |-> 0, c15_cpar |-> 0]

\* cpu_reset_model_id: the ID and cache type registers and the feature bits.
ResetModelId(c, f, id) ==
    LET m == CpuResetModelId(id)
    IN [cp |-> [c EXCEPT !.c0_cpuid = id, !.c0_cachetype = m.cachetype],
        features |-> f \cup m.features]

\* Mutant: the model ID read after the memset.
CpuResetIdAfterMemset(c) ==
    LET id == Cp15Zero.c0_cpuid
    IN IF id # 0 THEN ResetModelId(Cp15Zero, {}, id)
       ELSE [cp |-> Cp15Zero, features |-> {}]
\* cpu_reset: the ID is saved, the state up to breakpoints cleared, and the
\* model's registers and feature bits set again.
CpuReset(c) ==
    LET id == c.c0_cpuid
    IN IF id # 0 THEN ResetModelId(Cp15Zero, {}, id)
       ELSE [cp |-> Cp15Zero, features |-> {}]

\* cpu_arm_init (cpu_reset of a zeroed CPU) and then cpu_arm_set_model.
Init ==
    /\ model \in Models
    /\ LET s == ResetModelId(CpuReset(Cp15Zero).cp, CpuReset(Cp15Zero).features,
                             SetModel(model))
       IN cp = s.cp /\ features = s.features
    /\ tlb = [k \in Keys |-> NoEntry]
    /\ excp = "none"
    /\ ip = 0
    /\ rd = NoRead
    /\ last = NoAccess
    /\ pend = NoPend

\* helper_set_cp15: the registers after an MCR.  Writes of the ID codes,
\* cache control, TLB control and lockdown and of the reserved registers
\* change none (bad_reg only prints); tb_flush (c1 op2 2, XScale c15) drops
\* translated code, not state modelled here.
WriteCp15(c, w) ==
    LET Put(r, v) == [c EXCEPT ![r] = v]
        Ap(v) == IF MPU THEN ExtendedMpuApBits(v) ELSE v
    IN CASE w.crn = 1 /\ w.op2 = 0 /\ (~XSCALE \/ w.crm = 0) -> Put("c1_sys", w.val)
         [] w.crn = 1 /\ w.op2 = 2 -> Put("c1_coproc", w.val)
         [] w.crn = 2 /\ MPU /\ w.op2 = 0 -> Put("c2_data", w.val)
         [] w.crn = 2 /\ MPU /\ w.op2 = 1 -> Put("c2_insn", w.val)
         [] w.crn = 2 /\ ~MPU -> Put("c2_base", w.val)
         [] w.crn = 3 -> Put("c3", w.val)
         [] w.crn = 5 /\ w.op2 = 0 -> Put("c5_data", Ap(w.val))
         [] w.crn = 5 /\ w.op2 = 1 -> Put("c5_insn", Ap(w.val))
         [] w.crn = 5 /\ w.op2 = 2 /\ MPU -> Put("c5_data", w.val)
         [] w.crn = 5 /\ w.op2 = 3 /\ MPU -> Put("c5_insn", w.val)
         [] w.crn = 6 /\ MPU /\ w.crm < 8 -> [c EXCEPT !.c6_region[w.crm] = w.val]
         [] w.crn = 6 /\ ~MPU /\ w.op2 = 0 -> Put("c6_data", w.val)
         [] w.crn = 6 /\ ~MPU /\ w.op2 = 1 -> Put("c6_insn", w.val)
         [] w.crn = 9 /\ w.crm = 0 /\ w.op2 = 0 -> Put("c9_data", w.val)
         [] w.crn = 9 /\ w.crm = 0 /\ w.op2 = 1 -> Put("c9_insn", w.val)
         [] w.crn = 13 /\ w.op2 = 0 /\ MPU -> Put("c13_fcse", w.val)
         [] w.crn = 13 /\ w.op2 = 1 -> Put("c13_context", w.val)
         [] w.crn = 15 /\ XSCALE /\ w.op2 = 0 /\ w.crm = 1 ->
              Put("c15_cpar", (w.val % 2^14) + (IF Fld(w.val, 1, 1) = 1 THEN 0 ELSE 2))
         [] OTHER -> c

\* helper_set_cp15's tlb_flush calls: a c1 control write (it may switch
\* the MMU), the TLB invalidates of c8, and a change of the FCSE PID (MPU
\* cores only) or of the context ID (MMU cores only).
FlushesTlb(c, w) ==
    \/ w.crn = 1 /\ w.op2 = 0
    \/ w.crn = 8 /\ w.op2 \in {0, 1}
    \/ w.crn = 13 /\ w.op2 = 0 /\ MPU /\ c.c13_fcse # w.val
    \/ w.crn = 13 /\ w.op2 = 1 /\ ~MPU /\ c.c13_context # w.val

\* Mutant: a write of c1 (MMU enable, S and R bits) keeps the TLB.
SetCp15NoC1Flush(c, w) ==
    [cp |-> WriteCp15(c, w), flush |-> FlushesTlb(c, w) /\ w.crn # 1]

\* helper_set_cp15: the new registers, and whether the TLB is flushed.
SetCp15(c, w) == [cp |-> WriteCp15(c, w), flush |-> FlushesTlb(c, w)]

\* helper_get_cp15.  A read of c7 also clears the N and Z flags (env->NZF),
\* CPU state not modelled here.
GetCp15(c, r) ==
    CASE r.crn = 0 /\ r.op2 = 1 -> c.c0_cachetype
      [] r.crn = 0 /\ r.op2 = 2 -> 0
      [] r.crn = 0 -> c.c0_cpuid
      [] r.crn = 1 /\ r.op2 = 0 -> c.c1_sys
      [] r.crn = 1 /\ r.op2 = 1 -> IF ArmFeature(features, "AUXCR") THEN 1 ELSE 0
      [] r.crn = 1 /\ r.op2 = 2 -> c.c1_coproc
      [] r.crn = 2 /\ MPU /\ r.op2 = 0 -> c.c2_data
      [] r.crn = 2 /\ MPU /\ r.op2 = 1 -> c.c2_insn
      [] r.crn = 2 /\ ~MPU -> c.c2_base
      [] r.crn = 3 -> c.c3
      [] r.crn = 5 /\ r.op2 = 0 -> IF MPU THEN SimpleMpuApBits(c.c5_data) ELSE c.c5_data
      [] r.crn = 5 /\ r.op2 = 1 -> IF MPU THEN SimpleMpuApBits(c.c5_data) ELSE c.c5_insn
      [] r.crn = 5 /\ r.op2 = 2 /\ MPU -> c.c5_data
      [] r.crn = 5 /\ r.op2 = 3 /\ MPU -> c.c5_insn
      [] r.crn = 6 /\ MPU /\ r.crm < 8 -> c.c6_region[r.crm]
      [] r.crn = 6 /\ ~MPU /\ r.op2 = 0 -> c.c6_data
      [] r.crn = 6 /\ ~MPU /\ r.op2 = 1 -> c.c6_insn
      [] r.crn = 9 /\ r.op2 = 0 -> c.c9_data
      [] r.crn = 9 /\ r.op2 = 1 -> c.c9_insn
      [] r.crn = 13 /\ r.op2 = 0 -> c.c13_fcse
      [] r.crn = 13 /\ r.op2 = 1 -> c.c13_context
      [] r.crn = 15 /\ XSCALE /\ r.op2 = 0 /\ r.crm = 1 -> c.c15_cpar
      [] OTHER -> 0   \* TCM status, cache and TLB lockdown, bad_reg

\* MCR p15: the next write of the boot program.
Mcr ==
    /\ ~pend.on
    /\ ip < Len(Prog)
    /\ LET r == SetCp15(cp, Prog[ip + 1])
       IN /\ cp' = r.cp
          /\ tlb' = IF r.flush THEN [k \in Keys |-> NoEntry] ELSE tlb
    /\ ip' = ip + 1
    /\ rd' = [rd EXCEPT !.fresh = FALSE]
    /\ last' = NoAccess
    /\ UNCHANGED <<model, features, excp, pend>>

\* MRC p15
Mrc(r) ==
    /\ ~pend.on
    /\ rd' = [reg |-> r, val |-> GetCp15(cp, r), fresh |-> TRUE]
    /\ UNCHANGED <<model, features, cp, tlb, excp, ip, last, pend>>

\* Mutant: the entry keeps the unaligned physical address.
FillEntryUnaligned(r) == [pa |-> r.phys, prot |-> r.prot, valid |-> TRUE]
\* tlb_set_page of the 1KB page: phys_addr &= ~0x3ff.
FillEntry(r) == [pa |-> AlignDown(r.phys, 10), prot |-> r.prot, valid |-> TRUE]

\* The abort path: status and address into c5/c6 (insn for a fetch).
FaultRegs(c, at, ret, va) ==
    IF at = 2 THEN [c EXCEPT !.c5_insn = ret, !.c6_insn = va]
    ELSE [c EXCEPT !.c5_data = ret, !.c6_data = va]

\* One lookup of a load, store or fetch.  A TLB entry serves it when it
\* holds the needed permission (tlb_set_page makes readable pages
\* executable).  Otherwise cpu_arm_handle_mmu_fault: get_phys_addr, then
\* tlb_set_page of the 1KB page and the softmmu's redo of the lookup, or
\* c5/c6 and the abort.
Lookup(va, at, is_user) ==
    LET key == <<Page(va), is_user>>
        need == IF at = 1 THEN "W" ELSE "R"
        r == GetPhysAddr(cp, Mem(model), MPU, XSCALE, va, at, is_user)
        acc(res, pa) == [res |-> res, va |-> va, at |-> at, is_user |-> is_user,
                         pa |-> pa]
    IN \/ /\ tlb[key].valid /\ need \in tlb[key].prot
          /\ last' = acc("hit", tlb[key].pa + (va % 1024))
          /\ pend' = NoPend
          /\ UNCHANGED <<cp, tlb, excp>>
       \/ /\ ~(tlb[key].valid /\ need \in tlb[key].prot)
          /\ r.ret = 0
          /\ tlb' = [tlb EXCEPT ![key] = FillEntry(r)]
          /\ last' = acc(IF need \in r.prot THEN "fill" ELSE "retry",
                         tlb'[key].pa + (va % 1024))
          /\ pend' = [va |-> va, at |-> at, is_user |-> is_user, on |-> TRUE]
          /\ UNCHANGED <<cp, excp>>
       \/ /\ ~(tlb[key].valid /\ need \in tlb[key].prot)
          /\ r.ret # 0
          /\ cp' = FaultRegs(cp, at, r.ret, va)
          /\ excp' = IF at = 2 THEN "PABT" ELSE "DABT"
          /\ last' = acc("fault", 0)
          /\ pend' = NoPend
          /\ UNCHANGED tlb
    /\ UNCHANGED <<model, features, ip, rd>>

\* The guest's load, store or fetch, issued between instructions.
Access(va, at, is_user) == ~pend.on /\ Lookup(va, at, is_user)

\* The softmmu's "goto redo" after tlb_fill: the same access looked up again.
Redo == pend.on /\ Lookup(pend.va, pend.at, pend.is_user)

\* cpu_reset (a system reset): the TLB flushed, pc 0, so the boot program
\* runs again from its first write.
Reset ==
    /\ ~pend.on
    /\ LET s == CpuReset(cp)
       IN cp' = s.cp /\ features' = s.features
    /\ tlb' = [k \in Keys |-> NoEntry]
    /\ excp' = "none"
    /\ ip' = 0
    /\ rd' = NoRead
    /\ last' = NoAccess
    /\ UNCHANGED <<model, pend>>

Next ==
    \/ Mcr
    \/ Reset
    \/ \E r \in Reads(model) : Mrc(r)
    \/ \E p \in Points(model), at \in 0 .. 2 : Access(p[1], at, p[2])
    \/ Redo

\* The CPU runs one access to its end before its next instruction, and the
\* softmmu loop is never preempted: the redo is weakly fair.
Spec == Init /\ [][Next]_vars /\ WF_vars(Redo)

-----------------------------------------------------------------------------
Words == 0 .. 2147483647

TypeOK ==
    /\ model \in Models
    /\ features \subseteq FeatureNames
    /\ cp \in [c0_cpuid : Words, c0_cachetype : Words, c1_sys : Words, c2_base : Words, c3 : Words, c5_data : Words,
               c5_insn : Words, c6_data : Words, c6_insn : Words,
               c13_fcse : Words, c13_context : Words,
               c6_region : [0 .. 7 -> Words], c1_coproc : Words, c2_data : Words,
               c2_insn : Words, c9_data : Words, c9_insn : Words, c15_cpar : Words]
    /\ \A k \in Keys : tlb[k].valid => tlb[k].prot \in SUBSET RW /\ tlb[k].pa % 1024 = 0
    /\ excp \in {"none", "PABT", "DABT"}
    /\ ip \in 0 .. Len(Prog)
    /\ last.res \in {"none", "hit", "fill", "retry", "fault"}
    /\ pend.on => <<pend.va, pend.is_user>> \in Points(model) /\ pend.at \in 0 .. 2

Ref == RefTranslate(model, ip, last.va, last.at, last.is_user)
Fsr == IF last.at = 2 THEN cp.c5_insn ELSE cp.c5_data
Far == IF last.at = 2 THEN cp.c6_insn ELSE cp.c6_data

\* An access served from the TLB or by a fresh walk is one the architecture
\* allows for the current cp15 configuration, at the physical address it
\* maps: the TLB is never stale and get_phys_addr grants only what the
\* page tables, domains and MPU regions allow (cpu_arm_handle_mmu_fault,
\* helper_set_cp15's tlb_flush calls).
AccessPermitted ==
    last.res \in {"hit", "fill"} => Ref.ok /\ last.pa = Ref.pa

\* Every access the guest issues ends, in a TLB hit or an abort: a fill
\* after a successful get_phys_addr must grant the access, or the
\* softmmu's redo finds the same miss and refills the entry forever
\* (cpu_arm_handle_mmu_fault returning 0 with too few PAGE_ bits).
AccessCompletes == pend.on ~> ~pend.on

\* An abort is raised only where the architecture faults, and c5/c6 then
\* hold its fault status code and the faulting address
\* (cpu_arm_handle_mmu_fault).
FaultReported ==
    last.res = "fault" => /\ ~Ref.ok
                          /\ Fld(Fsr, 0, 4) = Ref.code
                          /\ Far = last.va

\* The fault status names the domain of the descriptor that faulted: for a
\* page translation, domain or permission fault, bits 7..4 of c5 hold the
\* domain number of the first-level descriptor (get_phys_addr's do_fault:
\* code | (domain << 4)).
FaultDomain ==
    last.res = "fault" /\ Ref.code \in {7, 9, 11, 13, 15}
    => Fld(Fsr, 4, 4) = Ref.domain

\* An MRC right after an MCR of the same register returns the value
\* written (as the register holds it: MPU permissions in the simple format
\* keep 16 bits).  The MMU fault registers are left out: aborts write them.
SameReg(r, w) == r.crn = w.crn /\ r.op2 = w.op2 /\ (r.crn = 6 /\ MPU => r.crm = w.crm)
Visible(w) == IF MPU /\ w.crn = 5 /\ w.op2 \in {0, 1} THEN w.val % 2^16 ELSE w.val
ReadBack ==
    rd.fresh /\ ip > 0 /\ SameReg(rd.reg, Prog[ip])
    /\ (~MPU => rd.reg.crn \notin {5, 6})
    => rd.val = Visible(Prog[ip])


\* Whatever resets come between the boot writes, the CPU stays the model
\* cpu_arm_set_model selected: cpu_reset saves c0_cpuid before clearing the
\* state and cpu_reset_model_id restores the ID register and the features.
FeaturesFixed ==
    /\ cp.c0_cpuid = SetModel(model)
    /\ features = CpuResetModelId(SetModel(model)).features

=============================================================================
