---------------------------- MODULE MCArmCp15Tlb ----------------------------
(***************************************************************************)
(* Model-checking instances of ArmCp15Tlb: page tables written as         *)
(* architectural records and encoded into descriptor words, boot programs *)
(* of MCR writes, and the architectural translation the guest is owed     *)
(* (ARMv5 VMSA for the MMU cores, the ARM946 protection unit for MPU).    *)
(***************************************************************************)
EXTENDS ArmCp15Tlb

W(crn, op2, crm, val) == [crn |-> crn, op2 |-> op2, crm |-> crm, val |-> val]
R(crn, op2, crm) == [crn |-> crn, op2 |-> op2, crm |-> crm]

\* The value the guest last wrote to a register among the first k writes.
ArchReg(k, crn, op2, crm) ==
    LET ws == {i \in 1 .. k : SameReg(R(crn, op2, crm), Prog[i])}
    IN IF ws = {} THEN 0 ELSE Prog[CHOOSE i \in ws : \A j \in ws : j <= i].val

Allowed(prot, at) == (IF at = 1 THEN "W" ELSE "R") \in prot
Deny(code, dom) == [ok |-> FALSE, pa |-> 0, code |-> code, domain |-> dom]

-----------------------------------------------------------------------------
(* MMU cores.  Translation table at 16KB; sections 0-5 of the address     *)
(* space; a coarse table at 32KB and a fine table at 48KB.                *)

TTB == 16384
\* domains 0-2 client, 3 manager, the others (4) no access
DACR == 1 + 1 * 4 + 1 * 16 + 3 * 64

Sections ==
    [s \in 0 .. 5 |->
       CASE s = 0 -> [kind |-> "section", dom |-> 0, ap |-> 2, base |-> 5242880]
         [] s = 1 -> [kind |-> "coarse", dom |-> 1, table |-> 32768]
         [] s = 2 -> [kind |-> "fine", dom |-> 2, table |-> 49152]
         [] s = 3 -> [kind |-> "section", dom |-> 3, ap |-> 0, base |-> 7340032]
         [] s = 4 -> [kind |-> "fault"]
         [] s = 5 -> [kind |-> "section", dom |-> 4, ap |-> 3, base |-> 9437184]]

\* Second-level pages: virtual base, size, the AP of each subpage.
Pages ==
    {[vbase |-> 1048576, size |-> 65536, aps |-> <<3, 2, 1, 0>>, base |-> 6291456],
     [vbase |-> 1114112, size |-> 1024, aps |-> <<2>>, base |-> 6356992],
     [vbase |-> 1179648, size |-> 4096, aps |-> <<2, 2, 2, 1>>, base |-> 6422528],
     [vbase |-> 2098176, size |-> 1024, aps |-> <<2>>, base |-> 8388608]}

PageOf(va) == {p \in Pages : p.vbase <= va /\ va < p.vbase + p.size}

\* Descriptor encodings (ARMv5 first- and second-level formats).
L1Word(d) ==
    CASE d.kind = "section" -> d.base + d.ap * 1024 + d.dom * 32 + 2
      [] d.kind = "coarse" -> d.table + d.dom * 32 + 1
      [] d.kind = "fine" -> d.table + d.dom * 32 + 3
      [] d.kind = "fault" -> 0
L2Word(p) ==
    CASE p.size = 65536 -> p.base + p.aps[4] * 1024 + p.aps[3] * 256
                           + p.aps[2] * 64 + p.aps[1] * 16 + 1
      [] p.size = 4096 -> p.base + p.aps[4] * 1024 + p.aps[3] * 256
                          + p.aps[2] * 64 + p.aps[1] * 16 + 2
      [] p.size = 1024 -> p.base + p.aps[1] * 16 + 3
L2Index(d, va) == IF d.kind = "coarse" THEN d.table + 4 * ((va \div 4096) % 256)
                  ELSE d.table + 4 * ((va \div 1024) % 1024)

\* Sections: the carve-out of the first 16KB, a user read-only section (at
\* an address not 1KB-aligned) and a no-access domain.
MmuSectionVAs == {8192, 20484, 5242880}
\* Pages: subpage 3 of a 64KB page, a tiny page of a coarse table (a
\* fault) and one of a fine table.
MmuPageVAs == {1097728, 1114112, 2098276}
\* A 4KB page's last subpage (VA 0x120C00, AP 1).
MmuSubpageVA == 1182720
MmuTableVAs == MmuSectionVAs \cup MmuPageVAs \cup {MmuSubpageVA}

\* Memory: the first-level entries of every section, and the second-level
\* entries every address of MmuTableVAs selects (0, a fault, where no page
\* is).
MCMem ==
    LET l1 == {TTB + 4 * s : s \in 0 .. 5}
        l2 == {L2Index(Sections[va \div 1048576], va) :
                 va \in {v \in MmuTableVAs : Sections[v \div 1048576].kind \in {"coarse", "fine"}}}
    IN [a \in l1 \cup l2 |->
          IF a \in l1 THEN L1Word(Sections[(a - TTB) \div 4])
          ELSE LET vs == {v \in MmuTableVAs : Sections[v \div 1048576].kind \in {"coarse", "fine"}
                                       /\ L2Index(Sections[v \div 1048576], v) = a}
                   v == CHOOSE x \in vs : TRUE
               IN IF PageOf(v) = {} THEN 0 ELSE L2Word(CHOOSE p \in PageOf(v) : TRUE)]

\* The ARMv5 permission check of a client domain.
ApAllows(ap, s, r, at, u) ==
    CASE ap = 0 -> at # 1 /\ ((s = 1 /\ r = 0 /\ ~u) \/ (s = 0 /\ r = 1))
      [] ap = 1 -> ~u
      [] ap = 2 -> ~u \/ at # 1
      [] ap = 3 -> TRUE

\* The VMSA translation after k writes: MMU off is the identity; otherwise
\* the section or page, its domain, the subpage AP of the address, and the
\* boot-loader carve-out of the first 16KB.
RefMmu(k, va, at, u) ==
    LET c1 == ArchReg(k, 1, 0, 0)
        d == Sections[va \div 1048576]
        da == (ArchReg(k, 3, 0, 0) \div 4^d.dom) % 4
        pg == CHOOSE p \in PageOf(va) : TRUE
        sub == (va % pg.size) \div (pg.size \div Len(pg.aps))
        section == d.kind = "section"
        tiny == ~section /\ PageOf(va) # {} /\ pg.size = 1024
        ap == IF section THEN d.ap ELSE pg.aps[sub + 1]
        pa == IF section THEN d.base + (va % 1048576) ELSE pg.base + (va % pg.size)
        ok == \/ va < 16384 \/ da = 3
              \/ ApAllows(ap, (c1 \div 256) % 2, (c1 \div 512) % 2, at, u)
    IN CASE c1 % 2 = 0 -> [ok |-> TRUE, pa |-> va, code |-> 0, domain |-> 0]
         [] d.kind = "fault" -> Deny(5, 0)
         [] da \in {0, 2} -> Deny(IF section THEN 9 ELSE 11, d.dom)
         [] ~section /\ (PageOf(va) = {} \/ (tiny /\ d.kind = "coarse")) ->
              Deny(7, d.dom)
         [] ~ok -> Deny(IF section THEN 13 ELSE 15, d.dom)
         [] OTHER -> [ok |-> TRUE, pa |-> pa, code |-> 0, domain |-> 0]

\* Boot: table base and domains, MMU on, then S and R protection, a TLB
\* flush and a context id, and MMU off again.
MmuBoot ==
    <<W(2, 0, 0, TTB), W(3, 0, 0, DACR), W(1, 0, 0, 1), W(1, 0, 0, 257),
      W(8, 0, 0, 0), W(13, 1, 0, 5), W(1, 0, 0, 513), W(1, 0, 0, 0)>>
MmuRead1 == {R(1, 0, 0)}
MmuSectionPoints == MmuSectionVAs \X BOOLEAN
MmuPagePoints == MmuPageVAs \X BOOLEAN
\* Violation instance: the 4KB subpage read by the user.
MmuSubpagePoints == {<<MmuSubpageVA, TRUE>>}

-----------------------------------------------------------------------------
(* MPU cores (ARM946).  Region 0 covers the first 4MB, region 1 the 64KB  *)
(* at 1MB inside it, region 2 the 4KB at 0x108000 inside region 1; region *)
(* 3 (1MB at 1MB, no access) is disabled.          Data permissions are   *)
(* written in the simple format, instruction permissions in the extended. *)

MpuRegion(base, size, en) == base + size * 2 + en
MpuRegions ==
    <<W(6, 0, 0, MpuRegion(0, 21, 1)), W(6, 0, 1, MpuRegion(1048576, 15, 1)),
      W(6, 0, 2, MpuRegion(1081344, 11, 1)), W(6, 0, 3, MpuRegion(1048576, 19, 0))>>
\* Simple data APs (2 bits per region) and extended instruction APs (4 bits).
MpuDataAps(a0, a1, a2, a3) == a0 + a1 * 4 + a2 * 16 + a3 * 64
MpuInsnAps == 0 + 3 * 16 + 2 * 256
\* After the MPU is on: data cacheable bits, a data cache lockdown and
\* coprocessor access.
MpuBoot == MpuRegions \o <<W(5, 0, 0, MpuDataAps(0, 3, 1, 0)), W(5, 3, 0, MpuInsnAps),
                           W(1, 0, 0, 1), W(2, 0, 0, 6), W(9, 0, 0, 1), W(1, 2, 0, 15)>>
MpuReads == {R(0, 0, 0), R(0, 1, 0), R(1, 0, 0), R(1, 2, 0), R(2, 0, 0), R(5, 0, 0),
             R(5, 3, 0), R(6, 0, 2), R(9, 0, 0)}
\* One address of region 1 only, one of region 2.
MpuVAs == {1052672, 1081444}
MpuPoints == MpuVAs \X {FALSE}
MpuUserPoints == MpuVAs \X {TRUE}
MpuMem == [a \in {0} |-> 0]

\* The ARM946 permission table (spec.md 4.3).
MpuAllows(ap, at, u) ==
    CASE ap = 1 -> ~u
      [] ap = 2 -> ~u \/ at # 1
      [] ap = 3 -> TRUE
      [] ap = 5 -> ~u /\ at # 1
      [] ap = 6 -> at # 1
      [] OTHER -> FALSE

\* Protection after k writes: the highest-numbered enabled region holding
\* the address governs; no region is fault 2, a denied access fault 1.
RefMpu(k, va, at, u) ==
    LET reg(n) == ArchReg(k, 6, 0, n)
        lo(n) == AlignDown(reg(n), Fld(reg(n), 1, 5) + 1)
        holds == {n \in 0 .. 7 : reg(n) % 2 = 1 /\ lo(n) <= va
                                 /\ va < lo(n) + 2^(Fld(reg(n), 1, 5) + 1)}
        n == CHOOSE m \in holds : \A j \in holds : j <= m
        ap == IF at = 2 THEN Fld(ArchReg(k, 5, 3, 0), 4 * n, 4)
              ELSE Fld(ArchReg(k, 5, 0, 0), 2 * n, 2)
    IN CASE ArchReg(k, 1, 0, 0) % 2 = 0 -> [ok |-> TRUE, pa |-> va, code |-> 0, domain |-> 0]
         [] holds = {} -> Deny(2, 0)
         [] ~MpuAllows(ap, at, u) -> Deny(1, 0)
         [] OTHER -> [ok |-> TRUE, pa |-> va, code |-> 0, domain |-> 0]

\* Violation instance: a user store to a region that is read-only for the
\* user.
MpuUserBoot == MpuRegions \o <<W(5, 0, 0, MpuDataAps(0, 2, 1, 0)), W(5, 3, 0, MpuInsnAps),
                               W(1, 0, 0, 1)>>

\* Violation instance: with the MMU on, the guest takes domain 0 away
\* (manager code switching address spaces, set_fs in Linux) and reads the
\* section it mapped before.
MmuDomainBoot ==
    <<W(2, 0, 0, TTB), W(3, 0, 0, DACR), W(1, 0, 0, 1), W(3, 0, 0, DACR - 1)>>
MmuDomainPoints == {<<20484, FALSE>>}

-----------------------------------------------------------------------------
(* The cfg constants, per model.  A run whose Models holds several cores *)
(* checks their configurations side by side in one state space.         *)

IsMpuModel(m) == ArmFeature(CpuResetModelId(SetModel(m)).features, "MPU")
BootMem(m) == IF IsMpuModel(m) THEN MpuMem ELSE MCMem
BootProgram(m) == IF IsMpuModel(m) THEN MpuBoot ELSE MmuBoot
BootReads(m) == IF IsMpuModel(m) THEN MpuReads ELSE MmuRead1
NoReads(m) == {}
RefBoot(m, k, va, at, u) == IF IsMpuModel(m) THEN RefMpu(k, va, at, u) ELSE RefMmu(k, va, at, u)
\* The ARM926 accesses the sections, the ARM1026 the second-level pages,
\* the ARM946 its regions.
BootPoints(m) ==
    CASE IsMpuModel(m) -> MpuPoints
      [] m = "arm1026" -> MmuPagePoints
      [] OTHER -> MmuSectionPoints
SubpagePoints(m) == MmuSubpagePoints
MpuUserProgram(m) == MpuUserBoot
MpuUserPointsOf(m) == MpuUserPoints
DomainProgram(m) == MmuDomainBoot
DomainPoints(m) == MmuDomainPoints

=============================================================================
