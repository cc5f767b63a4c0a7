------------------------------ MODULE ArmMmu ------------------------------
(***************************************************************************)
(* Address translation of src/target-arm/helper.c as operators over the    *)
(* cp15 registers and the page-table words in physical memory:            *)
(* check_ap, get_phys_addr (MMU off, MPU region scan, two-level table     *)
(* walk) and the MPU access-permission format conversions.                *)
(*                                                                         *)
(* Words are naturals below 2^31; a bit field is taken with \div and %.   *)
(* A protection is a subset of {"R", "W"} (PAGE_READ, PAGE_WRITE).        *)
(* access_type is 0 (load), 1 (store) or 2 (instruction fetch).           *)
(***************************************************************************)
EXTENDS Naturals

\* (x >> lo) & (2^n - 1)
Fld(x, lo, n) == (x \div 2^lo) % 2^n
\* x & ~(2^k - 1)
AlignDown(x, k) == (x \div 2^k) * 2^k

RW == {"R", "W"}
RO == {"R"}

\* Mutant: a user store to an AP 2 page gets the read-only protection.
CheckApUserWriteRead(c1_sys, ap, domain, access_type, is_user) ==
    IF domain = 3 THEN RW
    ELSE CASE ap = 0 -> IF access_type = 1 THEN {}
                        ELSE CASE Fld(c1_sys, 8, 2) = 1 -> IF is_user THEN {} ELSE RO
                               [] Fld(c1_sys, 8, 2) = 2 -> RO
                               [] OTHER -> {}
           [] ap = 1 -> IF is_user THEN {} ELSE RW
           [] ap = 2 -> IF is_user THEN RO ELSE RW
           [] ap = 3 -> RW

\* check_ap: the protection a section or page grants, {} for none.
CheckAp(c1_sys, ap, domain, access_type, is_user) ==
    IF domain = 3 THEN RW
    ELSE CASE ap = 0 -> IF access_type = 1 THEN {}
                        ELSE CASE Fld(c1_sys, 8, 2) = 1 -> IF is_user THEN {} ELSE RO
                               [] Fld(c1_sys, 8, 2) = 2 -> RO
                               [] OTHER -> {}
           [] ap = 1 -> IF is_user THEN {} ELSE RW
           [] ap = 2 -> IF is_user THEN (IF access_type = 1 THEN {} ELSE RO)
                        ELSE RW
           [] ap = 3 -> RW

Ok(phys, prot) == [ret |-> 0, phys |-> phys, prot |-> prot]
Fault(code) == [ret |-> code, phys |-> 0, prot |-> {}]

\* ((base ^ address) & ~mask) == 0 with mask = (2 << size) - 1.
RegionMatch(base, address) ==
    LET k == Fld(base, 1, 5) + 1
    IN k >= 31 \/ base \div 2^k = address \div 2^k

\* Mutant: the scan runs from region 0 upwards.
MpuRegionHitLowest(hits) == CHOOSE k \in hits : \A j \in hits : k <= j
\* for (n = 7; n >= 0; n--) ... break: the highest-numbered matching region.
MpuRegionHit(hits) == CHOOSE k \in hits : \A j \in hits : j <= k

\* The MPU path: the highest enabled region holding the address, then its
\* 4-bit permission field from c5_insn (fetch) or c5_data.
MpuLookup(cp, address, access_type, is_user) ==
    LET hits == {n \in 0 .. 7 : Fld(cp.c6_region[n], 0, 1) = 1
                                /\ RegionMatch(cp.c6_region[n], address)}
        n == MpuRegionHit(hits)
        ap == Fld(IF access_type = 2 THEN cp.c5_insn ELSE cp.c5_data, 4 * n, 4)
    IN IF hits = {} THEN Fault(2)
       ELSE CASE ap = 1 -> IF is_user THEN Fault(1) ELSE Ok(address, RW)
              [] ap = 2 -> Ok(address, IF is_user THEN RO ELSE RW)
              [] ap = 3 -> Ok(address, RW)
              [] ap = 5 -> IF is_user THEN Fault(1) ELSE Ok(address, RO)
              [] ap = 6 -> Ok(address, RO)
              [] OTHER -> Fault(1)

\* Mutant: the 64KB/4KB subpage index taken from address bits 13..12.
SubpageAp4k(desc, address) == Fld(desc, 4 + 2 * Fld(address, 12, 2), 2)
\* (desc >> (4 + ((address >> 13) & 6))) & 3, for 64KB and 4KB pages alike.
SubpageAp(desc, address) == Fld(desc, 4 + 2 * Fld(address, 14, 2), 2)

\* The level-2 part of the walk: physical address and AP bits of a page,
\* or the page translation fault (code 7).
PageLookup(mem, xscale, type, desc1, address) ==
    LET table == IF type = 1 THEN AlignDown(desc1, 10) + 4 * Fld(address, 12, 8)
                 ELSE AlignDown(desc1, 12) + 4 * Fld(address, 10, 10)
        desc == mem[table]
        subap == SubpageAp(desc, address)
    IN CASE desc % 4 = 1 -> [ok |-> TRUE, phys |-> AlignDown(desc, 16) + (address % 2^16),
                             ap |-> subap]
         [] desc % 4 = 2 -> [ok |-> TRUE, phys |-> AlignDown(desc, 12) + (address % 2^12),
                             ap |-> subap]
         [] desc % 4 = 3 /\ xscale ->
                            [ok |-> TRUE, phys |-> AlignDown(desc, 12) + (address % 2^12),
                             ap |-> Fld(desc, 4, 2)]
         [] desc % 4 = 3 /\ type # 1 ->
                            [ok |-> TRUE, phys |-> AlignDown(desc, 10) + (address % 2^10),
                             ap |-> Fld(desc, 4, 2)]
         [] OTHER -> [ok |-> FALSE, phys |-> 0, ap |-> 0]

\* Mutant: the section and page permission-fault codes exchanged.
PermCodeSwapped(type) == IF type = 2 THEN 15 ELSE 13
\* code = 13 for a section, 15 for a page.
PermCode(type) == IF type = 2 THEN 13 ELSE 15

\* Mutant: the boot-loader carve-out left out.
UnprotectedNone(address) == FALSE
\* address < 0x4000: no protection for the first 16KB.
Unprotected(address) == address < 16384

\* The table walk.  A fault returns code | (domain << 4), where domain is
\* the domain's two access bits read from c3.
TableWalk(cp, mem, xscale, address, access_type, is_user) ==
    LET desc == mem[AlignDown(cp.c2_base, 14) + 4 * Fld(address, 20, 12)]
        type == desc % 4
        domain == Fld(cp.c3, 2 * Fld(desc, 5, 4), 2)
        page == PageLookup(mem, xscale, type, desc, address)
        phys == IF type = 2 THEN AlignDown(desc, 20) + (address % 2^20) ELSE page.phys
        ap == IF type = 2 THEN Fld(desc, 10, 2) ELSE page.ap
        code == PermCode(type)
        prot == IF Unprotected(address) THEN RW
                ELSE CheckAp(cp.c1_sys, ap, domain, access_type, is_user)
    IN CASE type = 0 -> Fault(5 + 16 * domain)
         [] domain \in {0, 2} -> Fault((IF type = 2 THEN 9 ELSE 11) + 16 * domain)
         [] type # 2 /\ ~page.ok -> Fault(7 + 16 * domain)
         [] prot = {} -> Fault(code + 16 * domain)
         [] OTHER -> Ok(phys, prot)

\* get_phys_addr: FCSE relocation of the low 32MB, then MMU off, MPU or
\* table walk.
GetPhysAddr(cp, mem, mpu, xscale, address0, access_type, is_user) ==
    LET address == IF address0 < 33554432 THEN address0 + cp.c13_fcse ELSE address0
    IN IF Fld(cp.c1_sys, 0, 1) = 0 THEN Ok(address, RW)
       ELSE IF mpu THEN MpuLookup(cp, address, access_type, is_user)
       ELSE TableWalk(cp, mem, xscale, address, access_type, is_user)

-----------------------------------------------------------------------------
(* MPU access-permission formats: the simple one has 2 bits per region,   *)
(* the extended one 4 bits per region.                                    *)

RECURSIVE SimpleLoop(_, _), ExtendedLoop(_, _)
\* for (i = 0; i < 16; i += 2) ret |= (val >> i) & (3 << i)
SimpleLoop(val, i) ==
    IF i >= 16 THEN 0
    ELSE Fld(val \div 2^i, i, 2) * 2^i + SimpleLoop(val, i + 2)
\* for (i = 0; i < 16; i += 2) ret |= (val & (3 << i)) << i
ExtendedLoop(val, i) ==
    IF i >= 16 THEN 0
    ELSE Fld(val, i, 2) * 2^(2 * i) + ExtendedLoop(val, i + 2)

\* simple_mpu_ap_bits
SimpleMpuApBits(val) == SimpleLoop(val, 0)
\* Mutant: the value stored without conversion.
ExtendedMpuApBitsRaw(val) == val
\* extended_mpu_ap_bits
ExtendedMpuApBits(val) == ExtendedLoop(val, 0)

=============================================================================
