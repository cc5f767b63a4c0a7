# TLA+ models of the QEMU CPU core (ftxj/qemu)

The repository holds one slice of an early QEMU:

| file | what it is |
|---|---|
| `src/target-mips/translate.c` | the MIPS decoder and block translator, and `cpu_reset` |
| `src/target-arm/helper.c`, `src/target-arm/cpu.h` | the ARM system state: CPSR, mode banking, exception entry, MMU/MPU, cp15 |
| `src/hw/smbus_eeprom.c` | an SMBus EEPROM device model |
| `src/hw/arm_boot.c` | the ARM kernel loader and boot tags |
| `src/target-ppc/exec.h` | PowerPC register aliases (a header) |

These modules check the parts whose correctness depends on **control**:
the order of steps, state carried from one step to the next, and the way
a run can end. The data (register contents, instruction encodings, memory
bytes) is abstracted away.

## 1. Inventory

### MIPS block translator (`translate.c`)

`gen_intermediate_code_internal` translates a *block*: guest
instructions starting at `env->PC`, one `decode_opc` per loop turn, each
emitting micro-ops. The executor (`cpu_exec`, outside `src/`) then runs
the block.

The translator keeps a `DisasContext`:

| field | meaning |
|---|---|
| `pc` | address of the instruction being translated |
| `hflags` | branch state, the `MIPS_HFLAG_BMASK` bits: none, B, BC, BL, BR |
| `btarget` | target of the pending branch |
| `saved_pc`, `saved_hflags` | what the emitted code has already written back to env |
| `bstate` | how the block ends: NONE, STOP, BRANCH or EXCP |
| `hflags & MIPS_HFLAG_FPU` | whether coprocessor 1 is usable (Status.CU1), fixed for the block |

**The hard part is the MIPS delay slot.** A branch does not jump at once;
the next instruction, its slot, runs first. The branch and its slot may be
translated into different blocks. This happens at a page boundary, when
the op buffer is full, or when single-stepping. So the pending branch
lives in three places:

- in `ctx` at translation time;
- in env (`hflags`, `btarget`, `bcond`) between blocks;
- in the host register T2 while the block runs.

Three routines move it between those places:

- `save_cpu_state` writes it back lazily, only when env lacks it.
- `restore_cpu_state` reloads T2 at the start of a block.
- The search_pc tables (`gen_opc_pc`, `gen_opc_hflags`) let a fault inside
  a block recover the pc and the branch flags.

How a block ends:

- A branch completes after its slot (`gen_goto_tb` or `breg`).
- An instruction stops translation: DI/EI, `mtc0`, and traps give
  BS_STOP; `mtc0 Status` gives BS_EXCP.
- The loop reaches a page boundary, or the op buffer is full.
- There is a breakpoint at the pc.
- Single-stepping is on.

Related operations:

- A branch-likely whose condition is false nullifies its slot. The test is
  made at the start of the slot's `decode_opc`.
- A branch in a delay slot is a reserved instruction.
- Branches whose outcome is known at decode time become a no-op, a link,
  or a skip of the slot.
- FP instructions (`OPC_CP1`) save the state and call `check_cp1_enabled`,
  which raises CpU when the FPU bit of the translation-time hflags is
  clear. `cpu_reset` clears it; `mtc0 Status` recomputes it, which is why
  that write ends the block. FP branches go through `gen_compute_branch1`,
  which sets BC or BL like `gen_compute_branch` but has no test for a
  branch already pending.

Correctness means that executing translated blocks is the same as
executing the program one instruction at a time with MIPS delay-slot
semantics. This includes where exceptions and debug traps are reported:
the pc, and whether the instruction was in a delay slot.

### ARM CPU state (`helper.c`, `cpu.h`)

- **CPSR and banking.** `cpsr_read` and `cpsr_write` keep the flags in a
  cache (NZF, CF, VF, QF, thumb) apart from `uncached_cpsr`.
  `switch_mode` swaps r13/r14/SPSR per mode (`bank_number`) and r8–r12
  for FIQ.
- **Exception entry.** `do_interrupt` picks the mode, vector, mask bits
  and pc offset per exception class. It intercepts SWI 0x123456 / 0xab
  for semihosting from privileged modes, and relocates to high vectors
  under c1 bit 13. It switches mode, saves the SPSR, and sets r14 and pc.
- **Address translation.** `get_phys_addr` has three paths: MMU off; the
  MPU region scan with the AP bits of c5; the two-level table walk
  (section, coarse, fine, 64KB/4KB/1KB pages, domains, `check_ap`).
  `cpu_arm_handle_mmu_fault` fills the soft TLB or writes the fault
  status (c5) and address (c6) and raises an abort.
- **cp15.** `helper_set_cp15` and `helper_get_cp15` read and write the
  control, coprocessor access, translation base (or MPU cacheable bits),
  domain, fault, MPU region, TLB, cache lockdown, FCSE, context and
  XScale CPAR registers, flushing the TLB where a write changes
  translation.
- **Model and reset.** `cpu_arm_set_model` looks the -cpu name up in
  `arm_cpu_names`; `cpu_reset` keeps `c0_cpuid` across its memset and
  calls `cpu_reset_model_id`, which sets the features (MPU, XScale, VFP,
  ...) and the ID and cache-type registers.

### ARM boot loader (`arm_boot.c`)

`arm_load_kernel` loads the kernel as ELF, then as u-boot, then as a raw
image (exit(1) when all fail), optionally an initrd (exit(1) on
failure), and registers `main_cpu_reset` on the first call. A non-Linux
image starts at its entry (Thumb when bit 0 is set). For Linux it patches
the static stub `bootloader[]` (board id, ATAG address, entry) with |=,
writes it at `loader_start`, and `set_kernel_args` writes the ATAGs
(CORE, MEM, INITRD2, CMDLINE, END). On every system reset
`main_cpu_reset` runs `cpu_reset` and then `arm_load_kernel` again with
the arguments saved in env.

### SMBus EEPROM (`smbus_eeprom.c`) and `target-ppc/exec.h`

The EEPROM is a 256-byte array and a `uint8_t` offset behind five SMBus
callbacks. `send_byte` sets the offset; `receive_byte` returns the byte at
the offset and advances it, wrapping at 256 by the width of the type;
`write_data` copies a block to the command address with two `memcpy`
calls, the second for the bytes that run past the end, and leaves the
offset alone; `read_data` sets the offset from the command on the first
byte of a read and then reads on. The SMBus layer that calls them is
outside `src/`. `exec.h` is register aliases and small inline helpers; it
has no state machine.

## 2. Plan and status

| module | what | status |
|---|---|---|
| `MipsIsa` | abstract MIPS with delay slots: the translator's contract | done |
| `MipsTranslate`, `MCMipsTranslate` | translator and executor, `IsaRefinement` | done |
| `ArmArch` | abstract CPSR, banked registers, exception entry | done |
| `ArmCpu`, `MCArmCpu` | cpsr_read/write, switch_mode, do_interrupt, `ArchRefinement` | done |
| `ArmMmu` | check_ap, get_phys_addr, MPU AP format conversions as operators | done |
| `ArmModels` | model table, cpu_reset_model_id, arm_feature | done |
| `ArmCp15Tlb`, `MCArmCp15Tlb` | cp15 + soft TLB + fault path + reset, against an independent architectural reference | done |
| `ArmBoot` | arm_load_kernel, set_kernel_args, main_cpu_reset | done |
| `SmbusEeprom`, `EepromSpec`, `MCSmbusEeprom` | the five callbacks, `EepromRefinement` of a 256-byte EEPROM | done |
| MIPS FPU control | CU1, check_cp1_enabled, gen_cp1/gen_farith RI, gen_compute_branch1 | done |
| MIPS ERET/WAIT | their effect is in op.c, outside src/ | not modelled |
| ARM cp15 remaining registers | c1 coprocessor access, MPU c2, c9 lockdown, XScale c15 (`WriteCp15`, `FlushesTlb`) | done |

## 3. How the modules follow the code

### MipsTranslate: how the model follows the code

#### State

| variable | code |
|---|---|
| `code` | guest memory holding instructions, as instruction classes |
| `env` | `env->PC`; the BMASK bits of `env->hflags`; `env->btarget`; `env->bcond`; `fpu`, the MIPS_HFLAG_FPU bit of `env->hflags` |
| `T2` | the host temporary T2. It is arbitrary at block start (`StartBlock` chooses it). |
| `link` | r31 |
| `exc` | the last exception or debug trap, with its pc and delay-slot bit (`CP0_EPC` and `Cause.BD` as do_interrupt derives them) |
| `bps` | `env->breakpoints` |
| `ctx` | `DisasContext`; `n` counts instructions against the op buffer |
| `tb` | the emitted block. Each instruction has one group of ops, tagged with the pc and flags that the search_pc tables record for it. |
| `next` | the group of `tb` that executes next |
| `phase` | idle, translating, or executing a block |

#### Instruction classes

Each class is a field `k` of an instruction record:

| class | code |
|---|---|
| `alu` | everything that cannot leave the block |
| `addo` | ADD/SUB/ADDI: `gen_arith` saves the state, then may raise Ov |
| `ldst` | `gen_ldst`: saves nothing; a fault is recovered from the search_pc tables |
| `trap` | `gen_trap`: save, may raise Tr, then BS_STOP |
| `ri` | reserved instruction |
| `stop` | the CP0 prefix (save, cp0_enabled) and DI/EI/mtc0 with BS_STOP |
| `status` | mtc0 Status: `op_mtc0_status` sets or clears the FPU bit; it writes pc+4 and gives BS_EXCP |
| `cp0` | the CP0 prefix, then MFC0 or a TLB operation the MMU provides: the block goes on |
| `cp0ri` | the CP0 prefix, then MFC0 of a register the CPU lacks (gen_mfc0's `die`) or a TLB operation the MMU lacks: RI |
| `b`, `bal`, `beq`, `beql`, `jr` | B, B with link, BC, BL and BR branches |
| `bnever`, `bltzalnever`, `bnelnever` | the decode-time specialisations (no-op, link only, skip the slot) |
| `fpu` | an FP move (`gen_cp1`) or arithmetic (`gen_farith`): save, `check_cp1_enabled`, the block goes on |
| `fpuri` | the same with an opcode or format they reject, or a 64-bit operation `check_cp1_64bitmode` rejects: CpU or RI |
| `bc1`, `bc1l` | BC1F/BC1T and BC1FL/BC1TL (`gen_compute_branch1`): save, `check_cp1_enabled`, then a BC or BL branch |

#### Actions

Each action models the whole code path it names:

- `StartBlock` is the block prologue. It builds the context from env and
  emits `restore_cpu_state`.
- `TranslateBreakpoint` is the breakpoint check of the loop.
- `TranslateInsn` is one loop turn: `decode_opc`, `ctx.pc += 4`, and the
  single-step and page tests.
- `EndTranslation` is the epilogue `switch (ctx.bstate)`, or the
  single-step epilogue.
- `ExecGroup` runs one instruction's group of ops (`RunOps`, `OpStep`).
  A group ends early at `exit_tb`, at a `goto_tb`, or at an exception.
- `SetBreakpoint` and `ClearBreakpoint` are the debugger.

The translation helpers (`SaveCpuState`, `RestoreOps`,
`GenerateException`, `ComputeBranch`, `Completion`, `DecodeOpc`, `GenArith`,
`GenLdst`, `GenTrap`, `GenCp0`, `GenCp0Op`, `GenMfc0`, `GenMtc0Status`,
`CheckCp1Enabled`, `GenCp1`, `DecodeCp1Branch`, `ComputeBranch1`, `GotoTb`) return the ops that the C
function emits and the context it updates.

The semantics of each micro-op (`op.c`) and of exception entry are not in
`src/`. They are modelled from spec.md and marked `spec_modelled` in the
map.

#### Refinement mapping

Between blocks, and before the first group of a block runs, the
architectural state is `env`. Inside a block it is the pc and the branch
flags recorded for the next group, with the condition or jump-register
value taken from T2. This is exactly what `cpu_restore_state` recovers
from `gen_opc_pc` and `gen_opc_hflags`. The CU1 bit of `MipsIsa` is
`env.fpu`, which only a whole group (the mtc0 Status) changes.


### ArmCpu and ArmArch

`ArmCpu` has two variables. `guest` is the guest program being run: the
exceptions it raises, the ALU results, branches, registers and MSR/SPSR
words it writes. It is chosen from the constant `Guests` at Init and never
changes, so one run checks several guests side by side with state spaces
that add. `env` is the part of `CPUARMState` these
routines touch: the flag cache (`NZF`, `CF`, `VF`, `QF`, `thumb`),
`uncached` (the other CPSR bits, mode included), the live `r0`, `r8`
(standing for r8–r12), `r13`, `r14`, `spsr`, the copies `banked_r13`,
`banked_r14`, `banked_spsr`, `usr_regs` and `fiq_regs`, `pc` and the c1
V bit `hivecs`. NZF is kept as its top two bits and whether any lower bit
is set, which is all `cpsr_read` looks at.

| action | code |
|---|---|
| `Exception(x, imm)` | `do_interrupt` for each `EXCP_*` class, the semihosting intercept included |
| `AluFlags`, `SetQ` | guest ALU steps that write the flag cache |
| `WriteReg`, `BranchTo` | guest register writes and BX |
| `Msr`, `MsrSpsr` | MSR to the CPSR (`cpsr_write`, with `switch_mode`) and to the SPSR |
| `ExceptionReturn` | MOVS pc, lr: `cpsr_write(spsr)` |
| `SetHighVectors` | the c1 V bit |

`ArmArch` is the programmer's model: one CPSR word, and r13, r14 and SPSR
as functions of the bank. `ArchRefinement` maps the CPSR to
`CpsrRead(env)` and each bank's register to the live copy for the
current mode and the banked copy for the others.

### ArmMmu, ArmModels and ArmCp15Tlb

`ArmMmu` holds `check_ap`, `get_phys_addr` (`MpuLookup`, `TableWalk`,
`PageLookup`) and the MPU AP conversions (`SimpleMpuApBits`,
`ExtendedMpuApBits`) as operators over the cp15 record and a memory
function. `ArmModels` holds the model table, `SetModel` and
`CpuResetModelId`.

`ArmCp15Tlb` composes them:

| variable | code |
|---|---|
| `features` | `env->features` |
| `cp` | `env->cp15`: every field of the struct (cpu.h 81–101): c0 ID and cache type, c1 control and coprocessor access, c2 base or MPU c2 data/insn, c3, c5/c6 (MMU) or the MPU region and AP registers, c9 lockdown, c13, c15 CPAR |
| `tlb` | the soft TLB of exec.c: one entry per 1KB page and privilege |
| `excp` | `env->exception_index` |
| `model` | the -cpu name given to `cpu_arm_set_model`, chosen at board construction and fixed after |
| `ip`, `rd`, `last` | how much of the boot program has run, the last MRC, the last access |
| `pend` | an access whose TLB fill has been made and that the softmmu load/store will redo |

| action | code |
|---|---|
| `Mcr` | `helper_set_cp15` of the next boot-program write: `WriteCp15` (the register stores) and `FlushesTlb` (its `tlb_flush` calls) |
| `Mrc(r)` | `helper_get_cp15` |
| `Access(va, at, u)` | a TLB hit, or `cpu_arm_handle_mmu_fault`: `get_phys_addr`, then `tlb_set_page` or c5/c6 and the abort; a fill leaves the access pending |
| `Redo` | the softmmu redo of the pending access after the fill: the same lookup again |
| `Reset` | `cpu_reset` (the c0_cpuid save, memset, `cpu_reset_model_id`), TLB flushed |

The constants `Mem`, `Program`, `Reads`, `Points` (the `<<va, is_user>>`
pairs the guest accesses) and `RefTranslate` are functions of the model,
so one run can boot an MMU core and the ARM946 side by side: the TLB
domain `Keys` is taken from the model's points, and the two state spaces
are disjoint rather than multiplied.

`MCArmCp15Tlb` writes the page tables as architectural records encoded
into descriptor words, and gives `RefTranslate`, the translation the
ARMv5 VMSA (or the ARM946 protection unit) owes the guest after the
first k writes of the program. It is written from the architecture, not
from `get_phys_addr`, so the properties compare the code with an
independent reference.

### SmbusEeprom and EepromSpec

| variable | code |
|---|---|
| `data` | `SMBusEEPROMDevice.data`, the 256-byte array (`smbus_eeprom_device_init` sets it from the board's buffer) |
| `offset` | `SMBusEEPROMDevice.offset`, a `uint8_t` |
| `out` | the byte the last read callback returned |

| action | code |
|---|---|
| `QuickCmd(read)` | `eeprom_quick_cmd`: no state change |
| `SendByte(val)` | `eeprom_send_byte` |
| `ReceiveByte` | `eeprom_receive_byte` (`ReceiveByteAt`: `data[offset++]` modulo 256) |
| `WriteData(cmd, buf)` | `eeprom_write_data` (`WriteDataBytes`: the two `memcpy` calls) |
| `ReadData(cmd, n)` | `eeprom_read_data`, byte n of a read |

`EepromSpec` is what the device promises: a 256-byte memory with a current
address, where a read returns the byte at the address and moves it on,
and a block write stores its bytes from the command address on, wrapping
to 0. `EepromRefinement` maps `mem` to `data` and `ptr` to `offset`.

### ArmBoot

| variable | code |
|---|---|
| `image` | what the loaders find: the kernel kind, its entry, the initrd, the command-line length |
| `env` | `kernel_filename` (the saved boot arguments), `regs[15]`, `thumb` |
| `registered` | whether `main_cpu_reset` is registered |
| `bootloader` | the static stub array, patched in place |
| `ram` | guest RAM words the loader writes: the stub, the ATAGs, the command line, the images |
| `status` | off, booted (the CPU about to run), running, or exited (exit(1)) |
| `boot0` | history: the RAM and entry state the first boot left |
| `resets` | system resets so far (bounded by `MaxResets`) |

| action | code |
|---|---|
| `BoardInit` | the board's first `arm_load_kernel` (`ArmLoadKernel`, `SetKernelArgs`, `PatchBootloader`) |
| `GuestRun` | the guest running: moves the pc, may enter Thumb, overwrites one RAM word |
| `MainCpuReset` | `main_cpu_reset`: `cpu_reset`, then `arm_load_kernel` with the saved arguments |

The image loaders (`load_elf`, `load_uboot`, `load_image`) are outside
`src/`; their outcome is a choice among the kernel kinds, and an image's
contents are one marker word.

## 4. Runs

| run | module / cfg | expect | properties |
|---|---|---|---|
| mips_refinement | MCMipsTranslate / MCMipsRefinement.cfg | pass | TypeOK, IsaRefinement |
| smbus_eeprom_refinement | MCSmbusEeprom / MCSmbusEeprom.cfg | pass | TypeOK, EepromRefinement |
| mips_singlestep_stop | MCMipsTranslate / MCMipsSingleStep.cfg | violation | IsaRefinement |
| mips_fp_branch_slot | MCMipsTranslate / MCMipsFpSlot.cfg | violation | IsaRefinement |
| arm_banking_refinement | MCArmCpu / MCArmBanking.cfg | pass | TypeOK, ArchRefinement |
| arm_swi_flags_refinement | MCArmCpu / MCArmSwiFlags.cfg | pass | ArchRefinement |
| arm_mmu_sections | MCArmCp15Tlb / MCArmMmuSection.cfg | pass | TypeOK, AccessPermitted, FaultReported, AccessCompletes, ReadBack, FeaturesFixed |
| arm_boot_reset | ArmBoot / MCArmBoot.cfg | pass | TypeOK, AtagsWellFormed, BootEntry, ResetIdempotent |
| arm_mmu_subpage_4k | MCArmCp15Tlb / MCArmMmuSubpage.cfg | violation | AccessPermitted |
| arm_mmu_domain_stale | MCArmCp15Tlb / MCArmMmuDomain.cfg | violation | AccessPermitted |
| arm_mmu_fault_domain | MCArmCp15Tlb / MCArmMmuFaultDomain.cfg | violation | FaultDomain |
| arm_mpu_retry | MCArmCp15Tlb / MCArmMpuRetry.cfg | violation | AccessCompletes |

What the passing runs show:

- **mips_refinement.** Every branch form, the linking and never-taken
  forms, and faults inside a block behave as one instruction at a time
  with delay slots, through blocks split across pages and at the
  op-buffer bound. Instructions that stop translation or leave the block
  (traps, DI/EI, mtc0, mtc0 Status, reserved, MFC0 of an unimplemented
  register), and CP0 reads that go on with the block, resume at the right
  pc in and out of the slots of conditional, likely and register
  branches. FP moves, FP arithmetic and FP branches raise CpU exactly
  while CU1 is clear, as it is after reset and after an mtc0 Status that
  clears it; with CU1 set they go on, raise RI, or branch (plain and
  likely, with their slots split from them at pages and at the op
  buffer).
- **smbus_eeprom_refinement.** Byte and block writes at address 0 and at
  254, a three-byte block that runs past the end, and reads that step the
  offset over the end of the array behave as a 256-byte EEPROM whose
  addresses wrap.
- **arm_banking_refinement.** Nested IRQ and FIQ entries and returns,
  with r13 written in every mode, keep each mode's r13, r14, SPSR and the
  FIQ copy of r8–r12.
- **arm_swi_flags_refinement.** Two guests side by side. One raises SWI
  from ARM and Thumb, user and privileged modes, low and high vectors:
  semihosting is intercepted exactly from privileged modes with the right
  magic; otherwise svc is entered with the full CPSR saved. The other
  leaves ALU flags, writes MSR to the CPSR (into and out of fiq) and to
  the SPSR, and returns from exceptions; all of it reads back through
  `cpsr_read` as the architectural CPSR.
- **arm_mmu_sections.** Three cores boot side by side. On the ARM926 a
  boot program turns the MMU on, changes S and R, flushes, sets a context
  id and turns it off; on the ARM1026 the same program maps a 64KB page
  and coarse and fine tiny pages. Every hit or fill gets the
  architectural address and permission (`AccessPermitted`: the TLB is
  never stale) and every abort is one the architecture raises with its
  fault status and address (`FaultReported`). The ARM946 with nested and
  disabled regions translates privileged accesses as the highest enabled
  region says, and simple-format permissions read back as written
  (`ReadBack`). On all three, resets at any point keep the model's ID and
  features (`FeaturesFixed`), and every access ends in a hit or an abort
  (`AccessCompletes`, under the fairness below).
- **arm_boot_reset.** For every kernel kind, initrd and command-line
  length, the first boot and every reset after the guest has overwritten
  the stub, ATAGs, command line or images enter the kernel as the boot
  protocol says (`BootEntry`), with a well-formed ATAG list whose
  command line and NUL lie inside the CMDLINE tag (`AtagsWellFormed`),
  and restore exactly the state of the first boot (`ResetIdempotent`).

Every property of a passing run has a mutant in PROJECT.json: a
plausible bug in one mapped definition (a dropped save of pc+4, the
Thumb bit left in the entry pc, `+` for `|` in the stub patch, the model
id read after the memset, ...) that TLC finds violating it.

### Findings

1. **Single-stepping a BS_STOP instruction never advances**
   (mips_singlestep_stop, `translate.c:5987`). The single-step epilogue
   calls `save_cpu_state(&ctx, ctx.bstate == BS_NONE)`. After DI, EI, a
   trap or a stopping mtc0 the pc of the next instruction is not written,
   so the debug trap is reported at the instruction just executed and
   resuming runs it again.
2. **4KB small pages use the 64KB subpage index**
   (arm_mmu_subpage_4k, `helper.c:516`). `get_phys_addr` takes the
   subpage AP from `(address >> 13) & 6`; a 4KB page's 1KB subpages are
   selected by bits 11..10. A user read of subpage 3 (privileged only) is
   granted with subpage 0's permission.
3. **A read-only MPU region makes a store retry forever**
   (arm_mpu_retry, `helper.c:452`). For a store the region's AP denies,
   `get_phys_addr` returns 0 with PAGE_READ only. The fill gives a
   read-only entry, the store misses it again, and the access loops
   instead of aborting.
4. **A domain access change keeps stale TLB entries**
   (arm_mmu_domain_stale, `helper.c:703`). `helper_set_cp15` stores c3
   without `tlb_flush`, but the soft TLB caches the permission `check_ap`
   derived from the old domain access. With the MMU on, a guest that makes
   domain 0 no-access still reads a domain-0 section it read before,
   where the architecture (and spec.md 4.3, 8) requires a domain fault.
5. **An FP branch in a delay slot is not a reserved instruction**
   (mips_fp_branch_slot, `translate.c:4182`). `gen_compute_branch1` has
   no `MIPS_HFLAG_BMASK` test, unlike `gen_compute_branch`. For the
   program `mtc0 Status; beq; bc1` with CU1 set, the `bc1` in the slot
   of `beq` (first instruction of the next page's block) sets a nested
   branch in hflags and emits its condition, where spec.md 5 and
   `MipsIsa`'s `Reserved` raise RI. The refinement run keeps FP branches
   out of delay slots (`NoFpBranchInSlot`) so that it checks everything
   else; this run takes exactly the programs the filter removes
   (`MCFpSlotPrograms`).
6. **The fault status holds access bits, not the domain**
   (arm_mmu_fault_domain, `helper.c:552`). `get_phys_addr` ORs
   `domain << 4` into the code after `domain` has been replaced by the
   descriptor domain's two DACR bits. A domain fault on a section of
   domain 4 reports domain 0 in c5 (`FaultDomain`).

### Bounds, and why they are enough

**MIPS.**

- **Address space.** The code is three words in a 12-byte address space
  that wraps.
- **Pages.** Pages are 8 bytes (two words), so every block meets a page
  boundary within two instructions.
- **Op buffer.** `MaxInsns = 2` lets the op buffer end a block between a
  branch and its slot.
- **Targets.** The direct targets are 0 and 8, one on each page.
- **Jump registers.** A jump register holds 4 or 6. The value 6 is
  misaligned and exercises the address-error path of `decode_opc`.
- **Breakpoints.** A breakpoint may be set at 4: the slot of a branch at
  0, and the second instruction of a block.
- **T2 at block start.** T2 takes every value it can hold (0, 1, 4, 6).

The constant `Programs` is the set of programs memory may hold. The
refinement run takes every program over the branch classes, every
program over the classes that stop or leave a block, and every program
over the FPU classes with mtc0 Status and loads (not mixtures of the
groups, which only repeat the same block shapes). In the FPU group no FP
branch follows a branch: that case is finding 5 (`translate.c:4182`),
checked by its own run over exactly those programs. The single-step run takes
every program over its classes. Every such program is an initial state, so
every case where a block boundary falls between a branch and its slot
occurs: at a page, at the op buffer, at a breakpoint, and by single step.
Larger programs only repeat these shapes.

**ARM CPU.** One register value against zero, one pc, high vectors at
32. Each run raises the exception classes and writes the MSR and SPSR
words its question needs. Banking is decided by the mode, so one nonzero
value tells every bank apart; the MSR words change mode into and out of
fiq, the one mode with its own r8–r12.

**SMBus EEPROM.** Command addresses 0 and 254, byte values 0 and 1 over
an all-zero array, and blocks of one, two and three bytes: the
three-byte block at 254 takes the second `memcpy`, and reads from 254 step
the `uint8_t` offset over 255. Other addresses only repeat these cases.

**MMU and MPU.** The boot program has every cp15 write that changes
translation (c2, c3, c1 with M, S and R, a TLB flush, c13) in the order
a kernel issues them, and a reset may come between any two writes. The
addresses are one per descriptor kind and permission case: the
unprotected first 16KB, a user read-only section at an address that is
not 1KB-aligned, a no-access domain, a 64KB page's last subpage, coarse
and fine tiny pages; on the MPU, one address of an inner region and one
of a nested region inside it, with a disabled region over both. Loads,
stores and fetches, user and privileged, may come in any order with the
writes, so each TLB entry can be filled under one configuration and used
under the next.  The MPU program also writes and reads back the
registers that hold data only (c2 cacheable bits, c9 lockdown, c1
coprocessor access), so a write routed to the wrong field shows in
`ReadBack`.  No checked model is an XScale core: its c15 CPAR and c1
`crm` filter are translated but not exercised, since a fourth MMU model
would double the run.

**Boot loader.** All six loader outcomes, an even and an odd entry, no,
good and failing initrd, and command lines of 0, 3 and 4 bytes (no tag,
a NUL inside the last word, a NUL in an extra word). The guest may
overwrite any one word among the stub, the ATAGs, the command line and
the images between resets, and two resets follow the first boot.

### Fairness

`ArmCp15Tlb`'s `Spec` is weakly fair to `Redo` and to nothing else. The
CPU is single-threaded and a softmmu load or store runs to completion
(spec.md 5, concurrency model): after `cpu_arm_handle_mmu_fault` returns 0 the helper in
the softmmu template looks the TLB up again at once, so a pending redo
cannot be postponed forever by other guest steps. No fairness is given
to the guest's own accesses, MCR writes or resets: the guest may stop.
With this fairness `AccessCompletes` holds for every core in
arm_mmu_sections and fails for the ARM946 store of arm_mpu_retry, where
the redo refills the same read-only entry forever (a stuttering `Redo`).

The other modules check safety only: invariants, and refinement of
abstract specifications that have no fairness.

### Hazards no run covers yet

PROJECT.json lists every hazard with the properties that cover it. Those
without a run, and why:

- `translate.c:5979`: a never-taken branch-likely in the last word of a
  page skips its slot past the boundary and the block goes on into the
  next page. `BlockWithinPage` states it and TLC finds it violated with
  `MCPageInsns`; no run is kept for it.
- `translate.c:5868`: the ISA lets a debug trap be skipped; saying every
  single step traps needs a step counter in MipsIsa.
- `translate.c:6179`: CP0 ErrorEPC is not in the model.
- `helper.c:288`, `helper.c:244`: the UDEF offset and reserved mode
  numbers are outside the kept ARM CPU runs; a guest raising UDEF beside
  the SWI guest takes the run past its time bound.
- `helper.c:808`, `576`, `904`: a c13 op2 0 write on an MMU core, a
  faulting user MPU access, and the c5 op2 1 read are outside the kept
  MMU runs.
- `helper.c:431`: the split shift of a 4GB MPU region. The checked
  regions have sizes 11 to 21; the mask of a size-31 region is 2^32,
  beyond TLC's 32-bit integers.
- `helper.c:537`: a walk fault below 0x4000 must still be reported.
  `FaultReported` checks the carve-out's grant, but no walk faults there:
  section 0 carries the read-only client case, and a c3 write making its
  domain no-access meets the stale-TLB finding (`helper.c:703`) first.
- `cpu.h:201`: a status word with N and Z both set is stored with Z
  clear (`NZF = (val & 0xc0000000) ^ 0x40000000`). The checked MSR words
  never set both; with such a word TLC finds `ArchRefinement` violated.
  The comment at `cpu.h:199` states the limitation, so the run slot went
  to the `translate.c:4182` bug instead.
- `arm_boot.c:139`: for Linux the pc stays 0 while the stub is at
  `loader_start`. With `LoaderStart = 65536` TLC finds `BootEntry`
  violated; no board under `src/` passes such a value.
- `arm_boot.c:68`: nothing bounds the command line; one longer than the
  space up to the kernel overwrites it. That length is out of reach of
  the word-level RAM of ArmBoot.

## 5. Not modelled

- **`target-ppc/exec.h`.** Register aliases and inline helpers; no state
  machine.
- **cp15 side effects outside the translation state.** The `tb_flush` of
  a c1 coprocessor-access or XScale c15 write drops translated code (the
  TB cache of `exec.c`, outside `src/`), and the c7 read clears
  `env->NZF`, a CPU flag `ArmCp15Tlb` does not hold.
- **FPU data, 64-bit decoders (`gen_dmfc0`, `gen_dmtc0`) and register
  data.** The FPU's control (CU1, CpU, RI, FP branches) is modelled; the
  values are data. The 64-bit generators are compiled only for
  TARGET_MIPS64.
- **ERET and WAIT.** `gen_cp0` emits `op_eret` or `op_wait` and ends
  the block. What they do (the return to EPC or ErrorEPC, the halt and
  wake-up) is in `op.c` and `cpu_exec`, which are not under `src/`. The
  model's exception record has no EPC or Status.EXL/ERL to return through.
  WAIT's `save_cpu_state` of pc + 4 also saves a pending branch, so WAIT
  in a delay slot wakes up with the branch bits set. This is
  architecturally questionable, but what it leads to depends on
  `do_interrupt`, which is not under `src/`.
- **DERET.** Outside debug mode it raises RI, which is the `cp0ri`
  class. Debug mode (MIPS_HFLAG_DM) is entered by SDBBP and EJTAG debug
  exceptions in `op_helper.c`, not under `src/`.
- **TB chaining, the TB cache and the image loaders.** These are outside
  `src/`.
