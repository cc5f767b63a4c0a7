------------------------------ MODULE ArmBoot ------------------------------
(***************************************************************************)
(* The ARM kernel loader of src/hw/arm_boot.c: arm_load_kernel (ELF, then  *)
(* u-boot, then raw image; initrd; the patched bootloader stub),           *)
(* set_kernel_args (the ATAG list at KERNEL_ARGS_ADDR) and main_cpu_reset, *)
(* which cpu_reset and the loader run again at every system reset, after  *)
(* the guest has run and may have overwritten its memory.                  *)
(*                                                                         *)
(* RAM is a function from word index (RAM offset / 4) to a word.  A word   *)
(* is an instruction of the stub with its 8-bit immediate, a data word, or *)
(* a marker for bytes of the kernel, the initrd, the command line or the   *)
(* guest.                                                                  *)
(***************************************************************************)
EXTENDS Naturals, Sequences, Bitwise, TLC

CONSTANTS
    Kernels,     \* what load_elf/load_uboot/load_image find: subset of
                 \* {"elf", "uboot", "uboot_linux", "raw", "bad", "missing"}
    Entries,     \* ELF and u-boot entry points
    Initrds,     \* initrd image: subset of {"none", "ok", "bad"}
    CmdLens,     \* strlen of the kernel command line (0: none or empty)
    BoardId,     \* the board's machine type
    RamSize,
    LoaderStart,
    InitrdSize,  \* size load_image returns for the initrd
    Scribble,    \* RAM words the guest overwrites while it runs
    MaxResets    \* bound on system resets

KERNEL_ARGS_ADDR == 256
KERNEL_LOAD_ADDR == 65536
INITRD_LOAD_ADDR == 8388608
ATAG_CORE == 1413545985      \* 0x54410001
ATAG_MEM == 1413545986       \* 0x54410002
ATAG_INITRD2 == 1413611525   \* 0x54420005
ATAG_CMDLINE == 1413545993   \* 0x54410009

Insn(op, imm) == [op |-> op, imm |-> imm]
D(v) == Insn("data", v)
Mark(m) == Insn(m, 0)

\* static uint32_t bootloader[]: the stub's initial contents, indices as in C.
BootloaderInit ==
    [n \in 0 .. 6 |-> CASE n = 0 -> Insn("mov r0", 0)
                        [] n = 1 -> Insn("mov r1", 0)
                        [] n = 2 -> Insn("orr r1", 0)
                        [] n = 3 -> Insn("ldr r2", 0)
                        [] n = 4 -> Insn("ldr pc", 0)
                        [] OTHER -> D(0)]

ArgsWord == KERNEL_ARGS_ADDR \div 4
RawWord == KERNEL_LOAD_ADDR \div 4
InitrdWord == INITRD_LOAD_ADDR \div 4
\* Where an ELF or u-boot image lands: the word of its entry point.
ImageWord(k, entry) == IF k = "raw" THEN RawWord ELSE entry \div 4

\* Mutant: the NUL's word left out of the count.
CmdlineWordsShort(len) == len \div 4
\* (cmdline_size >> 2) + 1: the words the command line and its NUL take.
CmdlineWords(len) == (len \div 4) + 1

\* set_kernel_args: the words stl_raw writes from KERNEL_ARGS_ADDR on,
\* after the memcpy of the command line to p + 2.  Returns the new RAM and
\* the set of words written.
SetKernelArgs(rm, initrd_size, len) ==
    LET head == <<D(5), D(ATAG_CORE), D(1), D(4096), D(0),
                  D(4), D(ATAG_MEM), D(RamSize), D(LoaderStart)>>
                \o (IF initrd_size # 0
                    THEN <<D(4), D(ATAG_INITRD2), D(LoaderStart + INITRD_LOAD_ADDR),
                           D(initrd_size)>>
                    ELSE <<>>)
        p == ArgsWord + Len(head)
        cmdw == IF len = 0 THEN {}
                ELSE {w \in DOMAIN rm : 4 * (p + 2) <= 4 * w + 3 /\ 4 * w < 4 * (p + 2) + len + 1}
        tag == IF len = 0 THEN <<>> ELSE <<D(CmdlineWords(len) + 2), D(ATAG_CMDLINE)>>
        e == p + (IF len = 0 THEN 0 ELSE 2 + CmdlineWords(len))
        stl == [i \in ArgsWord .. p - 1 |-> head[i - ArgsWord + 1]]
               @@ [i \in p .. p + Len(tag) - 1 |-> tag[i - p + 1]]
               @@ [i \in {e, e + 1} |-> D(0)]
        rm1 == [w \in DOMAIN rm |-> IF w \in cmdw THEN Mark("cmd") ELSE rm[w]]
    IN [ram |-> [w \in DOMAIN rm |-> IF w \in DOMAIN stl THEN stl[w] ELSE rm1[w]],
        written |-> DOMAIN stl \cup cmdw]

\* Mutant: the immediates patched with + instead of |=.
PatchBootloaderAdd(bl, entry) ==
    [bl EXCEPT ![1] = Insn("mov r1", @.imm + (BoardId % 256)),
               ![2] = Insn("orr r1", @.imm + ((BoardId \div 256) % 256)),
               ![5] = D(LoaderStart + KERNEL_ARGS_ADDR),
               ![6] = D(entry)]
\* bootloader[1] |= board_id & 0xff; bootloader[2] |= (board_id >> 8) & 0xff;
\* bootloader[5] = loader_start + KERNEL_ARGS_ADDR; bootloader[6] = entry.
PatchBootloader(bl, entry) ==
    [bl EXCEPT ![1] = Insn("mov r1", @.imm | (BoardId % 256)),
               ![2] = Insn("orr r1", @.imm | ((BoardId \div 256) % 256)),
               ![5] = D(LoaderStart + KERNEL_ARGS_ADDR),
               ![6] = D(entry)]

\* Mutant: the pc is the entry point with the Thumb bit left in.
EntryPcUnmasked(entry) == entry
\* env->regs[15] = entry & 0xfffffffe
EntryPc(entry) == entry - (entry % 2)

VARIABLES
    image,       \* what the loader finds: kernel, entry, initrd, command line
    env,         \* kernel_filename saved in env, regs[15], thumb
    registered,  \* main_cpu_reset registered with qemu_register_reset
    bootloader,  \* the static stub, patched in place by every load
    ram,         \* guest RAM: word index -> word
    status,      \* "off", "booted" (CPU about to run), "running", "exited"
    boot0,       \* history: the words and entry state of the first boot
    resets

vars == <<image, env, registered, bootloader, ram, status, boot0, resets>>

\* The RAM words any load can write: stub, ATAGs, images.
RamIdx == (0 .. 6) \cup (ArgsWord .. ArgsWord + 19)
          \cup {RawWord, InitrdWord} \cup {e \div 4 : e \in Entries} \cup Scribble

\* arm_load_kernel: the new env, stub, RAM, the words written, and whether
\* it exit(1)s.  The entry state of a non-Linux image is regs[15] and thumb.
ArmLoadKernel(e, bl, rm) ==
    LET k == image.kernel
        first == ~e.kernel_filename
        is_linux == k \in {"uboot_linux", "raw"}
        entry == IF k = "raw" THEN LoaderStart + KERNEL_LOAD_ADDR ELSE image.entry
        iw == ImageWord(k, entry)
        rmk == [rm EXCEPT ![iw] = Mark("kernel")]
        initrd_size == IF image.initrd = "ok" THEN InitrdSize ELSE 0
        rmi == IF image.initrd = "ok" THEN [rmk EXCEPT ![InitrdWord] = Mark("initrd")] ELSE rmk
        bl2 == PatchBootloader(bl, entry)
        args == SetKernelArgs([w \in DOMAIN rmi |-> IF w \in 0 .. 6 THEN bl2[w] ELSE rmi[w]],
                              initrd_size, image.cmdlen)
        fail == [env |-> e, bootloader |-> bl, ram |-> rm, written |-> {}, exit |-> TRUE,
                 first |-> first]
    IN CASE k = "missing" -> fail
         [] k = "bad" -> [fail EXCEPT !.env.kernel_filename = TRUE]
         [] ~is_linux ->
              [env |-> [e EXCEPT !.kernel_filename = TRUE, !.pc = EntryPc(entry),
                                 !.thumb = entry % 2],
               bootloader |-> bl, ram |-> rmk, written |-> {iw}, exit |-> FALSE,
               first |-> first]
         [] image.initrd = "bad" -> [fail EXCEPT !.env.kernel_filename = TRUE,
                                                 !.ram = rmk]
         [] OTHER ->
              [env |-> [e EXCEPT !.kernel_filename = TRUE], bootloader |-> bl2,
               ram |-> args.ram, exit |-> FALSE, first |-> first,
               written |-> {iw} \cup (0 .. 6) \cup args.written
                           \cup (IF image.initrd = "ok" THEN {InitrdWord} ELSE {})]

Snapshot(r) == [ram |-> [w \in r.written |-> r.ram[w]], pc |-> r.env.pc, thumb |-> r.env.thumb]

Init ==
    /\ image \in [kernel : Kernels, entry : Entries, initrd : Initrds, cmdlen : CmdLens]
    /\ env = [kernel_filename |-> FALSE, pc |-> 0, thumb |-> 0]
    /\ registered = FALSE
    /\ bootloader = BootloaderInit
    /\ ram = [w \in RamIdx |-> D(0)]
    /\ status = "off"
    /\ boot0 = [ram |-> <<>>, pc |-> 0, thumb |-> 0]
    /\ resets = 0

Apply(r) ==
    /\ env' = r.env
    /\ bootloader' = r.bootloader
    /\ ram' = r.ram
    /\ status' = IF r.exit THEN "exited" ELSE "booted"

\* The board's init calls arm_load_kernel once, after cpu_reset; a first
\* call registers main_cpu_reset.
BoardInit ==
    /\ status = "off"
    /\ LET r == ArmLoadKernel(env, bootloader, ram)
       IN /\ Apply(r)
          /\ registered' = (registered \/ r.first)
          /\ boot0' = Snapshot(r)
    /\ UNCHANGED <<image, resets>>

\* The guest runs: it moves the pc, may enter Thumb, and overwrites a word.
GuestRun ==
    /\ status \in {"booted", "running"}
    /\ \E w \in Scribble, t \in {0, 1} :
          /\ ram' = [ram EXCEPT ![w] = Mark("guest")]
          /\ env' = [env EXCEPT !.pc = 4, !.thumb = t]
    /\ status' = "running"
    /\ UNCHANGED <<image, registered, bootloader, boot0, resets>>

\* Mutant: the memset of cpu_reset also clears the saved boot arguments.
CpuResetBootClears(e) == [kernel_filename |-> FALSE, pc |-> 0, thumb |-> 0]
\* cpu_reset as it touches the loader's state: regs[15] and thumb are
\* cleared; kernel_filename lies after breakpoints and is kept.
CpuResetBoot(e) == [e EXCEPT !.pc = 0, !.thumb = 0]

\* qemu_system_reset: main_cpu_reset, i.e. cpu_reset and, if a kernel was
\* given, arm_load_kernel with the saved arguments.
MainCpuReset ==
    /\ status \in {"booted", "running"}
    /\ registered
    /\ resets < MaxResets
    /\ LET e == CpuResetBoot(env)
           r == ArmLoadKernel(e, bootloader, ram)
       IN IF e.kernel_filename THEN Apply(r)
          ELSE /\ env' = e /\ status' = "booted" /\ UNCHANGED <<bootloader, ram>>
    /\ resets' = resets + 1
    /\ UNCHANGED <<image, registered, boot0>>

Next == BoardInit \/ GuestRun \/ MainCpuReset

Spec == Init /\ [][Next]_vars

-----------------------------------------------------------------------------
IsLinux == image.kernel \in {"uboot_linux", "raw"}
Entry == IF image.kernel = "raw" THEN LoaderStart + KERNEL_LOAD_ADDR ELSE image.entry

TypeOK ==
    /\ image \in [kernel : Kernels, entry : Entries, initrd : Initrds, cmdlen : CmdLens]
    /\ DOMAIN ram = RamIdx
    \* the stub's mov/orr immediates are 8-bit fields of the instruction
    /\ \A n \in 1 .. 2 : bootloader[n].imm \in 0 .. 255
    /\ env.thumb \in {0, 1}
    /\ status \in {"off", "booted", "running", "exited"}
    /\ resets \in 0 .. MaxResets

\* The ATAG list from KERNEL_ARGS_ADDR, followed by the size word of each
\* tag: the tags met, in order, up to ATAG_END (size 0).
RECURSIVE AtagWalk(_, _)
AtagWalk(i, k) ==
    IF k = 0 \/ {i, i + 1} \ RamIdx # {} \/ ram[i].op # "data" THEN <<"broken">>
    ELSE IF ram[i].imm = 0 THEN <<"end">>
    ELSE <<ram[i + 1].imm>> \o AtagWalk(i + ram[i].imm, k - 1)

\* When a Linux kernel is about to run, the ATAG list set_kernel_args wrote
\* is CORE, MEM, INITRD2 if an initrd was loaded, CMDLINE if a command line
\* was given, then END; and the command line with its NUL lies inside the
\* CMDLINE tag, not overwritten by ATAG_END (the size arithmetic of
\* set_kernel_args).
AtagsWellFormed ==
    status = "booted" /\ IsLinux =>
      LET p == ArgsWord + 9 + (IF image.initrd = "ok" THEN 4 ELSE 0)
          bytes == {b \in 4 * (p + 2) .. 4 * (p + 2) + image.cmdlen : TRUE}
      IN /\ AtagWalk(ArgsWord, 6) =
              <<ATAG_CORE, ATAG_MEM>> \o (IF image.initrd = "ok" THEN <<ATAG_INITRD2>> ELSE <<>>)
              \o (IF image.cmdlen > 0 THEN <<ATAG_CMDLINE>> ELSE <<>>) \o <<"end">>
         /\ image.cmdlen > 0 =>
              \A b \in bytes : b < 4 * (p + ram[p].imm) /\ ram[b \div 4] = Mark("cmd")

\* The CPU enters the kernel as the boot protocol requires.  A non-Linux
\* image starts at its entry point, in Thumb state if bit 0 is set.  For
\* Linux the pc holds the stub, which loads r1 with the machine type and r2
\* with the address of ATAG_CORE and jumps to the kernel.
BootEntry ==
    status = "booted" =>
      IF ~IsLinux THEN env.pc % 2 = 0 /\ env.pc + env.thumb = Entry
      ELSE LET at(a) == (a - LoaderStart) \div 4
           IN /\ env.pc >= LoaderStart /\ at(env.pc) \in RamIdx
              /\ ram[at(env.pc)] = Insn("mov r0", 0)
              /\ ram[1].imm + 256 * ram[2].imm = BoardId % 65536
              /\ ram[at(ram[5].imm) + 1] = D(ATAG_CORE)
              /\ ram[at(ram[6].imm)] = Mark("kernel")

\* A system reset after the guest has run puts back exactly the words and
\* entry state of the first boot (main_cpu_reset re-runs arm_load_kernel
\* with the arguments saved in env and the static stub it patched before).
ResetIdempotent ==
    status = "booted" /\ resets > 0 =>
      /\ \A w \in DOMAIN boot0.ram : ram[w] = boot0.ram[w]
      /\ env.pc = boot0.pc /\ env.thumb = boot0.thumb

=============================================================================
