-------------------------------- MODULE Boot --------------------------------
(***************************************************************************)
(* From the loader to C: the boot sector's read loop and the ELF copy of   *)
(* the two loaders (disk_boot.asm, stub.c), the page tables boot.asm       *)
(* builds, and the steps by which boot.asm and long_mode.asm bring the     *)
(* processor from 32-bit code without paging to kernel_early_init.         *)
(*                                                                         *)
(* A page table has T entries instead of 512, so slots 511 and 510 are     *)
(* T - 1 and T - 2.  The boot stack is a sequence of 4-byte words: word 0  *)
(* is the first above temp_stack_top, which is boot_clear_start.           *)
(***************************************************************************)
EXTENDS Integers, Sequences, FiniteSets, SequencesExt

CONSTANTS
  T,               \* entries of a page table
  InfoPointers,    \* the values EBX can have
  SPT, HEADS,      \* sectors of a track and heads of the floppy, 18 and 2
  SectorCounts,    \* what makedisk patches into num_sectors
  ImageBase, LoadBase, \* where the loader finds the ELF file, and the kernel goes
  MaxBytes         \* bound: bytes of a segment

VARIABLES
  cpu,       \* what the boot code sets in the processor, and where it is
  tables,    \* pml4_table, pdpt_low, pdpt_high and pd_table
  words,     \* the words of the boot stack and the one above it
  handed,    \* EAX and EBX as the loader left them
  loader,    \* disk_boot.asm: cx, lba and what was read where
  copy,      \* the program headers, which one is being copied and by whom
  ram        \* the memory the copy reads and writes

cpuVars == <<cpu, tables, words, handed>>
loadVars == <<loader>>
copyVars == <<copy, ram>>
bootVars == <<cpu, tables, words, handed, loader, copy, ram>>

-----------------------------------------------------------------------------
(* boot.asm.                                                               *)

Empty == [i \in 0 .. T - 1 |-> {}]
MAGIC == 1
CODE == 99   \* a selector or address pushed on the way, never 0

Loaders == [eax : {MAGIC, 0}, ebx : InfoPointers]

CpuInit(loaders) ==
  /\ handed \in loaders
  /\ cpu = [at |-> "_start", magic |-> 0, gdt |-> "loader", cs |-> "loader", pae |-> FALSE,
            cr3 |-> FALSE, lme |-> FALSE, pg |-> FALSE, iflag |-> FALSE, sp |-> 0, rdi |-> <<>>]
  /\ tables = [pml4 |-> Empty, low |-> Empty, high |-> Empty, pd |-> Empty]
  /\ words = [w \in -8 .. 1 |-> 0]

Goto(label) == cpu' = [cpu EXCEPT !.at = label]
Fault == cpu' = [cpu EXCEPT !.at = "fault"]

(* Saves what the loader passed and pushes EBX; another loader's magic is  *)
(* replaced by the right one.                                              *)
_start ==
  /\ cpu.at = "_start"
  /\ words' = [words EXCEPT ![-1] = handed.ebx]
  /\ cpu' = [cpu EXCEPT !.at = "clear", !.magic = MAGIC, !.sp = -1]
  /\ UNCHANGED <<tables, handed>>

clear_storage ==
  /\ cpu.at = "clear"
  /\ words' = [words EXCEPT ![0] = 0]
  /\ cpu' = [cpu EXCEPT !.at = "tables", !.iflag = FALSE, !.gdt = "gdt32", !.cs = "code32",
                        !.pae = TRUE]
  /\ UNCHANGED <<tables, handed>>

(* The tables: PML4[0] and PDPT_LOW[0] for the identity map, PML4[511] and *)
(* PDPT_HIGH[510] for the kernel's window, one page directory for both.    *)
TablesBuilt_slot0 ==
  [pml4 |-> [Empty EXCEPT ![0] = {"low"}, ![T - 1] = {"high"}], low |-> [Empty EXCEPT ![0] = {"pd"}],
   high |-> [Empty EXCEPT ![0] = {"pd"}], pd |-> [i \in 0 .. T - 1 |-> {i}]]
TablesBuilt ==
  [pml4 |-> [Empty EXCEPT ![0] = {"low"}, ![T - 1] = {"high"}], low |-> [Empty EXCEPT ![0] = {"pd"}],
   high |-> [Empty EXCEPT ![T - 2] = {"pd"}], pd |-> [i \in 0 .. T - 1 |-> {i}]]

setup_page_tables ==
  /\ cpu.at = "tables"
  /\ tables' = TablesBuilt
  /\ Goto("cr3")
  /\ UNCHANGED <<words, handed>>

(* What an address, given by its three indices, is mapped to; an entry is  *)
(* empty or holds one table or 2 MB page.                                  *)
Walk(i4, i3, i2) ==
  UNION {tables[pt][i2] : pt \in UNION {tables[dir][i3] : dir \in tables.pml4[i4]}}

load_cr3 ==
  /\ cpu.at = "cr3"
  /\ cpu' = [cpu EXCEPT !.at = "lme", !.cr3 = TRUE]
  /\ UNCHANGED <<tables, words, handed>>

set_lme ==
  /\ cpu.at = "lme"
  /\ cpu' = [cpu EXCEPT !.at = "pg", !.lme = TRUE]
  /\ UNCHANGED <<tables, words, handed>>

(* CR0.PG: from here on the code is fetched through the tables, at its     *)
(* identity address; without PAE and LME the four levels are not used.     *)
set_pg ==
  /\ cpu.at = "pg"
  /\ IF cpu.pae /\ cpu.lme /\ cpu.cr3 /\ Walk(0, 0, 0) = {0}
     THEN cpu' = [cpu EXCEPT !.at = "far", !.pg = TRUE, !.gdt = "gdt64"] ELSE Fault
  /\ UNCHANGED <<tables, words, handed>>

(* push, push, retf into the 64-bit code segment: two words, taken again.  *)
far_jump ==
  /\ cpu.at = "far"
  /\ words' = [words EXCEPT ![cpu.sp - 1] = CODE, ![cpu.sp - 2] = CODE]
  /\ IF cpu.pg /\ cpu.gdt = "gdt64" THEN cpu' = [cpu EXCEPT !.at = "long_mode_start", !.cs = "code64"]
     ELSE Fault
  /\ UNCHANGED <<tables, handed>>

(* long_mode.asm: null selectors, its own GDT, a far return through four   *)
(* words, and the pop of the information pointer, of which only one word   *)
(* was pushed: the other is word 0.                                        *)
long_mode_start ==
  /\ cpu.at = "long_mode_start"
  /\ words' = [words EXCEPT ![cpu.sp - 1] = 0, ![cpu.sp - 2] = CODE,
                            ![cpu.sp - 3] = 0, ![cpu.sp - 4] = CODE]
  /\ cpu' = [cpu EXCEPT !.at = "call", !.gdt = "flat", !.iflag = FALSE,
                        !.rdi = <<words[cpu.sp], words[cpu.sp + 1]>>, !.sp = @ + 2]
  /\ UNCHANGED <<tables, handed>>

(* The calls of kernel_early_init and kernel_main, in the kernel's window. *)
call_kernel ==
  /\ cpu.at \in {"call", "early"}
  /\ words' = [words EXCEPT ![cpu.sp - 1] = CODE, ![cpu.sp - 2] = CODE]
  /\ IF Walk(T - 1, T - 2, 0) = {0}
     THEN Goto(IF cpu.at = "call" THEN "early" ELSE "main") ELSE Fault
  /\ UNCHANGED <<tables, handed>>

CpuNext ==
  /\ \/ _start \/ clear_storage \/ setup_page_tables \/ load_cr3 \/ set_lme \/ set_pg
     \/ far_jump \/ long_mode_start \/ call_kernel
  /\ UNCHANGED <<loadVars, copyVars>>

(* No step of the way to C faults, and C is entered in 64-bit mode with    *)
(* interrupts off and RDI holding the pointer the loader passed, its upper *)
(* half 0 although only the lower was pushed; the stack pointer is then 4  *)
(* bytes below the top, and no push has reached beyond boot_clear_end.     *)
BootArrives ==
  /\ cpu.at # "fault"
  /\ cpu.pg => cpu.pae /\ cpu.lme /\ cpu.cr3
  /\ cpu.at \in {"early", "main"} =>
       /\ cpu.cs = "code64" /\ cpu.gdt = "flat" /\ ~ cpu.iflag
       /\ cpu.rdi = <<handed.ebx, 0>>
       /\ cpu.magic = MAGIC
       /\ cpu.sp - 2 = -1
       /\ words[1] = 0

(* With paging on, the first 1 GB of memory is seen at its own address and *)
(* in the kernel's window at PML4[511]/PDPT[510], through the same page    *)
(* directory, and nothing else is mapped.                                  *)
BootMaps ==
  cpu.pg =>
    \A i4, i3, i2 \in 0 .. T - 1 :
      Walk(i4, i3, i2) = IF <<i4, i3>> \in {<<0, 0>>, <<T - 1, T - 2>>} THEN {i2} ELSE {}

-----------------------------------------------------------------------------
(* disk_boot.asm.  CX counts the sectors that remain and also carries the  *)
(* cylinder and sector of the BIOS call.                                   *)

LoaderInit(counts) ==
  loader \in [at : {"read"}, cx : counts, lba : {1}, dst : {0}, chs : {<<>>}]

(* The conversion: DX = LBA % 18, plus 1; AX = LBA / 18, split in cylinder *)
(* and head.                                                               *)
Chs_base0(lba) == [c |-> (lba \div SPT) \div HEADS, h |-> (lba \div SPT) % HEADS, s |-> lba % SPT]
Chs(lba) == [c |-> (lba \div SPT) \div HEADS, h |-> (lba \div SPT) % HEADS, s |-> (lba % SPT) + 1]

(* One turn of .read_loop.  CH and CL are the low and high part of the     *)
(* cylinder with the sector, so the count left is theirs, less the one     *)
(* sector read; dst is how far dst_seg:dst_off is from 0x10000, in sectors.*)
read_loop ==
  /\ loader.at = "read"
  /\ IF loader.cx = 0 THEN loader' = [loader EXCEPT !.at = "done"]
     ELSE LET a == Chs(loader.lba)
              cx == ((a.c % 256) * 256) + a.s + ((a.c \div 256) * 64)
          IN  loader' = [at |-> "read", cx |-> cx - 1, lba |-> loader.lba + 1,
                         dst |-> loader.dst + 1, chs |-> Append(loader.chs, a)]

read_error == loader.at = "read" /\ loader.cx # 0 /\ loader' = [loader EXCEPT !.at = "error"]

LoaderNext == (read_loop \/ read_error) /\ UNCHANGED <<cpuVars, copyVars>>

(* The sectors read are LBA 1, 2, ... in order, each at the place after    *)
(* the last, and each cylinder, head and sector means that LBA.  When the  *)
(* loop ends it has read the rest of the first track and one sector more,  *)
(* 18 in all, whatever number it was given, unless that was 0.             *)
DiskBootReads ==
  /\ \A k \in 1 .. Len(loader.chs) :
       LET a == loader.chs[k] IN
         a.s \in 1 .. SPT /\ a.h \in 0 .. HEADS - 1
           /\ ((a.c * HEADS + a.h) * SPT) + a.s - 1 = k
  /\ loader.dst = Len(loader.chs) /\ loader.lba = loader.dst + 1
  /\ loader.at = "done" => Len(loader.chs) \in {0, SPT}

-----------------------------------------------------------------------------
(* The ELF copy.  The file lies at ImageBase; a program header says where  *)
(* in it a segment is, where it goes, and how long it is there and here.   *)
(* A byte of the file is its offset; other memory starts Untouched.         *)

Headers == {h \in [type : {1, 2}, offset : 0 .. 1, paddr : LoadBase .. LoadBase + 2,
                   filesz : 0 .. MaxBytes, memsz : 0 .. MaxBytes] : h.filesz <= h.memsz}
Ram == 0 .. LoadBase + 2 + MaxBytes
FileLen == 1 + MaxBytes
CopyInputs == [by : {"disk", "stub"}, magic : BOOLEAN,
               headers : {<<h>> : h \in Headers} \cup
                         {<<g, h>> : g \in {f \in Headers : f.type = 1}, h \in {f \in Headers : f.filesz = 1}}]

Untouched == -1
ZERO == -2

CopyInit(inputs) ==
  /\ copy \in {[by |-> i.by, magic |-> i.magic, headers |-> i.headers, next |-> 0] : i \in inputs}
  /\ ram = [a \in Ram |-> IF a \in ImageBase .. ImageBase + FileLen - 1 THEN a - ImageBase ELSE Untouched]

(* A file without the ELF magic stops both loaders.                        *)
check_magic == copy.next = 0 /\ copy.magic /\ copy' = [copy EXCEPT !.next = 1] /\ UNCHANGED ram

(* The bytes go up one at a time, so a byte of the file that an earlier    *)
(* one has overwritten is lost.                                            *)
Moved(m, h) ==
  LET step[j \in 0 .. MaxBytes] ==
        IF j = 0 THEN m
        ELSE IF j > h.filesz THEN step[j - 1]
        ELSE [step[j - 1] EXCEPT ![h.paddr + j - 1] = step[j - 1][ImageBase + h.offset + j - 1]]
  IN  step[MaxBytes]

Cleared_none(m, h) == m
Cleared(m, h) == [a \in Ram |-> IF a \in h.paddr + h.filesz .. h.paddr + h.memsz - 1 THEN ZERO ELSE m[a]]

(* One program header.  Only PT_LOAD is copied; stub.c clears the rest of  *)
(* the segment, disk_boot.asm does not.                                    *)
copy_segment ==
  /\ copy.next \in 1 .. Len(copy.headers)
  /\ LET h == copy.headers[copy.next]
         m == Moved(ram, h)
     IN  ram' = IF h.type # 1 THEN ram ELSE IF copy.by = "stub" THEN Cleared(m, h) ELSE m
  /\ copy' = [copy EXCEPT !.next = @ + 1]

CopyNext == (check_magic \/ copy_segment) /\ UNCHANGED <<cpuVars, loadVars>>

(* When the loader jumps to the kernel, and every segment went to memory   *)
(* the file does not lie in and no other segment claims, the kernel is in  *)
(* memory as its headers say; the part the file does not fill is cleared   *)
(* by the stub and left as it was by the boot sector.                      *)
SegmentsCopied ==
  copy.next > Len(copy.headers) =>
    LET H == SelectSeq(copy.headers, LAMBDA h : h.type = 1)
        Area(k) == H[k].paddr .. H[k].paddr + H[k].memsz - 1
        file == ImageBase .. ImageBase + FileLen - 1
        apart == /\ \A k \in 1 .. Len(H) : Area(k) \cap file = {}
                 /\ \A j, k \in 1 .. Len(H) : j # k => Area(j) \cap Area(k) = {}
    IN  copy.magic /\
        (apart =>
          \A k \in 1 .. Len(H) : \A i \in 0 .. H[k].memsz - 1 :
            ram[H[k].paddr + i] = IF i < H[k].filesz THEN H[k].offset + i
                                  ELSE IF copy.by = "stub" THEN ZERO ELSE Untouched)

-----------------------------------------------------------------------------
BootInit(loaders, counts, inputs) == CpuInit(loaders) /\ LoaderInit(counts) /\ CopyInit(inputs)
BootNext == CpuNext \/ LoaderNext \/ CopyNext

=============================================================================
