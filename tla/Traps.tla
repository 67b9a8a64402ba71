------------------------------- MODULE Traps -------------------------------
(***************************************************************************)
(* Descriptor tables and the way of a trap through them (hal/gdt/gdt.c,    *)
(* hal/tss/tss.c, hal/idt/idt.c, hal/idt/idt_isr.c,                        *)
(* arch/x86_64/isr_stubs.asm).                                             *)
(*                                                                         *)
(* An address is a tuple of its bits 0-15, 16-23, 24-31 and 32-63, as the  *)
(* descriptors split it.  A GDT entry is a tuple in the order of its       *)
(* fields: limit 0-15, base 0-15, base 16-23, access, flags with limit     *)
(* 16-19, base 24-31.                                                      *)
(* The stack holds the names of the registers that were pushed, the top    *)
(* first.  What the CPU does is external: it pushes a frame, and for some  *)
(* vectors an error code; it finds the stack of a gate with an IST index   *)
(* in the TSS, and the TSS through the task register.                      *)
(***************************************************************************)
EXTENDS Integers, Sequences, SequencesExt

CONSTANT Raised      \* vectors that are raised, or called with INT

KernelHalf == 1      \* bits 32-63 of every address of the kernel
Address(n) == <<n, 16, 128, KernelHalf>>
g_tss_at == Address(500)
Unset == <<0, 0, 0, 0>>
NullEntry == <<0, 0, 0, 0, 0, 0>>

VARIABLES gdt, tss, tr, idt, boot,
          at,        \* step of the trap under way, and its vector
          stack, reg, on

trapVars == <<gdt, tss, tr, idt, boot, at, stack, reg, on>>

gdt_set_entry(g, i, base, limit, access, flags) ==
  [g EXCEPT ![i] = <<limit[1], base[1], base[2], access, limit[2] + flags, base[3]>>]

NoLimit == <<0, 0>>

\* The descriptor takes two entries; the second, with bits 32-63 of the
\* address, is cleared again
gdt_set_tss(g, i, address, limit) ==
  LET both == [gdt_set_entry(g, i, address, limit, 137, 0) EXCEPT ![i + 1] = <<address[4], 0, 0, 0, 0, 0>>]
  IN  gdt_set_entry(both, i + 1, Unset, NoLimit, 0, 0)

\* The null entry, kernel code and data, and user code and data
FlatSegments ==
  LET entry(g, s) == gdt_set_entry(g, s[1], Unset, s[2], s[3], s[4])
  IN  FoldLeft(entry, [i \in 0 .. 8 |-> NullEntry],
               << <<1, NoLimit, 154, 32>>, <<2, NoLimit, 146, 32>>, <<3, <<65535, 15>>, 250, 192>>,
                  <<4, NoLimit, 242, 32>>, <<5, NoLimit, 250, 32>> >>)

\* What the task register has after ltr: the base, from both entries
ltr(g) == <<g[6][2], g[6][3], g[6][6], g[7][1]>>

\* tss_init with tss_set_ist
ist == <<Address(501), Address(502), Address(503)>>

tss_init(g) ==
  /\ tss' = ist
  /\ gdt' = gdt_set_tss(g, 6, g_tss_at, <<103, 0>>)
  /\ tr' = ltr(gdt')

\* gdt_init calls tss_init, and kernel_early_init calls it again
gdt_init ==
  /\ boot = "start"
  /\ tss_init(FlatSegments)
  /\ boot' = "gdt"
  /\ UNCHANGED <<idt, at, stack, reg, on>>

isr_stub_table == [v \in 0 .. 31 |-> Address(100 + v)]
irq_stub_table == [i \in 0 .. 15 |-> Address(200 + i)]

NoGate == [low |-> 0, mid |-> <<0, 0>>, high |-> 0, ist |-> 0, present |-> FALSE]

idt_set_gate(handler, index) ==
  [low |-> handler[1], mid |-> <<handler[2], handler[3]>>, high |-> handler[4],
   ist |-> index, present |-> TRUE]

\* Faulty variant: the vector of an IRQ is its number
idt_init_irq0 ==
  /\ boot = "gdt"
  /\ idt' = [v \in 0 .. 255 |->
       IF v <= 15 THEN idt_set_gate(irq_stub_table[v], 0)
       ELSE IF v <= 31 THEN idt_set_gate(isr_stub_table[v], 0) ELSE NoGate]
  /\ boot' = "idt"
  /\ UNCHANGED <<gdt, tss, tr, at, stack, reg, on>>

\* Faulty variant: no gate has an IST index
idt_init_noist ==
  /\ boot = "gdt"
  /\ idt' = [v \in 0 .. 255 |->
       IF v <= 31 THEN idt_set_gate(isr_stub_table[v], 0)
       ELSE IF v <= 47 THEN idt_set_gate(irq_stub_table[v - 32], 0) ELSE NoGate]
  /\ boot' = "idt"
  /\ UNCHANGED <<gdt, tss, tr, at, stack, reg, on>>

idt_init ==
  /\ boot = "gdt"
  /\ idt' = [v \in 0 .. 255 |->
       IF v <= 31
       THEN idt_set_gate(isr_stub_table[v], IF v = 2 THEN 1 ELSE IF v = 8 THEN 2 ELSE IF v = 18 THEN 3 ELSE 0)
       ELSE IF v <= 47 THEN idt_set_gate(irq_stub_table[v - 32], 0) ELSE NoGate]
  /\ boot' = "idt"
  /\ UNCHANGED <<gdt, tss, tr, at, stack, reg, on>>

tss_init_again ==
  /\ boot = "idt"
  /\ tss_init(gdt)
  /\ boot' = "done"
  /\ UNCHANGED <<idt, at, stack, reg, on>>
-----------------------------------------------------------------------------
CpuPushesError == {8, 10, 11, 12, 13, 14, 17, 21, 29, 30}
ISR_ERR == {8, 10, 11, 12, 13, 14, 17, 30}
Frame == <<"rip", "cs", "rflags", "rsp", "ss">>

Saved == <<"rax", "rbx", "rcx", "rdx", "rsi", "rdi", "rbp", "r8", "r9", "r10", "r11", "r12", "r13",
           "r14", "r15", "ds", "es", "fs", "gs">>
Restored == <<"gs", "fs", "es", "ds", "r15", "r14", "r13", "r12", "r11", "r10", "r9", "r8", "rbp",
              "rdi", "rsi", "rdx", "rcx", "rbx", "rax">>

\* registers_t, from the lowest address on
registers == <<"gs", "fs", "es", "ds", "r15", "r14", "r13", "r12", "r11", "r10", "r9", "r8", "rbp",
               "rdi", "rsi", "rdx", "rcx", "rbx", "rax", "vector", "error_code">>
Field(name) == stack[CHOOSE i \in 1 .. Len(registers) : registers[i] = name]

\* The CPU takes vector v, or a general protection fault for want of a gate
Taken(v) == IF idt[v].present THEN v ELSE 13

raise(v) ==
  /\ boot = "done" /\ at.step = "running"
  /\ LET w == Taken(v)
         gate == idt[w]
     IN  /\ stack' = (IF w \in CpuPushesError THEN <<"code">> ELSE <<>>) \o Frame
         /\ at' = [step |-> "stub", vector |-> v, entry |-> <<gate.low>> \o gate.mid \o <<gate.high>>]
         /\ on' = IF gate.ist = 0 THEN <<"kernel">>
                  ELSE IF tr = g_tss_at THEN tss[gate.ist] ELSE <<"wild">>
  /\ UNCHANGED <<gdt, tss, tr, idt, boot, reg>>


\* What a stub pushes
Stub(v) == IF v \in ISR_ERR THEN <<v>> ELSE <<v, "zero">>

\* The stub at the gate's address pushes its own vector
isr_stub ==
  LET v == CHOOSE w \in 0 .. 47 : at.entry = IF w <= 31 THEN isr_stub_table[w] ELSE irq_stub_table[w - 32]
  IN  /\ at.step = "stub"
      /\ stack' = Reverse(Saved) \o Stub(v) \o stack
      /\ reg' = [r \in DOMAIN reg |-> "kernel"]
      /\ at' = [at EXCEPT !.step = "handler"]
      /\ UNCHANGED <<gdt, tss, tr, idt, boot, on>>

\* Exceptions whose handler logs and stops the CPU, and those whose handler
\* logs and returns; isr_default, for the others, stops the CPU too
Stopping == {0, 2, 6, 8, 10, 11, 12, 13, 14, 18}
Returning == {1, 3, 4, 5, 7, 16, 17, 19, 20, 21, 29, 30}

isr_common_handler ==
  LET v == Field("vector")
  IN  /\ at.step = "handler"
      /\ at' = [at EXCEPT !.step = IF v \notin Stopping /\ (v \in Returning \/ v \in 32 .. 47)
                                  THEN "return" ELSE "halted"]
      /\ UNCHANGED <<gdt, tss, tr, idt, boot, stack, reg, on>>

\* The rest of isr_common_entry, up to iretq
isr_return ==
  LET n == Len(Restored)
  IN  /\ at.step = "return"
      /\ reg' = [r \in DOMAIN reg |-> stack[CHOOSE i \in 1 .. n : Restored[i] = r]]
      /\ stack' = SubSeq(stack, n + 3, Len(stack))
      /\ at' = [at EXCEPT !.step = "iretq"]
      /\ UNCHANGED <<gdt, tss, tr, idt, boot, on>>

iretq ==
  /\ at.step = "iretq"
  /\ at' = [at EXCEPT !.step = IF stack = Frame THEN "running" ELSE "astray"]
  /\ stack' = <<>>
  /\ UNCHANGED <<gdt, tss, tr, idt, boot, reg, on>>

TrapInit ==
  /\ gdt = [i \in 0 .. 8 |-> NullEntry]
  /\ tss = <<Unset, Unset, Unset>> /\ tr = Unset
  /\ idt = [v \in 0 .. 255 |-> NoGate]
  /\ boot = "start"
  /\ at = [step |-> "running", vector |-> 0, entry |-> Unset]
  /\ stack = <<>>
  /\ reg = [r \in ToSet(Saved) |-> r]
  /\ on = <<"kernel">>

TrapNext ==
  \/ gdt_init \/ idt_init \/ tss_init_again
  \/ \E v \in Raised : raise(v)
  \/ isr_stub \/ isr_common_handler \/ isr_return \/ iretq

TrapSpec == TrapInit /\ [][TrapNext]_trapVars
-----------------------------------------------------------------------------
(* An exception or interrupt that returns leaves every register as it was, *)
(* and returns to where it came from: the frame below the registers is     *)
(* uniform.  Vectors 21 and 29 are left out: the CPU pushes an error code  *)
(* for them and their stubs push another.                                  *)
TrapTransparent ==
  /\ at.step = "running" => reg = [r \in DOMAIN reg |-> r]
  /\ at.step = "astray" => at.vector \in {21, 29}

(* The handler sees the vector that was raised and the error code that     *)
(* came with it; INT 0x50 and INT 0x80 have stubs but no gate and are      *)
(* general protection faults instead.                                      *)
HandlerInformed ==
  at.step = "handler" =>
    /\ Field("vector") = IF at.vector \in {80, 128} THEN 13 ELSE at.vector
    /\ Field("error_code") = IF Field("vector") \in ISR_ERR THEN "code" ELSE "zero"

(* A trap is handled on the interrupted kernel stack, save a non-maskable  *)
(* interrupt, a double fault and a machine check: their gates name an IST  *)
(* stack, which the CPU looks for in a TSS at an address without the upper *)
(* half gdt_set_tss cleared, so that they are never handled on the stacks  *)
(* tss_init set aside for them.                                            *)
GateStack ==
  at.step \notin {"running", "astray"} =>
    on = IF at.vector \in {2, 8, 18} THEN <<"wild">> ELSE <<"kernel">>

=============================================================================
