---------------------------- MODULE Controllers -----------------------------
(***************************************************************************)
(* Controllers that are programmed through a few registers, where what a   *)
(* write means depends on the writes before it: the two 8259s              *)
(* (drivers/pic/pic.c), the I/O APIC with its index register               *)
(* (apic/apic.c) and the 8237s with their flip-flops (dma/dma.c).          *)
(*                                                                         *)
(* pic_init and ioapic_init run at boot.  Callers may then be interrupted  *)
(* between two accesses to a PIC or to the I/O APIC; crossed remembers     *)
(* that a call began while another was under way there, after which no     *)
(* call begins.  booted names the controller that has been initialised.    *)
(***************************************************************************)
EXTENDS Integers, Sequences, SequencesExt

CONSTANTS Callers,
          BootMasks,      \* interrupt masks the firmware leaves
          MaskedIrqs,     \* lines that are masked and unmasked
          RedirCount,     \* redirection entries of the I/O APIC
          Vectors, Apics, \* arguments of ioapic_set_irq
          DmaChannels, DmaWords, MaxDma

VARIABLES pic, want,
          ioindex, redir, routed,
          job, crossed, booted,
          dma, asked, dmas

picVars == <<pic, want>>
ioapicVars == <<ioindex, redir, routed>>
dmaVars == <<dma, asked, dmas>>
controllersVars == <<picVars, ioapicVars, dmaVars, job, crossed, booted>>

NoJob == [pc |-> "out"]
Begins(c) == /\ booted # "no" /\ ~ crossed /\ job[c] = NoJob
             /\ crossed' = \E d \in Callers \ {c} : job[d] # NoJob
-----------------------------------------------------------------------------
\* A write to a PIC: ICW1 clears the mask and is followed by ICW2 to ICW4
PicWrite(p, port, v) ==
  CASE port = "command" -> [p EXCEPT !.expects = 2, !.mask = 0]
    [] port = "data" /\ p.expects = 2 -> [p EXCEPT !.expects = 3, !.offset = v]
    [] port = "data" /\ p.expects = 3 -> [p EXCEPT !.expects = 4, !.cascade = v]
    [] port = "data" /\ p.expects = 4 -> [p EXCEPT !.expects = 0, !.mode = v]
    [] port = "data" /\ p.expects = 0 -> [p EXCEPT !.mask = v]

\* What pic_init writes, but for the masks
PicWrites == << <<1, "command", 17>>, <<2, "command", 17>>, <<1, "data", 32>>, <<2, "data", 40>>,
                <<1, "data", 4>>, <<2, "data", 2>>, <<1, "data", 1>>, <<2, "data", 1>> >>

PicWritten(p, w) == [p EXCEPT ![w[1]] = PicWrite(@, w[2], w[3])]


pic_init ==
  /\ booted = "no" /\ booted' = "pic"
  /\ pic' = FoldLeft(PicWritten, pic,
                     PicWrites \o << <<1, "data", pic[1].mask>>, <<2, "data", pic[2].mask>> >>)
  /\ want' = [k \in 1 .. 2 |-> pic[k].mask]
  /\ UNCHANGED <<job, crossed>>

Chip(irq) == IF irq < 8 THEN 1 ELSE 2
Bit(m, irq) == (m \div 2^(irq % 8)) % 2
WithBit(m, irq, b) == m + (b - Bit(m, irq)) * 2^(irq % 8)

\* pic_mask_irq (b = 1) and pic_unmask_irq (b = 0) read the mask ...
pic_mask_read(c) ==
  /\ Begins(c)
  /\ \E irq \in MaskedIrqs, b \in {0, 1} :
       job' = [job EXCEPT ![c] = [pc |-> "mask_write", irq |-> irq, bit |-> b, mask |-> pic[Chip(irq)].mask]]
  /\ UNCHANGED <<picVars, booted>>

\* ... and write it
pic_mask_write(c) ==
  LET j == job[c]
      k == Chip(j.irq)
  IN  /\ j.pc = "mask_write"
      /\ pic' = [pic EXCEPT ![k] = PicWrite(@, "data", WithBit(j.mask, j.irq, j.bit))]
      /\ want' = [want EXCEPT ![k] = WithBit(@, j.irq, j.bit)]
      /\ job' = [job EXCEPT ![c] = NoJob]
      /\ UNCHANGED <<crossed, booted>>

pic_disable(c) ==
  /\ Begins(c)
  /\ pic' = [k \in 1 .. 2 |-> PicWrite(pic[k], "data", 255)]
  /\ want' = <<255, 255>>
  /\ UNCHANGED <<job, booted>>

PicInit(masks) ==
  /\ pic \in {[k \in 1 .. 2 |-> [expects |-> 0, offset |-> 0, cascade |-> 0, mode |-> 0, mask |-> m[k]]] :
               m \in masks \X masks}
  /\ want = <<0, 0>>

PicNext == pic_init \/ \E c \in Callers : pic_mask_read(c) \/ pic_mask_write(c) \/ pic_disable(c)
-----------------------------------------------------------------------------
\* A write to the data register goes to the word the index names: the low
\* word of entry i is word 2 * i, the high word 2 * i + 1
Words == 0 .. 2 * RedirCount - 1
MASKED == 65536
Entry(i) == <<redir[2 * i], redir[2 * i + 1]>>

\* Faulty variant: the last entry is not masked
ioapic_init_short ==
  /\ booted = "no" /\ booted' = "ioapic"
  /\ redir' = [w \in Words |-> IF w >= 2 * (RedirCount - 1) THEN redir[w] ELSE IF w % 2 = 0 THEN MASKED ELSE 0]
  /\ ioindex' = 2 * RedirCount - 3
  /\ UNCHANGED <<routed, job, crossed>>

ioapic_init ==
  /\ booted = "no" /\ booted' = "ioapic"
  /\ redir' = [w \in Words |-> IF w % 2 = 0 THEN MASKED ELSE 0]
  /\ ioindex' = 2 * RedirCount - 1
  /\ UNCHANGED <<routed, job, crossed>>

ioapic_set_irq(c) ==
  /\ Begins(c)
  /\ \E i \in 0 .. RedirCount - 1, v \in Vectors, a \in Apics :
       job' = [job EXCEPT ![c] = [pc |-> "index", word |-> 2 * i, vector |-> v, apic |-> a]]
  /\ UNCHANGED <<ioapicVars, booted>>

ioapic_index(c) ==
  /\ job[c].pc = "index"
  /\ ioindex' = job[c].word
  /\ job' = [job EXCEPT ![c].pc = "data"]
  /\ UNCHANGED <<redir, routed, crossed, booted>>

\* ioapic_write_reg ends: after the low word the high word follows
ioapic_data(c) ==
  LET j == job[c]
      low == j.word % 2 = 0
  IN  /\ j.pc = "data"
      /\ redir' = [redir EXCEPT ![ioindex] = IF low THEN j.vector ELSE j.apic]
      /\ IF low
         THEN /\ job' = [job EXCEPT ![c] = [j EXCEPT !.pc = "index", !.word = @ + 1]]
              /\ UNCHANGED routed
         ELSE /\ job' = [job EXCEPT ![c] = NoJob]
              /\ routed' = [routed EXCEPT ![j.word \div 2] = <<j.vector, j.apic>>]
      /\ UNCHANGED <<ioindex, crossed, booted>>

IoapicInit(vectors) ==
  /\ ioindex = 0
  /\ redir \in {[w \in Words |-> IF w % 2 = 0 THEN v ELSE 0] : v \in vectors}
  /\ routed = [i \in 0 .. RedirCount - 1 |-> <<MASKED, 0>>]

IoapicNext == ioapic_init \/ \E c \in Callers : ioapic_set_irq(c) \/ ioapic_index(c) \/ ioapic_data(c)
-----------------------------------------------------------------------------
\* Each 8237 has a flip-flop that says which byte of a register is written
Controller(ch) == IF ch < 4 THEN 1 ELSE 2

DmaByte(d, reg, b) ==
  LET k == Controller(reg[2])
  IN  [d EXCEPT !.word[reg][d.flip[k] + 1] = b, !.flip[k] = 1 - @]

\* A write to the mask register of the first controller
MaskWrite(d, v) ==
  [d EXCEPT !.masked = IF (v \div 4) % 2 = 1 THEN @ \cup {v % 4} ELSE @ \ {v % 4}]

\* Faulty variant: the flip-flop is left as it is
DmaWord_unsynced(reg, v) == DmaByte(DmaByte(dma, reg, v % 256), reg, v \div 256)

\* DMA_CLEAR_FLIPFLOP is a port of the first controller; then both bytes
DmaWord(reg, v) == DmaByte(DmaByte([dma EXCEPT !.flip[1] = 0], reg, v % 256), reg, v \div 256)

DmaCall == booted = "dma" /\ dmas < MaxDma /\ dmas' = dmas + 1 /\ UNCHANGED <<job, crossed, booted>>

\* An address has 16 bits: the page, its bits 16 to 23, is always 0
dma_set_address(ch, a) ==
  /\ DmaCall
  /\ LET d == DmaWord(<<"address", ch>>, a)
     IN  dma' = IF ch < 4 THEN [d EXCEPT !.page[ch] = 0] ELSE d
  /\ asked' = [asked EXCEPT !.word[<<"address", ch>>] = a]

dma_set_count(ch, n) ==
  /\ DmaCall
  /\ dma' = DmaWord(<<"count", ch>>, n)
  /\ asked' = [asked EXCEPT !.word[<<"count", ch>>] = n]

\* 0x04 | channel masks the channel, and channel unmasks it if it is below 4;
\* the mode written in between is left out
dma_set_mode(ch) ==
  /\ DmaCall
  /\ dma' = MaskWrite([MaskWrite(dma, IF ch < 4 THEN 4 + ch ELSE ch) EXCEPT !.flip[1] = 0], ch)
  /\ asked' = [asked EXCEPT !.open = IF ch < 4 THEN @ \cup {ch} ELSE @ \ {ch - 4}]

dma_mask_channel(ch) ==
  /\ DmaCall
  /\ dma' = MaskWrite(dma, 4 + (ch % 4))
  /\ asked' = [asked EXCEPT !.open = @ \ {ch % 4}]

dma_unmask_channel(ch) ==
  /\ DmaCall
  /\ dma' = MaskWrite(dma, ch % 4)
  /\ asked' = [asked EXCEPT !.open = @ \cup {ch % 4}]

dma_init == booted = "no" /\ booted' = "dma" /\ UNCHANGED <<dmaVars, job, crossed>>

DmaRegs == {"address", "count"} \X DmaChannels

DmaInit(flips) ==
  /\ dma \in [flip : flips \X flips, word : {[r \in DmaRegs |-> <<0, 0>>]},
              page : {[ch \in 0 .. 3 |-> 1]}, masked : {0 .. 3}]
  /\ asked = [word |-> [r \in DmaRegs |-> 0], open |-> {}, late |-> dma.flip[2] = 1]
  /\ dmas = 0

DmaNext ==
  \/ dma_init
  \/ \E ch \in DmaChannels : \/ \E w \in DmaWords : dma_set_address(ch, w) \/ dma_set_count(ch, w)
                             \/ dma_set_mode(ch) \/ dma_mask_channel(ch) \/ dma_unmask_channel(ch)
-----------------------------------------------------------------------------
ControllersInit(masks, vectors, flips) ==
  /\ PicInit(masks) /\ IoapicInit(vectors) /\ DmaInit(flips)
  /\ job = [c \in Callers |-> NoJob] /\ crossed = FALSE /\ booted = "no"

ControllersNext(which) ==
  \/ which = "pic" /\ PicNext /\ UNCHANGED <<ioapicVars, dmaVars>>
  \/ which = "ioapic" /\ IoapicNext /\ UNCHANGED <<picVars, dmaVars>>
  \/ which = "dma" /\ DmaNext /\ UNCHANGED <<picVars, ioapicVars>>
-----------------------------------------------------------------------------
(* pic_init leaves both PICs at their offsets, cascaded on line 2, with    *)
(* the masks they had, and afterwards each line is masked as the last call *)
(* left it; unless a call began between the read and the write of a mask   *)
(* by another, whose change is then lost.                                  *)
PicProgrammed ==
  booted = "pic" =>
    /\ pic[1].offset = 32 /\ pic[2].offset = 40 /\ pic[1].cascade = 2^pic[2].cascade
    /\ \A k \in 1 .. 2 : pic[k].expects = 0 /\ (crossed \/ pic[k].mask = want[k])

(* Every redirection entry is masked until ioapic_set_irq has routed its   *)
(* line, and then has the vector and the CPU of the last call; unless two  *)
(* calls crossed between index and data.  While a call is under way its    *)
(* line has the new vector with the CPU of before.                         *)
IoapicRouted ==
  booted = "ioapic" /\ ~ crossed =>
    \A i \in 0 .. RedirCount - 1 :
      LET late == {c \in Callers : job[c].pc # "out" /\ job[c].word = 2 * i + 1}
      IN  Entry(i) = IF late = {} THEN routed[i]
                     ELSE <<job[CHOOSE c \in late : TRUE].vector, routed[i][2]>>

(* Address and count registers hold the words last asked for, low byte     *)
(* first, whatever the flip-flops were; only for channels of the second    *)
(* controller, whose flip-flop is not cleared, the bytes change places if  *)
(* it was set.  dma_set_mode opens its channel, but for a channel above 3  *)
(* it leaves the channel four below it masked.                             *)
DmaProgrammed ==
  /\ \A r \in DmaRegs :
       LET v == asked.word[r]
           bytes == <<v % 256, v \div 256>>
       IN  dma.word[r] = IF r[2] > 3 /\ asked.late THEN Reverse(bytes) ELSE bytes
  /\ dma.masked = 0 .. 3 \ asked.open

=============================================================================
