------------------------------ MODULE Firmware ------------------------------
(***************************************************************************)
(* What the kernel learns of the machine: the functions pci_enumerate      *)
(* lists, the addresses pci_get_bar_address takes from their BARs, and the *)
(* ACPI tables acpi_find_table finds, on which power_init decides.         *)
(***************************************************************************)
EXTENDS Integers, Sequences, FiniteSets, SequencesExt

CONSTANTS
  PCI_MAX_BUSES, PCI_MAX_DEVICES, PCI_MAX_FUNCTIONS,
  PCI_LIMIT,        \* the size of g_pci_devices, 64
  BARS,             \* the BARs of a function, 6
  Half,             \* 2^32
  BarAddresses,     \* addresses BARs are given
  MaxTables         \* bound: entries of the RSDT or XSDT

VARIABLES
  machine,   \* what the firmware presents
  found,     \* g_pci_devices up to its count
  scan       \* the bus and device pci_enumerate is at, <<>> at the end

firmwareVars == <<machine, found, scan>>

SetToMin(S) == CHOOSE x \in S : \A y \in S : x <= y

-----------------------------------------------------------------------------
(* PCI.  A device has function 0 or does not answer at all; function 0     *)
(* says whether there are others.                                          *)

Places == (0 .. PCI_MAX_BUSES - 1) \X (0 .. PCI_MAX_DEVICES - 1)
Machines ==
  {[kind |-> "pci", fns |-> f] :
     f \in [Places -> {[multi |-> m, fns |-> g] : m \in BOOLEAN, g \in SUBSET (0 .. PCI_MAX_FUNCTIONS - 1)}]}

(* A probe of function fn reads its vendor; it fills the entry only if the *)
(* function answers.                                                       *)
pci_probe_device(p, fn) == fn \in machine.fns[p].fns

Room(n) == n < PCI_LIMIT

(* The functions one device adds to a list of n: function 0, then, if its  *)
(* header type has the top bit, those of the others that answer, while     *)
(* there is room.                                                          *)
DeviceEntries(p, n) ==
  LET others == IF machine.fns[p].multi THEN 1 .. PCI_MAX_FUNCTIONS - 1 ELSE {}
      answering == {fn \in others : pci_probe_device(p, fn)}
      list[fn \in 0 .. PCI_MAX_FUNCTIONS - 1] ==
        IF fn = 0 THEN <<<<p, 0>>>>
        ELSE IF fn \in answering /\ Room(n + Len(list[fn - 1]))
             THEN Append(list[fn - 1], <<p, fn>>) ELSE list[fn - 1]
  IN  list[PCI_MAX_FUNCTIONS - 1]

(* One turn of the loop over the devices of a bus.                         *)
pci_enumerate ==
  /\ machine.kind = "pci" /\ scan # <<>>
  /\ LET p == scan
         next == IF p[2] + 1 < PCI_MAX_DEVICES THEN <<p[1], p[2] + 1>> ELSE <<p[1] + 1, 0>>
         list == IF pci_probe_device(p, 0) THEN found \o DeviceEntries(p, Len(found)) ELSE found
     IN  /\ found' = list
         /\ scan' = IF next[1] < PCI_MAX_BUSES /\ Len(list) < PCI_LIMIT THEN next ELSE <<>>
  /\ UNCHANGED machine

(* The list never outgrows its array, and when the enumeration ends it     *)
(* holds the functions that can be reached, each once and in the order of  *)
(* bus, device and function: all of them, or the first PCI_LIMIT.          *)
PciListed ==
  machine.kind = "pci" =>
    LET Before(a, b) ==
          \/ a[1][1] < b[1][1]
          \/ a[1][1] = b[1][1] /\ a[1][2] < b[1][2]
          \/ a[1] = b[1] /\ a[2] < b[2]
        reachable == {e \in Places \X (0 .. PCI_MAX_FUNCTIONS - 1) :
                        LET d == machine.fns[e[1]] IN
                          {0, e[2]} \subseteq d.fns /\ (e[2] = 0 \/ d.multi)}
    IN  /\ Len(found) <= PCI_LIMIT
        /\ \A i \in 1 .. Len(found) :
             /\ found[i] \in reachable
             /\ Cardinality({e \in reachable : Before(e, found[i])}) = i - 1
        /\ scan = <<>> => Len(found) = Min({PCI_LIMIT, Cardinality(reachable)})

-----------------------------------------------------------------------------
(* BARs.  A function's BARs are laid out one after another: an I/O range   *)
(* and a memory range take one register, a 64-bit memory range two.        *)

Ranges ==
  {[type |-> t, addr |-> a] : t \in {"io", "mem"}, a \in {x \in BarAddresses : x < Half}}
    \cup [type : {"mem64"}, addr : BarAddresses]

Registers(r) ==
  CASE r.type = "io" -> <<r.addr + 1>>
    [] r.type = "mem" -> <<r.addr>>
    [] r.type = "mem64" -> <<(r.addr % Half) + 4, r.addr \div Half>>

BarsOf(ranges) == FlattenSeq([k \in 1 .. Len(ranges) |-> Registers(ranges[k])])
Layouts ==
  {[kind |-> "bars", ranges |-> l] :
     l \in {m \in UNION {[1 .. k -> Ranges] : k \in 1 .. BARS} : Len(BarsOf(m)) <= BARS}}

pci_is_mmio_bar(bars, b) == bars[b] % 2 = 0

pci_get_bar_address_low(bars, b) ==
  IF pci_is_mmio_bar(bars, b) THEN bars[b] - (bars[b] % 16) ELSE bars[b] - (bars[b] % 4)
pci_get_bar_address(bars, b) ==
  LET high == IF b + 1 <= Len(bars) THEN bars[b + 1] ELSE 0 IN
    IF pci_is_mmio_bar(bars, b)
    THEN (IF (bars[b] \div 2) % 4 = 2 THEN high * Half ELSE 0) + bars[b] - (bars[b] % 16)
    ELSE bars[b] - (bars[b] % 4)

(* e1000_probe takes BAR 0 and refuses an address of 0.                    *)
e1000_probe(bars) == pci_get_bar_address(bars, 1)

(* The address taken from the first register of each range is the one the  *)
(* range was given, above 4 GB too, and a range is told to be memory or    *)
(* I/O as it is.                                                           *)
BarsDecoded ==
  machine.kind = "bars" =>
    LET r == machine.ranges
        bars == BarsOf(r)
        At(k) == 1 + Len(BarsOf(SubSeq(r, 1, k - 1)))
    IN  /\ \A k \in 1 .. Len(r) :
             /\ pci_get_bar_address(bars, At(k)) = r[k].addr
             /\ pci_is_mmio_bar(bars, At(k)) <=> r[k].type # "io"
        /\ e1000_probe(bars) = r[1].addr

-----------------------------------------------------------------------------
(* ACPI.  The root table lists the others: the RSDT with one 32-bit word   *)
(* each, the XSDT with the low and the high word of a 64-bit address.  A   *)
(* table is told by its signature and its place in the list; its low word  *)
(* is that place, 0 for an empty entry.                                    *)

Signatures == {"FACP", "APIC"}
Tables == [sig : Signatures, empty : BOOLEAN, high : {0, 1}]
Roots == {[kind |-> "acpi", wide |-> w, tables |-> t] :
            w \in BOOLEAN, t \in UNION {[1 .. k -> Tables] : k \in 0 .. MaxTables}}

LowWord(t, k) == IF t[k].empty THEN 0 ELSE k + 1
HighWord(t, k) == IF t[k].empty THEN 0 ELSE t[k].high
RootWords(root) ==
  LET t == root.tables IN
    IF root.wide THEN FlattenSeq([k \in 1 .. Len(t) |-> <<LowWord(t, k), HighWord(t, k)>>])
    ELSE [k \in 1 .. Len(t) |-> LowWord(t, k)]

num_entries_wide(root) == Len(RootWords(root)) \div (IF root.wide THEN 2 ELSE 1)
num_entries(root) == Len(RootWords(root))

(* acpi_find_table reads the root table as 32-bit words also when it is    *)
(* the XSDT, and looks for a signature at each word that is not 0.  Only   *)
(* a table below 4 GB is where its low word says.                          *)
acpi_find_table(root, sig) ==
  LET words == RootWords(root)
      t == root.tables
      Below(w) == w # 0 /\ w - 1 \in 1 .. Len(t) /\ ~ t[w - 1].empty
                    /\ (root.wide => t[w - 1].high = 0)
      hits == {i \in 1 .. num_entries(root) : Below(words[i]) /\ t[words[i] - 1].sig = sig}
  IN  IF hits = {} THEN 0 ELSE words[SetToMin(hits)] - 1

power_init(root) == IF acpi_find_table(root, "FACP") # 0 THEN "acpi" ELSE "virtual"

(* The table found for a signature is the first one listed that is below   *)
(* 4 GB, in an RSDT and in an XSDT, whose high words of 0 are passed over  *)
(* as empty entries; so the shutdown method is ACPI exactly when there is  *)
(* a FADT below 4 GB.                                                      *)
AcpiFinds ==
  machine.kind = "acpi" =>
    LET t == machine.tables
        low == {k \in 1 .. Len(t) : ~ t[k].empty /\ (machine.wide => t[k].high = 0)}
    IN  /\ \A sig \in Signatures :
             LET those == {k \in low : t[k].sig = sig} IN
               acpi_find_table(machine, sig) = IF those = {} THEN 0 ELSE SetToMin(those)
        /\ power_init(machine) = "acpi" <=> \E k \in low : t[k].sig = "FACP"

-----------------------------------------------------------------------------
FirmwareInit(machines) == machine \in machines /\ found = <<>> /\ scan = <<0, 0>>
FirmwareNext == pci_enumerate

=============================================================================
