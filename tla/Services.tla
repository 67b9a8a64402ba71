------------------------------ MODULE Services ------------------------------
(***************************************************************************)
(* The way into the kernel and the services around it: boot code, traps,   *)
(* the network card and its stack, storage, boot images, and what the      *)
(* firmware presents.  The parts share no state: a behaviour exercises one *)
(* of them, and the others keep the state or the input they start with.    *)
(***************************************************************************)
EXTENDS Traps, E1000, Network, Storage, Images, Firmware, Boot

VARIABLE service

servicesVars == <<service, trapVars, e1000Vars, netVars, storageVars, imageVars, firmwareVars, bootVars>>

\* The inputs of the service that is exercised, or one input of another
Given(s, inputs) == IF service = s THEN inputs ELSE {CHOOSE i \in inputs : TRUE}

ServicesInit ==
  /\ service \in {"traps", "rx", "tx", "arp", "arp table", "routes", "nics", "registries", "fat",
                  "tmpfs", "tar", "initrd", "tags", "line", "elf", "pci", "bars", "acpi",
                  "cpu", "loader", "copy"}
  /\ TrapInit /\ E1000Init /\ NetInit
  /\ StorageInit(Given("fat", [Partitions -> BootSectors]))
  /\ ImagesInit(CASE service = "tar" -> TarImages
                  [] service = "tags" -> TagImages
                  [] service = "line" -> LineImages
                  [] service = "elf" -> ElfImages
                  [] OTHER -> Given("initrd", InitrdImages))
  /\ FirmwareInit(CASE service = "pci" -> Machines
                    [] service = "bars" -> Layouts
                    [] OTHER -> Given("acpi", Roots))
  /\ BootInit(Given("cpu", Loaders), Given("loader", SectorCounts), Given("copy", CopyInputs))

ServicesNext ==
  /\ UNCHANGED service
  /\ \/ service = "traps" /\ TrapNext
        /\ UNCHANGED <<e1000Vars, netVars, storageVars, imageVars, firmwareVars, bootVars>>
     \/ /\ \/ service = "rx" /\ RxNext
           \/ service = "tx" /\ TxNext
        /\ UNCHANGED <<trapVars, netVars, storageVars, imageVars, firmwareVars, bootVars>>
     \/ /\ \/ service = "arp" /\ ArpNext
           \/ service = "arp table" /\ ArpTableNext
           \/ service = "routes" /\ RouteNext
           \/ service = "nics" /\ NicNext
        /\ UNCHANGED <<trapVars, e1000Vars, storageVars, imageVars, firmwareVars, bootVars>>
     \/ /\ \/ service = "registries" /\ RegNext
           \/ service = "fat" /\ FatNext
           \/ service = "tmpfs" /\ TmpNext
        /\ UNCHANGED <<trapVars, e1000Vars, netVars, imageVars, firmwareVars, bootVars>>
     \/ service \in {"tar", "initrd", "tags", "line", "elf"} /\ ImagesNext
        /\ UNCHANGED <<trapVars, e1000Vars, netVars, storageVars, firmwareVars, bootVars>>
     \/ service = "pci" /\ FirmwareNext
        /\ UNCHANGED <<trapVars, e1000Vars, netVars, storageVars, imageVars, bootVars>>
     \/ /\ \/ service = "cpu" /\ CpuNext
           \/ service = "loader" /\ LoaderNext
           \/ service = "copy" /\ CopyNext
        /\ UNCHANGED <<trapVars, e1000Vars, netVars, storageVars, imageVars, firmwareVars>>

ServicesSpec == ServicesInit /\ [][ServicesNext]_servicesVars
=============================================================================
