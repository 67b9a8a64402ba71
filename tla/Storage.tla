------------------------------ MODULE Storage ------------------------------
(***************************************************************************)
(* The storage layers: the registries of block devices, device files and   *)
(* mounts; the FAT32 volume that fat32_mount makes current; and a file of  *)
(* the memory file system.                                                 *)
(*                                                                         *)
(* A disk read may fail whenever the driver says so.  Sectors are numbers, *)
(* and what a FAT read returns is the place on the disk it reads.          *)
(***************************************************************************)
EXTENDS Integers, Sequences, FiniteSets

CONSTANTS
  MAX_BLOCK_DEVICES, DEVFS_MAX_DEVICES, VFS_MAX_MOUNTS,
  DeviceNames,          \* the names devices and mounts are registered under
  MaxRegistered,        \* bound: registrations of a behaviour
  Partitions,           \* first sectors of the partitions of the disk
  ENTRIES_PER_SECTOR,   \* FAT32_SECTOR_SIZE / 4
  WORD,                 \* the range of uint32_t
  TMPFS_MIN, TMPFS_MAX_SIZE,  \* the first capacity (256), and the limit
  Bytes, Offsets, Counts,     \* the values, offsets and lengths written
  MaxWrites                   \* bound: writes of a behaviour

VARIABLES
  blockDevs, defaultDev,  \* g_block_devices up to its count; g_default_block
  devFiles,               \* g_devfs_devices, valid entries in slot order
  mounts,                 \* g_mounts from slot 1: a name and whether ops is set
  granted,                \* the registrations that reported success
  disk,                   \* the boot sector of each partition
  fat,                    \* partition, geometry and bpb of fat32.c
  volume, strayed,        \* the last volume mounted; a failed mount moved away from it
  file,                   \* a tmpfs node: size, capacity and data
  nodes,                  \* the sizes the two vnodes looked up for it carry
  content, writes         \* what the writes that succeeded put where

regVars == <<blockDevs, defaultDev, devFiles, mounts, granted>>
fatVars == <<disk, fat, volume, strayed>>
tmpVars == <<file, nodes, content, writes>>
storageVars == <<blockDevs, defaultDev, devFiles, mounts, granted,
                 disk, fat, volume, strayed, file, nodes, content, writes>>

-----------------------------------------------------------------------------
(* Registries.                                                             *)

RegInit ==
  /\ blockDevs = <<>> /\ defaultDev = 0
  /\ devFiles = <<"null", "zero", "random", "console">>
  /\ mounts = [i \in 1 .. VFS_MAX_MOUNTS - 1 |-> [path |-> "", ops |-> FALSE]]
  /\ granted = <<>>

Granted(kind, name, slot) ==
  granted' = Append(granted, [kind |-> kind, name |-> name, slot |-> slot])

block_register(name) ==
  /\ Len(blockDevs) < MAX_BLOCK_DEVICES
  /\ blockDevs' = Append(blockDevs, name)
  /\ defaultDev' = IF defaultDev = 0 THEN Len(blockDevs) + 1 ELSE defaultDev
  /\ Granted("block", name, Len(blockDevs) + 1)
  /\ UNCHANGED <<devFiles, mounts>>

(* No device file is ever unregistered, so the valid slots are the first.  *)
devfs_register(name) ==
  /\ Len(devFiles) < DEVFS_MAX_DEVICES
  /\ devFiles' = Append(devFiles, name)
  /\ Granted("devfs", name, Len(devFiles) + 1)
  /\ UNCHANGED <<blockDevs, defaultDev, mounts>>

LeastOf(S) == CHOOSE i \in S : \A j \in S : i <= j
devfs_vfs_lookup(name) ==
  LET S == {i \in 1 .. Len(devFiles) : devFiles[i] = name} IN
    IF S = {} THEN 0 ELSE LeastOf(S)

FreeMounts_any == {i \in DOMAIN mounts : TRUE}
FreeMounts == {i \in DOMAIN mounts : ~ mounts[i].ops}

(* A slot is taken when its ops is set: a mount of NULL ops reports        *)
(* success and leaves its slot to the next one.                            *)
vfs_mount(path, ops) ==
  /\ FreeMounts # {}
  /\ LET i == LeastOf(FreeMounts) IN
       /\ mounts' = [mounts EXCEPT ![i] = [path |-> path, ops |-> ops]]
       /\ IF ops THEN Granted("mount", path, i) ELSE UNCHANGED granted
  /\ UNCHANGED <<blockDevs, defaultDev, devFiles>>

RegNext ==
  /\ Len(granted) < MaxRegistered
  /\ \E name \in DeviceNames :
       \/ block_register(name) \/ devfs_register(name)
       \/ \E ops \in BOOLEAN : vfs_mount(name, ops)
  /\ UNCHANGED <<fatVars, tmpVars>>

-----------------------------------------------------------------------------
(* FAT32.  A boot sector gives the sector size, right or not, the sectors  *)
(* of a cluster, the reserved sectors, those of all FATs and the total.    *)

BootSectors ==
  [bps_ok : {TRUE}, spc : {1, 2}, reserved : {1, 2}, fats : {1}, total : {2, 7}]
    \cup {[bps_ok |-> FALSE, spc |-> 1, reserved |-> 1, fats |-> 1, total |-> 7]}

NoVolume == [part |-> 0, spc |-> 0, fat_start |-> 0, data_start |-> 0, total |-> 0]

FatInit(disks) ==
  /\ disk \in disks
  /\ fat = NoVolume /\ volume = NoVolume /\ strayed = FALSE

GeometryOf(p, b) ==
  [part |-> p, spc |-> b.spc, fat_start |-> b.reserved, data_start |-> b.reserved + b.fats,
   total |-> ((b.total - (b.reserved + b.fats)) % WORD) \div b.spc]

(* fat32_mount sets the partition before it knows whether the volume can   *)
(* be read and is supported, and only then the geometry.                   *)
fat32_mount(p, readable) ==
  LET ok == readable /\ disk[p].bps_ok IN
    /\ fat' = IF ok THEN GeometryOf(p, disk[p]) ELSE [fat EXCEPT !.part = p]
    /\ volume' = IF ok THEN GeometryOf(p, disk[p]) ELSE volume
    /\ strayed' = (~ ok /\ volume # NoVolume /\ p # volume.part)
    /\ UNCHANGED disk

FatNext ==
  /\ \E p \in Partitions, readable \in BOOLEAN : fat32_mount(p, readable)
  /\ UNCHANGED <<regVars, tmpVars>>

(* The place fat32_read_fat_entry reads: a sector and an entry of it.      *)
fat32_read_fat_entry(c) ==
  [lba |-> fat.part + fat.fat_start + (c \div ENTRIES_PER_SECTOR), entry |-> c % ENTRIES_PER_SECTOR]

fat32_cluster_to_lba_zero(c) == fat.data_start + c * fat.spc
fat32_cluster_to_lba(c) == fat.data_start + (c - 2) * fat.spc

(* The sectors fat32_read_dir reads for a directory cluster.               *)
fat32_read_dir(c) == {fat.part + fat32_cluster_to_lba(c) + i : i \in 0 .. fat.spc - 1}

-----------------------------------------------------------------------------
(* One file of tmpfs, written through two vnodes of it.  A byte no write   *)
(* has reached is Junk: krealloc does not clear what it adds.              *)

Junk == -1
TmpInit ==
  /\ file = [size |-> 0, capacity |-> 0, data |-> <<>>]
  /\ nodes = <<0, 0>>
  /\ content = [i \in 0 .. TMPFS_MAX_SIZE - 1 |-> Junk]
  /\ writes = 0

Doubled[n \in 0 .. TMPFS_MAX_SIZE * 2, need \in 0 .. TMPFS_MAX_SIZE * 2] ==
  IF n >= need THEN n ELSE Doubled[n * 2, need]

new_cap_once(need) == IF file.capacity = 0 THEN TMPFS_MIN ELSE file.capacity * 2
new_cap(need) == Doubled[IF file.capacity = 0 THEN TMPFS_MIN ELSE file.capacity * 2, need]

Grown(cap) == [i \in 1 .. cap |-> IF i <= Len(file.data) THEN file.data[i] ELSE Junk]

(* tmpfs_vfs_write: too long a file returns -ENOSPC and a failed krealloc  *)
(* -ENOMEM, with nothing changed.                                          *)
tmpfs_vfs_write(n, offset, count, byte) ==
  LET end == offset + count
      cap == IF end > file.capacity THEN new_cap(end) ELSE file.capacity
  IN  /\ writes < MaxWrites /\ writes' = writes + 1
      /\ cap <= TMPFS_MAX_SIZE
      /\ file' = [size |-> IF end > file.size THEN end ELSE file.size, capacity |-> cap,
                  data |-> [i \in 1 .. cap |->
                             IF i - 1 \in offset .. end - 1 THEN byte ELSE Grown(cap)[i]]]
      /\ nodes' = [nodes EXCEPT ![n] = file'.size]
      /\ content' = [i \in DOMAIN content |-> IF i \in offset .. end - 1 THEN byte ELSE content[i]]

(* What tmpfs_vfs_read copies: nothing from the end of the file on, and no *)
(* more than the file holds.                                               *)
tmpfs_vfs_read(offset, count) ==
  IF offset >= file.size THEN <<>>
  ELSE LET n == IF offset + count > file.size THEN file.size - offset ELSE count
       IN  [i \in 1 .. n |-> file.data[offset + i]]

TmpNext ==
  /\ \E n \in 1 .. 2, o \in Offsets, c \in Counts, b \in Bytes : tmpfs_vfs_write(n, o, c, b)
  /\ UNCHANGED <<regVars, fatVars>>

-----------------------------------------------------------------------------
(* A registration that reported success stays: its slot keeps its name,    *)
(* no later one takes it over, the default block device is the first ever  *)
(* registered, and a device name finds the first device that bears it.     *)
RegistrationsKept ==
  /\ \A k \in 1 .. Len(granted) :
       LET g == granted[k] IN
         CASE g.kind = "block" -> blockDevs[g.slot] = g.name
           [] g.kind = "devfs" -> devFiles[devfs_vfs_lookup(g.name)] = g.name
                                  /\ devfs_vfs_lookup(g.name) <= g.slot
           [] g.kind = "mount" -> mounts[g.slot] = [path |-> g.name, ops |-> TRUE]
  /\ \A j, k \in 1 .. Len(granted) :
       granted[j].kind = granted[k].kind /\ granted[j].slot = granted[k].slot => j = k
  /\ defaultDev = IF blockDevs = <<>> THEN 0 ELSE 1

(* Unless a mount that failed has moved the partition away under it, every *)
(* FAT entry and directory is read from the volume whose geometry is       *)
(* loaded, every cluster of it lies behind its FATs and, when its header   *)
(* leaves room for data, inside the volume, and no two clusters share a    *)
(* sector.  (A header with fewer sectors than its FATs wraps total_clusters*)
(* around; then only the first two statements hold.)                       *)
FatReadsItsVolume ==
  (volume # NoVolume /\ ~ strayed) =>
    LET b == disk[volume.part]
        data == b.reserved + b.fats
        clusters == 2 .. volume.total + 1
    IN  /\ \A c \in 2 .. 5 :
             /\ fat32_read_fat_entry(c).lba - volume.part >= b.reserved
             /\ (fat32_read_fat_entry(c).lba - volume.part - b.reserved) * ENTRIES_PER_SECTOR
                  + fat32_read_fat_entry(c).entry = c
        /\ \A c \in 2 .. 5 : \A s \in fat32_read_dir(c) : s - volume.part >= data
        /\ b.total >= data =>
             /\ \A c \in clusters : \A s \in fat32_read_dir(c) : s - volume.part < b.total
             /\ \A c, d \in clusters : c # d => fat32_read_dir(c) \cap fat32_read_dir(d) = {}

(* A read of the file gives, at every place, what the last write there     *)
(* put, through whichever vnode, and junk in a hole no write has filled;   *)
(* the data stays within the buffer; and a vnode never claims more bytes   *)
(* than the file has, though it may claim fewer.                           *)
TmpfsReadsBack ==
  /\ file.size <= file.capacity /\ file.capacity <= TMPFS_MAX_SIZE
  /\ Len(file.data) = file.capacity
  /\ \A o \in Offsets, c \in Counts :
       LET r == tmpfs_vfs_read(o, c) IN
         /\ \A i \in 1 .. Len(r) : r[i] = content[o + i - 1]
         /\ \A i \in Len(r) + 1 .. c : o + i - 1 >= file.size
  /\ \A n \in 1 .. 2 : nodes[n] <= file.size
  /\ writes > 0 => file.size \in {nodes[1], nodes[2]}

StorageInit(disks) == RegInit /\ FatInit(disks) /\ TmpInit
StorageNext == RegNext \/ FatNext \/ TmpNext

(* The registries of devices and mounts, fat32 and tmpfs give back what    *)
(* was put in, outside the cases excepted above.                           *)
StorageReadsBack == RegistrationsKept /\ FatReadsItsVolume /\ TmpfsReadsBack
=============================================================================
