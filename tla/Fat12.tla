-------------------------------- MODULE Fat12 --------------------------------
(***************************************************************************)
(* The configuration drive as a file system: the table, the directory and  *)
(* the sectors src/msc_disk.c makes up for its files, and what a host that *)
(* follows the boot sector reads out of them.                              *)
(***************************************************************************)
EXTENDS Integers

MAX_FILES == 16
DISK_BLOCK_SIZE == 512
DISK_BLOCK_NUM == 3 + MAX_FILES

\* The fields of s_boot_sector that say where things are, in sectors.
Reserved == 1
NumberOfFats == 1
SectorsPerFat == 1
RootEntries == 16
SectorsPerCluster == 1

Byte == 0 .. 255
Place == 0 .. 511          \* of a byte in the sector
Value == 0 .. 4095         \* of an entry
Table == [Place -> Byte]

\* Two entries of twelve bits share three bytes: the even one has the first byte and
\* the lower half of the second, the odd one has the rest.
EvenFirst(value) == value % 256
EvenSecond(byte, value) == 16 * (byte \div 16) + ((value \div 256) % 16)
OddSecond(byte, value) == (byte % 16) + 16 * (value % 16)
OddThird(value) == (value \div 16) % 256

fat12_set_entry(fat, cluster, value) ==
  LET offset == cluster + cluster \div 2
  IN IF cluster % 2 = 0
     THEN [fat EXCEPT ![offset] = EvenFirst(value),
                      ![offset + 1] = EvenSecond(fat[offset + 1], value)]
     ELSE [fat EXCEPT ![offset] = OddSecond(fat[offset], value),
                      ![offset + 1] = OddThird(value)]

\* msc_disk_init gives file i cluster 2 + i; tud_msc_read10_cb and _write10_cb
\* take a sector for a file.
Cluster(i) == 2 + i
FileOfSector(lba) == lba - 3

-----------------------------------------------------------------------------
(* The host, by the rules of FAT12.                                         *)

Clusters == 0 .. MAX_FILES + 1

EvenValue(first, second) == (first + 256 * second) % 4096
OddValue(second, third) == (second + 256 * third) \div 16

Entry(fat, cluster) ==
  LET offset == (3 * cluster) \div 2
  IN IF cluster % 2 = 0 THEN EvenValue(fat[offset], fat[offset + 1])
                        ELSE OddValue(fat[offset], fat[offset + 1])

FirstDataSector ==
  Reserved + NumberOfFats * SectorsPerFat + (32 * RootEntries) \div DISK_BLOCK_SIZE
SectorOfCluster(c) == FirstDataSector + (c - 2) * SectorsPerCluster
=============================================================================
