------------------------------- MODULE DiskFs -------------------------------
(***************************************************************************)
(* The fixed-layout block filesystem of kernel/src/fs/diskfs.rs over the   *)
(* sectors of the virtio-blk disk.                                         *)
(*                                                                         *)
(* Sector 0 holds the superblock, sectors 1 .. DIR_SECTORS the directory   *)
(* (MAX_FILES entries of DIR_ENTRY_BYTES bytes packed back to back, so an  *)
(* entry may straddle two directory sectors), and the data extents start   *)
(* at DATA_START.  The on-disk directory is kept at field granularity:     *)
(* each field of an entry lives in the directory sector of its first byte, *)
(* exactly as persist_metadata lays it out, and a partial persist leaves   *)
(* some fields of an entry new and the others old.                         *)
(*                                                                         *)
(* Every public operation runs under FS_LOCK (fs/mod.rs), so each one is a *)
(* single action.  Inside it every storage::read_sector / write_sector     *)
(* call may fail (IoTimeout, DeviceFailure); the first failure ends the    *)
(* operation with StorageIo after the effects of the calls before it.  A   *)
(* failed sector write may or may not have reached the disk (a timed-out   *)
(* request can still complete).  Sector writes are atomic.  The number of  *)
(* failures in a behaviour is bounded by MaxFaults.                        *)
(*                                                                         *)
(* File contents are short sequences of Symbols; SectorUnits symbols fill  *)
(* a sector (512 bytes in the code, where MAX_FILE_BYTES = SECTOR_SIZE, so *)
(* a file has at most one data sector).                                   *)
(***************************************************************************)
EXTENDS Naturals, Sequences, FiniteSets, FiniteSetsExt

CONSTANTS
  MAX_FILES,            \* fs::MAX_FILES (16)
  DIR_ENTRY_BYTES,      \* diskfs DIR_ENTRY_BYTES (72)
  SECTOR_SIZE,          \* storage::SECTOR_SIZE (512), for the directory layout
  MAX_FILE_NAME_BYTES,  \* fs::MAX_FILE_NAME_BYTES (48)
  TotalSectors,         \* storage::capacity_sectors()
  SectorUnits,          \* content symbols per data sector
  Symbols,              \* content symbols
  Zero,                 \* the zero fill of a sector
  Names,                \* file names
  NameLen,              \* [Names -> 1 .. MAX_FILE_NAME_BYTES]: name_len byte
  NoName, Garbled,      \* name of an empty entry / of a torn entry
  NoSb,                 \* a superblock sector without MAGIC
  NoFile                \* read result of a missing file

DIR_SECTORS == (MAX_FILES * DIR_ENTRY_BYTES + SECTOR_SIZE - 1) \div SECTOR_SIZE
DATA_START == 1 + DIR_SECTORS
Slots == 0 .. MAX_FILES - 1
DataSectors == DATA_START .. TotalSectors - 1
Content == [1 .. SectorUnits -> Symbols \cup {Zero}]
FileData == UNION {[1 .. k -> Symbols] : k \in 0 .. SectorUnits}
Results == {"Ok", "StorageIo", "StorageNoSpace", "NoSpace", "NotFound",
            "DiskCorrupt"}

ASSUME TotalSectors > DATA_START
ASSUME NameLen \in [Names -> 1 .. MAX_FILE_NAME_BYTES]

(* Byte offset of each DiskEntry field in its directory record. *)
FieldOffset == [used |-> 0, nameLen |-> 1, size |-> 4, start |-> 8,
                count |-> 16, name |-> 24]
Fields == DOMAIN FieldOffset
(* The directory sector (0-based) that holds field f of entry i.  The name *)
(* bytes never cross a sector boundary for the code's constants.           *)
DirSectorOf(i, f) == (i * DIR_ENTRY_BYTES + FieldOffset[f]) \div SECTOR_SIZE
ASSUME \A i \in Slots : DirSectorOf(i, "name") =
         (i * DIR_ENTRY_BYTES + DIR_ENTRY_BYTES - 1) \div SECTOR_SIZE

Entry == [used : BOOLEAN, nameLen : 0 .. MAX_FILE_NAME_BYTES,
          size : 0 .. SectorUnits, start : 0 .. TotalSectors,
          count : 0 .. 1, name : Names \cup {NoName, Garbled}]

(* DiskEntry::empty(); also the all-zero bytes of an unused record. *)
EmptyEntry == [used |-> FALSE, nameLen |-> 0, size |-> 0, start |-> 0,
               count |-> 0, name |-> NoName]

(* DiskFs::new() *)
NewFs == [mounted |-> FALSE, nextFree |-> DATA_START, fileCount |-> 0,
          entries |-> [i \in Slots |-> EmptyEntry]]

Pad(d) == d \o [i \in 1 .. SectorUnits - Len(d) |-> Zero]

(* An outcome of a code path: the memory and disk it leaves, its result,   *)
(* and the storage failures it took.                                       *)
Out(f, d, r, c) == [fs |-> f, disk |-> d, res |-> r, cost |-> c]

(* Run Op on the outcomes of an earlier step that returned Ok, the way the *)
(* code continues after `?`.                                               *)
AndThen(outs, budget, Op(_, _, _)) ==
  {o \in outs : o.res # "Ok"} \cup
  UNION {{[r EXCEPT !.cost = @ + o.cost] : r \in Op(o.fs, o.disk, budget - o.cost)}
         : o \in {p \in outs : p.res = "Ok"}}

----------------------------------------------------------------------------
(* persist_metadata: the superblock (write 0), then directory sector j     *)
(* (write j + 1) for j = 0 .. DIR_SECTORS - 1, from the in-memory state.   *)
(* Seeded fault: the directory sectors are written before the superblock. *)
PersistWriteDirFirst(disk, fs, k) ==
  IF k = DIR_SECTORS
  THEN [disk EXCEPT !.sb = [nextFree |-> fs.nextFree, fileCount |-> fs.fileCount]]
  ELSE [disk EXCEPT !.dir =
          [i \in Slots |-> [f \in Fields |->
             IF DirSectorOf(i, f) = k
             THEN (IF fs.entries[i].used THEN fs.entries[i] ELSE EmptyEntry)[f]
             ELSE disk.dir[i][f]]]]

PersistWrite(disk, fs, k) ==
  IF k = 0
  THEN [disk EXCEPT !.sb = [nextFree |-> fs.nextFree, fileCount |-> fs.fileCount]]
  ELSE [disk EXCEPT !.dir =
          [i \in Slots |-> [f \in Fields |->
             IF DirSectorOf(i, f) = k - 1
             THEN (IF fs.entries[i].used THEN fs.entries[i] ELSE EmptyEntry)[f]
             ELSE disk.dir[i][f]]]]

RECURSIVE PersistPrefix(_, _, _)
PersistPrefix(disk, fs, n) ==
  IF n = 0 THEN disk ELSE PersistWrite(PersistPrefix(disk, fs, n - 1), fs, n - 1)

PersistMetadata(fs, disk, budget) ==
  {Out(fs, PersistPrefix(disk, fs, DIR_SECTORS + 1), "Ok", 0)} \cup
  {Out(fs, d, "StorageIo", 1) :
     d \in IF budget > 0
           THEN UNION {{PersistPrefix(disk, fs, k), PersistPrefix(disk, fs, k + 1)}
                       : k \in 0 .. DIR_SECTORS}
           ELSE {}}

----------------------------------------------------------------------------
(* Seeded fault: an extent ending at the last sector is rejected. *)
EntryValidOffByOne(e) ==
  /\ e.nameLen \in 1 .. MAX_FILE_NAME_BYTES
  /\ IF e.count > 0
     THEN /\ e.start >= DATA_START
          /\ e.start + e.count < TotalSectors
          /\ e.size <= e.count * SectorUnits
     ELSE e.size = 0

(* load_directory's checks of a used record. *)
EntryValid(e) ==
  /\ e.nameLen \in 1 .. MAX_FILE_NAME_BYTES
  /\ IF e.count > 0
     THEN /\ e.start >= DATA_START
          /\ e.start + e.count <= TotalSectors
          /\ e.size <= e.count * SectorUnits
     ELSE e.size = 0

(* The entry load_directory builds: the name is the name_len bytes at      *)
(* offset 24, a valid name only if both came from the same write.          *)
DecodeEntry(e) ==
  IF ~e.used THEN EmptyEntry
  ELSE [e EXCEPT !.name = IF e.name \in Names /\ NameLen[e.name] = e.nameLen
                          THEN e.name ELSE Garbled]

(* load_directory: read the DIR_SECTORS sectors, then decode the records   *)
(* in order; the first invalid one stops it with the earlier ones loaded.  *)
LoadDirectory(fs, disk, budget) ==
  LET bad == {i \in Slots : disk.dir[i].used /\ ~EntryValid(disk.dir[i])}
      loaded(n) == [i \in Slots |-> IF i < n THEN DecodeEntry(disk.dir[i])
                                    ELSE EmptyEntry]
  IN (IF budget > 0 THEN {Out(fs, disk, "StorageIo", 1)} ELSE {}) \cup
     IF bad = {}
     THEN {Out([fs EXCEPT !.entries = loaded(MAX_FILES),
                          !.fileCount = Cardinality({i \in Slots : disk.dir[i].used}),
                          !.mounted = TRUE], disk, "Ok", 0)}
     ELSE {Out([fs EXCEPT !.entries = loaded(Min(bad))], disk, "DiskCorrupt", 0)}

(* format *)
Format(fs, disk, budget) ==
  LET cleared == [fs EXCEPT !.entries = [i \in Slots |-> EmptyEntry],
                            !.fileCount = 0, !.nextFree = DATA_START]
  IN {IF o.res = "Ok" THEN [o EXCEPT !.fs.mounted = TRUE] ELSE o
      : o \in PersistMetadata(cleared, disk, budget)}

(* mount_or_format, with storage ready and TotalSectors > DATA_START. *)
MountOrFormat(fs, disk, budget) ==
  (IF budget > 0 THEN {Out(fs, disk, "StorageIo", 1)} ELSE {}) \cup
  IF disk.sb = NoSb THEN Format(fs, disk, budget)
  ELSE IF disk.sb.nextFree < DATA_START \/ disk.sb.nextFree > TotalSectors
  THEN {Out(fs, disk, "DiskCorrupt", 0)}
  ELSE LoadDirectory([fs EXCEPT !.nextFree = disk.sb.nextFree,
                                !.fileCount = disk.sb.fileCount], disk, budget)

(* ensure_mounted / init *)
EnsureMounted(fs, disk, budget) ==
  IF fs.mounted THEN {Out(fs, disk, "Ok", 0)} ELSE MountOrFormat(fs, disk, budget)

----------------------------------------------------------------------------
(* Seeded faults: next_free_sector not advanced; capacity not checked. *)
AllocateExtentNoBump(fs, needed) ==
  IF fs.nextFree + needed > TotalSectors
  THEN [ok |-> FALSE, fs |-> fs, start |-> 0]
  ELSE [ok |-> TRUE, fs |-> fs, start |-> fs.nextFree]
AllocateExtentUnchecked(fs, needed) ==
  [ok |-> TRUE, fs |-> [fs EXCEPT !.nextFree = @ + needed], start |-> fs.nextFree]

(* allocate_extent: bump allocation, never reclaimed. *)
AllocateExtent(fs, needed) ==
  IF fs.nextFree + needed > TotalSectors
  THEN [ok |-> FALSE, fs |-> fs, start |-> 0]
  ELSE [ok |-> TRUE, fs |-> [fs EXCEPT !.nextFree = @ + needed], start |-> fs.nextFree]

(* Vfs::write after ensure_mounted: pick the slot, pick or allocate the    *)
(* extent, write the data sector, update the entry in memory, persist.     *)
WriteMounted(name, data, fs, disk, budget) ==
  LET needed == IF data = <<>> THEN 0
                ELSE (Len(data) + SectorUnits - 1) \div SectorUnits
      found == {i \in Slots : fs.entries[i].used /\ fs.entries[i].name = name}
      free == {i \in Slots : ~fs.entries[i].used}
      idx == IF found # {} THEN Min(found) ELSE Min(free)
      e == fs.entries[idx]
      inPlace == e.used /\ e.count >= needed /\ e.start # 0
      alloc == AllocateExtent(fs, needed)
      start == IF needed = 0 THEN 0 ELSE IF inPlace THEN e.start ELSE alloc.start
      fs1 == IF needed = 0 \/ inPlace THEN fs ELSE alloc.fs
      fs2 == [fs1 EXCEPT
                !.fileCount = IF e.used THEN @ ELSE @ + 1,
                !.entries[idx] = [used |-> TRUE, nameLen |-> NameLen[name],
                                  size |-> Len(data), start |-> start,
                                  count |-> needed, name |-> name]]
      written == IF needed = 0 THEN disk
                 ELSE [disk EXCEPT !.data[start] = Pad(data)]
  IN IF found = {} /\ free = {} THEN {Out(fs, disk, "NoSpace", 0)}
     ELSE IF needed > 0 /\ ~inPlace /\ ~alloc.ok
     THEN {Out(fs, disk, "StorageNoSpace", 0)}
     ELSE {Out(fs1, d, "StorageIo", 1) :
             d \in IF needed > 0 /\ budget > 0 THEN {disk, written} ELSE {}}
          \cup PersistMetadata(fs2, written, budget)

(* Seeded fault: the directory is persisted before the entry is cleared. *)
DeletePersistFirst(name, fs, disk, budget) ==
  LET found == {i \in Slots : fs.entries[i].used /\ fs.entries[i].name = name}
  IN IF found = {} THEN {Out(fs, disk, "NotFound", 0)}
     ELSE {[o EXCEPT !.fs = [fs EXCEPT !.entries[Min(found)] = EmptyEntry,
                                       !.fileCount = IF @ > 0 THEN @ - 1 ELSE 0]]
           : o \in PersistMetadata(fs, disk, budget)}

(* Vfs::delete after ensure_mounted. *)
DeleteMounted(name, fs, disk, budget) ==
  LET found == {i \in Slots : fs.entries[i].used /\ fs.entries[i].name = name}
  IN IF found = {} THEN {Out(fs, disk, "NotFound", 0)}
     ELSE PersistMetadata([fs EXCEPT !.entries[Min(found)] = EmptyEntry,
                                     !.fileCount = IF @ > 0 THEN @ - 1 ELSE 0],
                          disk, budget)

(* Vfs::read of a mounted filesystem: the bytes it returns, NoFile for     *)
(* NotFound, or "DiskCorrupt".                                             *)
ReadFile(fs, disk, name) ==
  LET found == {i \in Slots : fs.entries[i].used /\ fs.entries[i].name = name}
      e == fs.entries[Min(found)]
  IN IF found = {} THEN NoFile
     ELSE IF e.size = 0 THEN <<>>
     ELSE IF e.count = 0 \/ e.start < DATA_START THEN "DiskCorrupt"
     ELSE SubSeq(disk.data[e.start], 1, e.size)

----------------------------------------------------------------------------
CONSTANTS
  OpNames,     \* names the operations are called with
  DataInputs,  \* contents written
  PreFiles,    \* files on the disk image at boot, in slot order
  BlankBoot,   \* TRUE: the disk has never been formatted
  MaxFaults    \* storage failures in one behaviour

ASSUME OpNames \subseteq Names /\ DataInputs \subseteq FileData
ASSUME \A k \in DOMAIN PreFiles : PreFiles[k].data # <<>>
ASSUME DATA_START + Len(PreFiles) <= TotalSectors

VARIABLES
  fs,      \* the DiskFs in kernel memory
  disk,    \* the sectors: superblock, directory records, data
  faults,  \* storage failures so far
  lastOp,  \* the last operation and its result
  acked    \* per name, the contents a read may return (history)

vars == <<fs, disk, faults, lastOp, acked>>

Budget == MaxFaults - faults

(* An unformatted disk, and the image after writing PreFiles in order. *)
BlankDisk == [sb |-> NoSb, dir |-> [i \in Slots |-> EmptyEntry],
              data |-> [s \in DataSectors |-> Pad(<<>>)]]
ImageOf(files) ==
  [sb |-> [nextFree |-> DATA_START + Len(files), fileCount |-> Len(files)],
   dir |-> [i \in Slots |->
              IF i < Len(files)
              THEN [used |-> TRUE, nameLen |-> NameLen[files[i + 1].name],
                    size |-> Len(files[i + 1].data), start |-> DATA_START + i,
                    count |-> 1, name |-> files[i + 1].name]
              ELSE EmptyEntry],
   data |-> [s \in DataSectors |->
              IF s - DATA_START < Len(files)
              THEN Pad(files[s - DATA_START + 1].data) ELSE Pad(<<>>)]]

(* What reading each name from a mounted image gives. *)
FilesOn(d) ==
  LET entries == [i \in Slots |-> DecodeEntry(d.dir[i])]
  IN [n \in Names |-> ReadFile([NewFs EXCEPT !.entries = entries], d, n)]

TypeOK ==
  /\ fs \in [mounted : BOOLEAN, nextFree : DATA_START .. TotalSectors,
             fileCount : 0 .. MAX_FILES, entries : [Slots -> Entry]]
  /\ disk \in [sb : {NoSb} \cup [nextFree : DATA_START .. TotalSectors,
                                 fileCount : 0 .. MAX_FILES],
               dir : [Slots -> Entry], data : [DataSectors -> Content]]
  /\ faults \in 0 .. MaxFaults
  /\ lastOp \in [op : {"boot", "write", "delete", "sync", "remount", "crash"},
                 res : Results]
  /\ acked \in [Names -> SUBSET (FileData \cup {NoFile})]

Init ==
  /\ fs = NewFs
  /\ disk = IF BlankBoot THEN BlankDisk ELSE ImageOf(PreFiles)
  /\ faults = 0
  /\ lastOp = [op |-> "boot", res |-> "Ok"]
  /\ acked = [n \in Names |-> {IF disk.sb = NoSb THEN NoFile ELSE FilesOn(disk)[n]}]

Apply(o, op) ==
  /\ fs' = o.fs
  /\ disk' = o.disk
  /\ faults' = faults + o.cost
  /\ lastOp' = [op |-> op, res |-> o.res]

(* fs::write_file: a write that fails part way may or may not take effect. *)
Write(n, d) ==
  \E o \in AndThen(EnsureMounted(fs, disk, Budget), Budget,
                   LAMBDA f, k, b : WriteMounted(n, d, f, k, b)) :
    /\ Apply(o, "write")
    /\ acked' = [acked EXCEPT ![n] = IF o.res = "Ok" THEN {d} ELSE @ \cup {d}]

(* fs::delete_file *)
Delete(n) ==
  \E o \in AndThen(EnsureMounted(fs, disk, Budget), Budget,
                   LAMBDA f, k, b : DeleteMounted(n, f, k, b)) :
    /\ Apply(o, "delete")
    /\ acked' = [acked EXCEPT ![n] = CASE o.res = "Ok" -> {NoFile}
                                       [] o.res = "NotFound" -> @
                                       [] OTHER -> @ \cup {NoFile}]

(* fs::sync_to_disk: DiskFs::sync_metadata *)
Sync ==
  \E o \in AndThen(EnsureMounted(fs, disk, Budget), Budget, PersistMetadata) :
    Apply(o, "sync") /\ UNCHANGED acked

(* fs::reload_from_disk: DiskFs::remount *)
Remount ==
  \E o \in MountOrFormat([fs EXCEPT !.mounted = FALSE], disk, Budget) :
    Apply(o, "remount") /\ UNCHANGED acked

(* Power loss or reset: kernel memory is lost, the disk keeps its sectors. *)
Crash ==
  /\ fs' = NewFs
  /\ lastOp' = [op |-> "crash", res |-> "Ok"]
  /\ UNCHANGED <<disk, faults, acked>>

Next ==
  \/ \E n \in OpNames, d \in DataInputs : Write(n, d)
  \/ \E n \in OpNames : Delete(n)
  \/ Sync
  \/ Remount
  \/ Crash

Spec == Init /\ [][Next]_vars

----------------------------------------------------------------------------
(* Extents of a directory: used records with a data sector, pairwise       *)
(* disjoint and inside [DATA_START, nextFree).                             *)
ExtentsAllocated(entries, nextFree) ==
  LET ext == {i \in Slots : entries[i].used /\ entries[i].count > 0}
  IN \A i \in ext :
       /\ entries[i].start >= DATA_START
       /\ entries[i].start + entries[i].count <= nextFree
       /\ \A j \in ext \ {i} :
            \/ entries[i].start + entries[i].count <= entries[j].start
            \/ entries[j].start + entries[j].count <= entries[i].start

(* The mounted directory never gives two files the same data sector, nor a *)
(* sector that allocate_extent may still hand out: write's choice between  *)
(* reusing an extent in place and bump allocation, and remount's reload of *)
(* next_free_sector from the superblock, keep extents owned by one file.   *)
MemExtentsAllocated ==
  fs.mounted => ExtentsAllocated(fs.entries, fs.nextFree)

(* The same holds of the image on disk at every instant, across failed and *)
(* interrupted persists: persist_metadata writes the superblock (with the  *)
(* new next_free) before the directory sectors that use it.                *)
DiskExtentsAllocated ==
  disk.sb # NoSb => ExtentsAllocated(disk.dir, disk.sb.nextFree)

(* After write, delete or sync_to_disk returns Ok, a reboot finds exactly  *)
(* the directory and next_free the kernel has in memory.                   *)
OkIsDurable ==
  (lastOp.op \in {"write", "delete", "sync"} /\ lastOp.res = "Ok") =>
    \A o \in MountOrFormat(NewFs, disk, 0) :
      /\ o.res = "Ok"
      /\ o.fs.entries = fs.entries
      /\ o.fs.nextFree = fs.nextFree

(* A formatted disk always mounts: mount_or_format / load_directory never  *)
(* meet a record they reject (the spec's superblock invariants, section 8, *)
(* and the boot-time fallback to ramfs never taken for a disk we wrote).   *)
DiskImageMountable ==
  disk.sb # NoSb => \A o \in MountOrFormat(NewFs, disk, 0) : o.res = "Ok"

(* Read returns what the last successful write or delete of that name left *)
(* (section 8's round trip), or, after a failed one, the old or the new    *)
(* contents, never a mixture.                                              *)
ReadAllowed ==
  fs.mounted => \A n \in Names : ReadFile(fs, disk, n) \in acked[n]

(* The two properties above, for the behaviours in which no storage call   *)
(* has failed yet: with a reliable disk, every sequence of writes, deletes,*)
(* syncs, remounts and crashes keeps the image mountable and reads round-  *)
(* trip.  faults only grows, so these are the states of a fault-free run.  *)
MountableWithoutFaults == faults = 0 => DiskImageMountable

ReadAllowedWithoutFaults == faults = 0 => ReadAllowed
=============================================================================
