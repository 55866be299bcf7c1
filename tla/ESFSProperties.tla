--------------------------- MODULE ESFSProperties ---------------------------
(* What should be true of ESFS, stated over the states and steps of the    *)
(* module ESFS.                                                            *)
EXTENDS ESFS, SequencesExt

(* Types of all variables.                                                 *)
TypeOK ==
    /\ disk \in [Drives -> Disk]
    /\ lab \in Nat /\ selected \in Drives /\ drive \in Drives
    /\ sb \in Superblock /\ stale \in Inode
    /\ pc \in {"off", "shell", "run", "image", "zero", "pointer", "name", "created",
               "load", "wipe", "pointers", "blocks", "data", "chain", "size",
               "written", "super", "inodes"}
    /\ job \in Commands \union {NoJob} /\ todo \in Seq(Calls)
    /\ payload \in Seq(Nat) /\ wsize \in Int
    /\ fr \in Frame /\ ret \in Nat
    /\ commands \in 0 .. MaxCommands /\ crashes \in 0 .. MaxCrashes

-----------------------------------------------------------------------------
(* The files a user sees.                                                  *)

Names == {j.name : j \in Commands}
None  == <<0>>

FileText(dk, n) ==
    LET found == Matches(dk, n)
    IN  IF found = {} THEN None ELSE Text(dk, InodeAt(dk, Min(found)))

Files(d) == Reached(disk[d], NullFiles)

PointerBlocks(dk, ino) == {ino.ptrs[i] : i \in 0 .. PtrsPerInode - 1} \ {0}
DataBlocks(dk, ino) ==
    (UNION {{ReadSector(dk, b)[c] : c \in Cells} : b \in PointerBlocks(dk, ino)}) \ {0}
BlocksOf(d, p) ==
    LET ino == InodeAt(disk[d], p)
    IN  PointerBlocks(disk[d], ino) \union DataBlocks(disk[d], ino)

AtShell == pc = "shell"
NoLoss  == crashes = 0  \* no call has been cut short

-----------------------------------------------------------------------------
(* The blocks of files.                                                    *)

(* Until a power loss, whenever the shell waits for a command, no block    *)
(* belongs to two files, and none is both a pointer block and a data block *)
(* of one: the search for a free block skips every block that is in use,   *)
(* although it never compares its candidate with the pointer blocks        *)
(* themselves.                                                             *)
FilesApart ==
    AtShell /\ NoLoss => \A d \in Drives : \A p \in Files(d) :
        /\ LET ino == InodeAt(disk[d], p)
           IN  PointerBlocks(disk[d], ino) \cap DataBlocks(disk[d], ino) = {}
        /\ \A q \in Files(d) \ {p} : BlocksOf(d, p) \cap BlocksOf(d, q) = {}

(* The same for the files the user knows by name, which must hold also     *)
(* when a power loss has cut file_create short and left an inode behind    *)
(* whose pointer block is free again.                                      *)
NamedFilesApart ==
    AtShell => \A d \in Drives, n \in Names, m \in Names :
        n # m => \A p \in Matches(disk[d], n), q \in Matches(disk[d], m) :
                    BlocksOf(d, p) \cap BlocksOf(d, q) = {}

(* Every block a file owns is a data block: beyond the inode table and not *)
(* beyond the superblock's count of blocks.                                *)
FilesInDataArea ==
    AtShell => \A d \in Drives, n \in Names : \A p \in Matches(disk[d], n) :
        LET s == SuperblockOf(disk[d])
        IN  BlocksOf(d, p) \subseteq SuperblockBlock + s.inode_blocks + 1 .. s.blocks

(* The sectors before the superblock hold the boot loader and the kernel:  *)
(* no step ever changes one.                                               *)
KernelKept ==
    [][\A d \in Drives : \A b \in 0 .. SuperblockBlock - 1 :
          disk'[d][b] = disk[d][b]]_vars

(* The boot sector in particular is never written, whatever the disk holds *)
(* and wherever the cursor is: 0 means "no block" everywhere.              *)
BootSectorKept == [][\A d \in Drives : disk'[d][0] = disk[d][0]]_vars

(* The size on record of a file with text covers its name, the name's NUL  *)
(* and all of the text, so that a program that reads size bytes reads it   *)
(* whole.  A power loss that stops a write before its end keeps it so, as  *)
(* file_write counts what it puts into a block before it puts it there.    *)
(* Not so for two inodes of one name, of which file_write takes the sizes  *)
(* and the text apart: a file_create that was cut short can leave those.   *)
SizeCovers(d, n) ==
    \A p \in Matches(disk[d], n) :
        LET ino  == InodeAt(disk[d], p)
            text == Text(disk[d], ino)
        IN  text # <<>> => ino.size >= Len(n) + 1 + Len(text)

SizeCoversText ==
    AtShell => \A d \in Drives, n \in Names :
        Cardinality(Matches(disk[d], n)) = 1 => SizeCovers(d, n)

(* Lookups by name and list, whose scans end where enough entries in a row *)
(* are null, reach every inode in use, and take nothing else for one.      *)
NoFileHidden ==
    AtShell => \A d \in Drives :
        LET inodes == {p \in LiveEntries(disk[d]) : InodeSector(p) <=
                          InodeTableSector(SuperblockOf(disk[d]).inode_blocks)}
        IN  Files(d) = inodes /\ Listed(disk[d]) = inodes

(* The cursor a reboot would start from is the one in use.                 *)
CursorPersisted ==
    AtShell => \A d \in Drives : SuperblockOf(disk[d]).last_allocated_block = lab

(* Blocks of the data area that hold something no file owns: the pointer   *)
(* blocks of deleted files, which file_delete neither clears nor reuses.   *)
DeadBlocks(d) ==
    LET s == SuperblockOf(disk[d])
    IN  {b \in SuperblockBlock + s.inode_blocks + 1 .. s.blocks :
            /\ ~LooksEmpty(disk[d][b])
            /\ \A p \in Files(d) : b \notin BlocksOf(d, p)}

(* A command that ends loses at most one block: a file of one pointer      *)
(* block costs that block, and only that, when it is deleted.              *)
LeakBounded ==
    AtShell /\ NoLoss => \A d \in Drives :
        Cardinality(DeadBlocks(d)) <= commands

-----------------------------------------------------------------------------
(* What the calls return.                                                  *)

(* file_create returns 1 if the file exists (fs.h).                        *)
RefusalTruthful ==
    [][Create /\ pc' = "run" /\ ret' = 1
          => FileText(disk[drive], job.name) # None]_vars

(* When file_create returns 0 the file is there, and empty.                *)
CreatedFileThere ==
    [][CreateSave => FileText(disk'[drive], job.name) = <<>>]_vars

(* file_write writes all it is given, and says so.                         *)
WriteComplete ==
    [][WriteSave => ret' = Max({wsize, 0})]_vars

(* After a successful file_delete the file is gone and the search finds    *)
(* every one of its data blocks again, from where the cursor now is.       *)
DeleteReclaims ==
    [][DeleteSave =>
          /\ FileText(disk'[drive], job.name) = None
          /\ DataBlocks(disk[drive], fr.info)
                \subseteq FreeBlocks(disk'[drive], sb, lab')]_vars

-----------------------------------------------------------------------------
(* What the programs do for their user.                                    *)

CopyFrom == FileText(disk[job.srcdrv], job.src)
CopyTo   == FileText(disk[job.drv], job.name)
Copied   == /\ Exit /\ job.prog = "copy" /\ CopyFrom # None
            /\ CheckDiskFs(disk[selected]) /\ CheckDiskFs(disk[job.drv])

Formatted == FormatInodes /\ pc' = "run"

(* Formatting wipes all the files of the drive (manual.txt).               *)
FormatWipes ==
    [][Formatted => \A n \in Names : FileText(disk'[drive], n) = None]_vars

(* Every block the superblock counts is on the drive, though the probe     *)
(* that measures a drive counts up to 2 * ProbeStep sectors too many.  Not *)
(* so where the probe's loop was skipped (fs.c:25): the size is then what  *)
(* -1 block wraps to, more than any drive has.                             *)
GeometryFits ==
    AtShell => \A d \in Drives :
        LET s == SuperblockOf(disk[d])
        IN  s.magic = Magic /\ s.disk_size # ProbedSize(TRUE) => s.blocks < DiskSectors

-----------------------------------------------------------------------------
(* Every command comes back to the shell, if the power holds.              *)
CommandsFinish == [](pc # "shell" => <>(pc = "shell"))
=============================================================================
