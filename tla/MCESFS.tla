------------------------------- MODULE MCESFS -------------------------------
(* Small instances of ESFS.  A drive has 22 sectors of 8 cells: the boot   *)
(* sector and a kernel sector, the superblock, five sectors of the inode   *)
(* table with two inodes each, and the data blocks 8 to 20.                *)
EXTENDS ESFSProperties

f == <<91>>
g == <<93, 94>>
h == <<95>>

OneDrive  == {0}
TwoDrives == {0, 1}

BootSector   == [c \in Cells |-> 99]
KernelSector == [c \in Cells |-> 98]

(* An empty disk in use: the superblock has been completed by a boot, and  *)
(* the file the host tool had put first has been deleted.  Its pointer     *)
(* block, in the last sector of the inode table, stays behind.             *)
UsedDisk ==
    [b \in Sectors |->
        CASE b = 0 -> BootSector
          [] b = 1 -> KernelSector
          [] b = SuperblockBlock -> SuperblockSector(Geometry((DiskSectors - 2) * WordsPerSector, 8))
          [] b = 7 -> ToSector(<<8>>)
          [] OTHER -> ZeroSector]

UsedDisks == {[d \in Drives |-> UsedDisk]}

(* A second drive that was never used.                                     *)
BlankDisk == [b \in Sectors |-> ZeroSector]
UsedAndBlank == {[d \in Drives |-> IF d = BootDrive THEN UsedDisk ELSE BlankDisk]}

(* What make and the host tool leave: nothing in the reserved sector       *)
(* behind the boot sector, file h in the data area, and no size and no     *)
(* cursor in the superblock.                                               *)
Tool == INSTANCE ESFSRawWrite WITH ImageBlocks <- DiskSectors - SuperblockBlock
FreshDisk == Tool!RawWrite([BlankDisk EXCEPT ![0] = BootSector],
                           [name |-> h, data |-> <<71, 0, 72>>])
FreshDisks == {[d \in Drives |-> FreshDisk]}

(* Files f, h and g, with the free entries of deleted files in between:    *)
(* fewer than NullFiles in a row while h is there.                         *)
GapDisk ==
    LET entry(p, b) == WithInode(ZeroSector, p, [NoInode EXCEPT !.valid = 1, !.size = 3,
                                                    !.ptrs[0] = b])
    IN  [UsedDisk EXCEPT ![3] = entry(0, 8),  ![8] = ToSector(<<9>>),   ![9] = ToSector(f),
                         ![4] = entry(4, 10), ![10] = ToSector(<<11>>), ![11] = ToSector(h),
                         ![6] = entry(9, 12), ![12] = ToSector(<<13>>), ![13] = ToSector(g)]
GapDisks == {[d \in Drives |-> GapDisk]}

-----------------------------------------------------------------------------
(* Commands.                                                               *)

Cmd(prog, name) == [prog |-> prog, name |-> name, drv |-> 0,
                    src |-> <<>>, srcdrv |-> 0, cut |-> 0, add |-> <<>>]
Edit(prog, name, cut, add) == [Cmd(prog, name) EXCEPT !.cut = cut, !.add = add]
Copy(srcdrv, src, drv, name) ==
    [Cmd("copy", name) EXCEPT !.drv = drv, !.src = src, !.srcdrv = srcdrv]
Drive(d) == [Cmd("drive", <<>>) EXCEPT !.drv = d]

Short == <<51, 52>>
Full  == <<61, 62, 63, 64, 65, 66>>  \* f's first block filled to its last cell
Long  == <<61, 62, 63, 64, 65, 66, 67>>

(* Files made, edited within and beyond their first block, and deleted.    *)
FileCommands ==
    {Cmd(prog, n) : prog \in {"touch", "del"}, n \in {f, g}}
    \union {Edit("hexedit", f, 0, Short), Edit("hexedit", f, 0, Full),
            Edit("hexedit", f, 1, Long),
            Edit("hexedit", g, 0, Long), Edit("hexedit", g, 0, <<>>)}

(* A text that needs more than the blocks of one pointer block, one that   *)
(* fills them to the last cell, and one that leaves two cells free.        *)
Count(n) == [i \in 1 .. n |-> 50]
Room == WordsPerSector * WordsPerSector - Len(f)
LargeCommands ==
    {Edit("hexedit", f, 0, Count(n)) : n \in {Room - 2, Room, Room + 9}}
    \union {Cmd("touch", g), Cmd("del", g), Cmd("del", f), Copy(0, f, 0, g)}

(* Files saved by edit, whose loop must end, a text that outgrows a pointer*)
(* block, a copy, and a drive that is selected, formatted, or absent.      *)
FinishCommands ==
    {Cmd("touch", f), Cmd("del", f), Cmd("del", g), Copy(0, h, 1, h), Cmd("format", <<>>),
     Edit("edit", f, 0, Short), Edit("edit", g, 0, Long),
     Edit("hexedit", g, 0, Count(Room + 9))}
    \union {Drive(d) : d \in {1, 3}}

Touches      == {Cmd("touch", f), Cmd("touch", g)}
SaveTwice    == {Edit("hexedit", f, 0, Short), Edit("hexedit", f, 0, Long)}
DeleteH      == {Cmd(prog, n) : prog \in {"touch", "del"}, n \in {h}}
=============================================================================
